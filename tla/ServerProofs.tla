---------------------------- MODULE ServerProofs ----------------------------
(***************************************************************************)
(* Proofs about Server: what a KV cache holds, through a turn and from one *)
(* turn to the next, for any vocabulary, any length of requests, replies   *)
(* and chunks, and every process the settings describe.                    *)
(***************************************************************************)
EXTENDS Server, SequenceTheorems, FiniteSetTheorems, WellFoundedInduction, TLAPS

KvCaches == [toks : Seq(Tokens), quant : BOOLEAN, via : SUBSET {"refed", "lookup"}]

\* What the store holds: caches of their keys.
Stored ==
  \A k \in DOMAIN store :
    /\ k \in Seq(Tokens) /\ store[k] \in KvCaches
    /\ store[k].via = {} => store[k].toks = k

Typed ==
  /\ conf \in Settings
  /\ {recent, ctx, rest, out, feed} \subseteq Seq(Tokens)
  /\ kv \in KvCaches
  /\ cached \in Nat /\ done \in Nat
  /\ lent \in BOOLEAN
  /\ pc \in {"idle", "begin", "snapshot", "generate", "decode"}

\* Where the turn is in its request.
Placed ==
  /\ pc = "idle" => ~lent
  /\ pc # "snapshot" => done = 0
  /\ pc # "decode" => out = <<>> /\ feed = <<>>
  /\ pc \in {"begin", "snapshot"} =>
       cached <= Len(ctx) /\ rest = Drop(ctx, cached)
  /\ pc = "begin" /\ Len(rest) > 1 => ~kv.quant
  /\ pc = "snapshot" =>
       /\ ~kv.quant /\ bounds # {}
       /\ bounds \subseteq cached + 1 .. Len(ctx) - 1
       /\ cached + done < Len(ctx)
       /\ ~conf.trimmable => \A b \in bounds : cached + done <= b
  /\ pc = "decode" /\ conf.lookup => out # <<>>
  /\ ~conf.lookup => feed = <<>>

\* Which tokens the cache of the turn was computed from.
Conditioned ==
  kv.via = {} =>
    /\ pc \in {"begin", "snapshot"} => kv.toks = Take(ctx, cached + done)
    /\ pc = "generate" => kv.toks \o rest = ctx /\ (Len(rest) > 1 => ~kv.quant)
    /\ pc = "decode" /\ ~conf.lookup => kv.toks = ctx \o out
    /\ pc = "decode" /\ conf.lookup =>
         kv.toks \o <<Last(out \o feed)>> = ctx \o (out \o feed)

IInv == Typed /\ Stored /\ Placed /\ Conditioned

-----------------------------------------------------------------------------
(* Extremes of sets of numbers.                                             *)

\* A bounded set of numbers has a greatest: of the sets of what is greater than
\* one of its members, one has no proper subset among them, and it is empty.
LEMMA GreatestExists ==
  ASSUME NEW b \in Nat, NEW S \in SUBSET (0 .. b), S # {}
  PROVE  \E x \in S : \A y \in S : x >= y
<1> DEFINE Above(x) == { y \in S : y > x }
           T == { Above(x) : x \in S }
           R == StrictSubsetOrdering(S)
<1>1. IsFiniteSet(S)
  <2>1. 0 \in Int /\ b \in Int
    OBVIOUS
  <2>2. IsFiniteSet(0 .. b)
    BY <2>1, FS_Interval
  <2>3. QED BY <2>2, FS_Subset
<1>2. T \subseteq FiniteSubsetsOf(S) /\ T # {}
  <2>1. \A x \in S : Above(x) \in SUBSET S /\ IsFiniteSet(Above(x))
    BY <1>1, FS_Subset
  <2>2. QED BY <2>1 DEF FiniteSubsetsOf
<1>3. PICK U \in T : \A V \in T : <<V, U>> \notin R
  <2> HIDE DEF T
  <2>1. IsWellFoundedOn(R, FiniteSubsetsOf(S))
    BY FS_StrictSubsetOrderingWellFounded
  <2> HIDE DEF R
  <2>2. \E U \in T : \A V \in T : <<V, U>> \notin R
    BY <1>2, <2>1, WFMin
  <2>3. QED BY <2>2
<1>4. PICK x \in S : U = Above(x)
  BY <1>3
<1>5. \A y \in S : ~(y > x)
  <2> SUFFICES ASSUME NEW y \in S, y > x
               PROVE  FALSE
    OBVIOUS
  <2>0. \A z \in S : z \in Nat
    OBVIOUS
  <2>1. Above(y) \subseteq Above(x) /\ y \in Above(x) /\ y \notin Above(y)
    <3> HIDE DEF T, R
    <3>1. (\A z \in S : z > y => z > x) /\ ~(y > y)
      BY <2>0
    <3>2. Above(y) \subseteq Above(x)
      BY <3>1
    <3>3. y \in Above(x) /\ y \notin Above(y)
      BY <3>1
    <3>4. QED BY <3>2, <3>3
  <2>2. <<Above(y), Above(x)>> \in R
    BY <2>1 DEF StrictSubsetOrdering
  <2>3. QED BY <1>3, <1>4, <2>2
<1>6. QED BY <1>5

LEMMA LeastExists ==
  ASSUME NEW S \in SUBSET Nat, S # {}
  PROVE  \E x \in S : \A y \in S : x <= y
<1>1. PICK b \in S : TRUE
  OBVIOUS
<1> DEFINE T == { n \in 0 .. b : b - n \in S }
<1>2. 0 \in T
  OBVIOUS
<1>3. PICK t \in T : \A u \in T : t >= u
  <2>1. T \in SUBSET (0 .. b) /\ T # {} /\ b \in Nat
    BY <1>2
  <2> HIDE DEF T
  <2> QED BY <2>1, GreatestExists
<1>4. \A y \in S : b - t <= y
  <2> SUFFICES ASSUME NEW y \in S, y < b - t
               PROVE  FALSE
    OBVIOUS
  <2>1. b - y \in T
    OBVIOUS
  <2>2. QED BY <1>3, <2>1
<1>5. QED BY <1>4

LEMMA MaxIs ==
  ASSUME NEW b \in Nat, NEW S \in SUBSET (0 .. b), S # {}
  PROVE  Max(S) \in S /\ \A y \in S : Max(S) >= y
BY GreatestExists DEF Max

LEMMA MinIs ==
  ASSUME NEW S \in SUBSET Nat, S # {}
  PROVE  Min(S) \in S /\ \A y \in S : Min(S) <= y
BY LeastExists DEF Min

LEMMA MaxOfTwo ==
  ASSUME NEW a \in Int, NEW b \in Int
  PROVE  Max({a, b}) = IF a >= b THEN a ELSE b
<1>1. CASE a >= b
  <2>1. a \in {a, b} /\ \A y \in {a, b} : a >= y
    BY <1>1
  <2>2. \A x \in {a, b} : (\A y \in {a, b} : x >= y) => x = a
    BY <1>1
  <2>3. QED BY <1>1, <2>1, <2>2 DEF Max
<1>2. CASE ~(a >= b)
  <2>1. b \in {a, b} /\ \A y \in {a, b} : b >= y
    BY <1>2
  <2>2. \A x \in {a, b} : (\A y \in {a, b} : x >= y) => x = b
    BY <1>2
  <2>3. QED BY <1>2, <2>1, <2>2 DEF Max
<1>3. QED BY <1>1, <1>2

LEMMA MinOfTwo ==
  ASSUME NEW a \in Int, NEW b \in Int
  PROVE  Min({a, b}) = IF a <= b THEN a ELSE b
<1>1. CASE a <= b
  <2>1. a \in {a, b} /\ \A y \in {a, b} : a <= y
    BY <1>1
  <2>2. \A x \in {a, b} : (\A y \in {a, b} : x <= y) => x = a
    BY <1>1
  <2>3. QED BY <1>1, <2>1, <2>2 DEF Min
<1>2. CASE ~(a <= b)
  <2>1. b \in {a, b} /\ \A y \in {a, b} : b <= y
    BY <1>2
  <2>2. \A x \in {a, b} : (\A y \in {a, b} : x <= y) => x = b
    BY <1>2
  <2>3. QED BY <1>2, <2>1, <2>2 DEF Min
<1>3. QED BY <1>1, <1>2

-----------------------------------------------------------------------------
(* Prefixes and rests of sequences.                                         *)

LEMMA TakeIs ==
  ASSUME NEW S, NEW s \in Seq(S), NEW n \in 0 .. Len(s)
  PROVE  /\ Take(s, n) \in Seq(S) /\ Len(Take(s, n)) = n
         /\ \A i \in 1 .. n : Take(s, n)[i] = s[i]
BY SubSeqProperties DEF Take

LEMMA DropIs ==
  ASSUME NEW S, NEW s \in Seq(S), NEW n \in 0 .. Len(s)
  PROVE  /\ Drop(s, n) \in Seq(S) /\ Len(Drop(s, n)) = Len(s) - n
         /\ \A i \in 1 .. Len(s) - n : Drop(s, n)[i] = s[n + i]
BY SubSeqProperties DEF Drop

\* A stretch of a sequence between two of its positions.
LEMMA StretchIs ==
  ASSUME NEW S, NEW s \in Seq(S), NEW m \in 0 .. Len(s), NEW n \in m .. Len(s)
  PROVE  /\ SubSeq(s, m + 1, n) \in Seq(S) /\ Len(SubSeq(s, m + 1, n)) = n - m
         /\ \A i \in 1 .. n - m : SubSeq(s, m + 1, n)[i] = s[m + i]
BY SubSeqProperties

LEMMA TakeThenDrop ==
  ASSUME NEW S, NEW s \in Seq(S), NEW n \in 0 .. Len(s)
  PROVE  Take(s, n) \o Drop(s, n) = s
<1> DEFINE t == Take(s, n)  d == Drop(s, n)
<1>1. t \in Seq(S) /\ Len(t) = n /\ \A i \in 1 .. n : t[i] = s[i]
  BY TakeIs
<1>2. d \in Seq(S) /\ Len(d) = Len(s) - n /\ \A i \in 1 .. Len(s) - n : d[i] = s[n + i]
  BY DropIs
<1> HIDE DEF t, d
<1>3. t \o d \in Seq(S) /\ Len(t \o d) = Len(t) + Len(d) /\ Len(s) \in Nat
      /\ \A i \in 1 .. Len(t) + Len(d) :
           (t \o d)[i] = IF i <= Len(t) THEN t[i] ELSE d[i - Len(t)]
  BY <1>1, <1>2, ConcatProperties, LenProperties
<1>4. Len(t \o d) = Len(s) /\ \A i \in 1 .. Len(s) : (t \o d)[i] = s[i]
  BY <1>1, <1>2, <1>3
<1>5. t \o d = s
  BY <1>3, <1>4, SeqEqual
<1>6. QED BY <1>5 DEF t, d

\* What was fed, and the next stretch of the rest: fed further.
LEMMA TakeFurther ==
  ASSUME NEW S, NEW s \in Seq(S), NEW c \in Nat, NEW m \in Nat, NEW n \in Nat,
         m <= n, c + n <= Len(s)
  PROVE  Take(s, c + m) \o SubSeq(Drop(s, c), m + 1, n) = Take(s, c + n)
<1> DEFINE a == Take(s, c + m)  d == Drop(s, c)  b == SubSeq(d, m + 1, n)  t == Take(s, c + n)
<1>0. Len(s) \in Nat /\ c + m \in 0 .. Len(s) /\ c \in 0 .. Len(s) /\ c + n \in 0 .. Len(s)
  BY LenProperties
<1>1. a \in Seq(S) /\ Len(a) = c + m /\ \A i \in 1 .. c + m : a[i] = s[i]
  BY <1>0, TakeIs
<1>2. d \in Seq(S) /\ Len(d) = Len(s) - c /\ \A i \in 1 .. Len(s) - c : d[i] = s[c + i]
  BY <1>0, DropIs
<1>3. t \in Seq(S) /\ Len(t) = c + n /\ \A i \in 1 .. c + n : t[i] = s[i]
  BY <1>0, TakeIs
<1> HIDE DEF a, d, t
<1>4. b \in Seq(S) /\ Len(b) = n - m /\ \A i \in 1 .. n - m : b[i] = d[m + i]
  <2>1. m \in 0 .. Len(d) /\ n \in m .. Len(d)
    BY <1>0, <1>2
  <2>2. QED BY <1>2, <2>1, StretchIs
<1>5. \A i \in 1 .. n - m : b[i] = s[c + m + i]
  <2>1. \A i \in 1 .. n - m : m + i \in 1 .. Len(s) - c /\ c + (m + i) = c + m + i
    BY <1>0
  <2>2. QED BY <1>2, <1>4, <2>1
<1> HIDE DEF b
<1>6. a \o b \in Seq(S) /\ Len(a \o b) = Len(a) + Len(b)
      /\ \A i \in 1 .. Len(a) + Len(b) :
           (a \o b)[i] = IF i <= Len(a) THEN a[i] ELSE b[i - Len(a)]
  BY <1>1, <1>4, ConcatProperties
<1>7. Len(a \o b) = c + n /\ \A i \in 1 .. c + n : (a \o b)[i] = s[i]
  <2>1. \A i \in c + m + 1 .. c + n : i - (c + m) \in 1 .. n - m /\ c + m + (i - (c + m)) = i
    OBVIOUS
  <2>2. \A i \in c + m + 1 .. c + n : b[i - (c + m)] = s[i]
    BY <1>5, <2>1
  <2>3. QED BY <1>1, <1>4, <1>6, <2>2
<1>8. a \o b = t
  BY <1>3, <1>6, <1>7, SeqEqual
<1>9. QED BY <1>8 DEF a, b, d, t

LEMMA TakeOfTake ==
  ASSUME NEW S, NEW s \in Seq(S), NEW m \in 0 .. Len(s), NEW n \in 0 .. m
  PROVE  Take(Take(s, m), n) = Take(s, n)
<1> DEFINE a == Take(s, m)  t == Take(s, n)
<1>1. a \in Seq(S) /\ Len(a) = m /\ \A i \in 1 .. m : a[i] = s[i]
  BY TakeIs
<1>2. t \in Seq(S) /\ Len(t) = n /\ \A i \in 1 .. n : t[i] = s[i]
  BY TakeIs
<1> HIDE DEF a, t
<1>3. Take(a, n) \in Seq(S) /\ Len(Take(a, n)) = n /\ \A i \in 1 .. n : Take(a, n)[i] = a[i]
  BY <1>1, TakeIs
<1>4. Take(a, n) = t
  BY <1>1, <1>2, <1>3, SeqEqual
<1>5. QED BY <1>4 DEF a, t

LEMMA TakeAll ==
  ASSUME NEW S, NEW s \in Seq(S)
  PROVE  Take(s, Len(s)) = s /\ Take(s, 0) = <<>> /\ Drop(s, 0) = s
<1>1. Take(s, Len(s)) = s /\ Drop(s, 0) = s
  BY SubSeqFull DEF Take, Drop
<1>2. Len(Take(s, 0)) = 0 /\ Take(s, 0) \in Seq(S)
  BY TakeIs, LenProperties
<1>3. QED BY <1>1, <1>2, EmptySeq

LEMMA DropOfDrop ==
  ASSUME NEW S, NEW s \in Seq(S), NEW m \in Nat, NEW n \in Nat, m + n <= Len(s)
  PROVE  Drop(Drop(s, m), n) = Drop(s, m + n)
<1> DEFINE d == Drop(s, m)  t == Drop(s, m + n)
<1>0. Len(s) \in Nat /\ m \in 0 .. Len(s) /\ m + n \in 0 .. Len(s)
  BY LenProperties
<1>1. d \in Seq(S) /\ Len(d) = Len(s) - m /\ \A i \in 1 .. Len(s) - m : d[i] = s[m + i]
  BY <1>0, DropIs
<1>2. t \in Seq(S) /\ Len(t) = Len(s) - (m + n)
      /\ \A i \in 1 .. Len(s) - (m + n) : t[i] = s[m + n + i]
  BY <1>0, DropIs
<1> HIDE DEF d, t
<1>3. Drop(d, n) \in Seq(S) /\ Len(Drop(d, n)) = Len(s) - (m + n)
      /\ \A i \in 1 .. Len(s) - (m + n) : Drop(d, n)[i] = d[n + i]
  <2>1. n \in 0 .. Len(d) /\ Len(d) - n = Len(s) - (m + n)
    BY <1>0, <1>1
  <2>2. QED BY <1>1, <2>1, DropIs
<1>4. Drop(d, n) = t
  <2>1. \A i \in 1 .. Len(s) - (m + n) : n + i \in 1 .. Len(s) - m /\ m + (n + i) = m + n + i
    BY <1>0
  <2>2. \A i \in 1 .. Len(s) - (m + n) : d[n + i] = s[m + n + i]
    BY <1>1, <2>1
  <2>3. QED BY <1>2, <1>3, <2>2, SeqEqual
<1>5. QED BY <1>4 DEF d, t

-----------------------------------------------------------------------------
(* What the operators of Server return.                                     *)

LEMMA RequestIs ==
  ASSUME conf \in Settings, NEW req \in Requests
  PROVE  req \in Seq(Tokens) /\ Len(req) \in Nat /\ Len(req) >= 1
<1>1. MaxReq \in Nat
  BY DEF MaxReq, Settings
<1>2. PICK n \in 1 .. MaxReq : req \in [1 .. n -> Tokens]
  BY DEF Requests
<1>3. n \in Nat /\ n >= 1
  BY <1>1
<1>4. req \in Seq(Tokens)
  BY <1>2, <1>3
<1>5. Len(req) = n
  BY <1>2, <1>3, <1>4, LenProperties
<1>6. QED BY <1>3, <1>4, <1>5

LEMMA CommonIs ==
  ASSUME NEW s \in Seq(Tokens), NEW t \in Seq(Tokens)
  PROVE  /\ Common(s, t) \in 0 .. Len(s) /\ Common(s, t) \in 0 .. Len(t)
         /\ Take(s, Common(s, t)) = Take(t, Common(s, t))
<1> DEFINE N == { n \in 0 .. Len(s) : n <= Len(t) /\ Take(s, n) = Take(t, n) }
<1>1. Len(s) \in Nat /\ Len(t) \in Nat
  BY LenProperties
<1>2. 0 \in N
  BY <1>1, TakeAll
<1>3. N \in SUBSET (0 .. Len(s)) /\ N # {}
  BY <1>2
<1>4. Max(N) \in N
  <2> HIDE DEF N
  <2> QED BY <1>1, <1>3, MaxIs
<1>5. Common(s, t) = Max(N)
  BY DEF Common
<1>6. QED BY <1>1, <1>4, <1>5

\* What a request may resume from: a stored entry and how much of it is the
\* beginning of the request.
LEMMA HitIs ==
  ASSUME conf \in Settings, Stored, NEW req \in Seq(Tokens), Len(req) >= 1,
         NEW h \in Hits(req)
  PROVE  /\ h.key \in DOMAIN store /\ h.key \in Seq(Tokens)
         /\ h.n \in 0 .. Len(req) /\ h.n \in 0 .. Len(h.key)
         /\ Take(h.key, h.n) = Take(req, h.n)
<1> DEFINE shared  == [k \in DOMAIN store |-> Common(k, req)]
           found   == {0} \cup Range(shared)
           best    == Max(found)
           sharing == {k \in DOMAIN store : shared[k] = best}
           longer  == {k \in sharing : \A l \in sharing : Len(k) <= Len(l)}
           prefix  == {k \in DOMAIN store : shared[k] = Len(k) /\ Len(k) > 1}
           short   == Max({0} \cup {Len(k) : k \in prefix})
<1>1. Len(req) \in Nat /\ \A k \in DOMAIN store : k \in Seq(Tokens) /\ Len(k) \in Nat
  BY LenProperties DEF Stored
<1>2. \A k \in DOMAIN store :
        /\ shared[k] = Common(k, req)
        /\ shared[k] \in 0 .. Len(k) /\ shared[k] \in 0 .. Len(req)
        /\ Take(k, shared[k]) = Take(req, shared[k])
  BY <1>1, CommonIs
<1>3. best \in 0 .. Len(req)
  <2>1. found \in SUBSET (0 .. Len(req)) /\ found # {}
    BY <1>1, <1>2 DEF Range
  <2> HIDE DEF found
  <2>2. Max(found) \in found
    BY <1>1, <2>1, MaxIs
  <2>3. QED BY <2>1, <2>2
<1>4. \/ req \in DOMAIN store /\ h = [key |-> req, n |-> Len(req)]
      \/ \E k \in longer : h = [key |-> k, n |-> Min({Len(req) - 1, best})]
      \/ \E k \in {p \in prefix : Len(p) = short} : h = [key |-> k, n |-> short]
  <2>1. Hits(req) =
          IF req \in DOMAIN store THEN {[key |-> req, n |-> Len(req)]}
          ELSE IF best > short /\ conf.trimmable
            THEN {[key |-> k, n |-> Min({Len(req) - 1, best})] : k \in longer}
          ELSE {[key |-> k, n |-> short] : k \in {p \in prefix : Len(p) = short}}
    BY DEF Hits
  <2> HIDE DEF longer, prefix, short, best
  <2>2. QED BY <2>1
<1> HIDE DEF shared, best, short
<1>5. CASE req \in DOMAIN store /\ h = [key |-> req, n |-> Len(req)]
  BY <1>1, <1>5
<1>6. CASE \E k \in longer : h = [key |-> k, n |-> Min({Len(req) - 1, best})]
  <2>1. PICK k \in longer : h = [key |-> k, n |-> Min({Len(req) - 1, best})]
    BY <1>6
  <2> DEFINE n == Min({Len(req) - 1, best})
  <2>2. n \in 0 .. best
    BY <1>1, <1>3, MinOfTwo
  <2> HIDE DEF n
  <2>3. k \in DOMAIN store /\ k \in Seq(Tokens) /\ best \in 0 .. Len(k) /\ best \in 0 .. Len(req)
        /\ Take(k, best) = Take(req, best)
    BY <1>1, <1>2
  <2>4. Take(k, n) = Take(req, n)
    <3>1. Take(Take(k, best), n) = Take(k, n) /\ Take(Take(req, best), n) = Take(req, n)
      BY <2>2, <2>3, TakeOfTake
    <3>2. QED BY <2>3, <3>1
  <2>5. n \in 0 .. Len(req) /\ n \in 0 .. Len(k)
    BY <1>1, <2>2, <2>3
  <2>6. h.key = k /\ h.n = n
    BY <2>1 DEF n
  <2>7. QED BY <2>3, <2>4, <2>5, <2>6
<1>7. CASE \E k \in {p \in prefix : Len(p) = short} : h = [key |-> k, n |-> short]
  <2>1. PICK k \in prefix : Len(k) = short /\ h = [key |-> k, n |-> short]
    BY <1>7
  <2>2. QED BY <1>1, <1>2, <2>1
<1>8. QED BY <1>4, <1>5, <1>6, <1>7

LEMMA FedIs ==
  ASSUME NEW c \in KvCaches, NEW s \in Seq(Tokens)
  PROVE  /\ Fed(c, s) \in KvCaches /\ Fed(c, s).toks = c.toks \o s
         /\ Fed(c, s).quant = c.quant /\ Fed(c, s).via = c.via
BY ConcatProperties DEF Fed, KvCaches

\* A cache cut by no more than it has.
LEMMA TrimmedIs ==
  ASSUME NEW c \in KvCaches, NEW n \in Nat
  PROVE  /\ Trimmed(c, n) \in KvCaches
         /\ Trimmed(c, n).quant = c.quant /\ Trimmed(c, n).via = c.via
         /\ n <= Len(c.toks) => Trimmed(c, n).toks = Take(c.toks, Len(c.toks) - n)
<1>1. c.toks \in Seq(Tokens) /\ Len(c.toks) \in Nat
  BY LenProperties DEF KvCaches
<1> DEFINE m == Max({0, Len(c.toks) - n})
<1>2. m \in 0 .. Len(c.toks) /\ (n <= Len(c.toks) => m = Len(c.toks) - n)
  BY <1>1, MaxOfTwo
<1>3. Trimmed(c, n) = [c EXCEPT !.toks = Take(c.toks, m)]
  BY DEF Trimmed
<1> HIDE DEF m
<1>4. Take(c.toks, m) \in Seq(Tokens)
  BY <1>1, <1>2, TakeIs
<1>5. QED BY <1>2, <1>3, <1>4 DEF KvCaches

LEMMA UnquantizedIs ==
  ASSUME NEW c \in KvCaches
  PROVE  /\ Unquantized(c) \in KvCaches /\ ~Unquantized(c).quant
         /\ Unquantized(c).toks = c.toks /\ Unquantized(c).via = c.via
BY DEF Unquantized, KvCaches

\* A pass quantizes a cache that holds more than the request.
LEMMA RequantizedIs ==
  ASSUME ctx \in Seq(Tokens), NEW c \in KvCaches
  PROVE  /\ Requantized(c) \in KvCaches
         /\ Requantized(c).toks = c.toks /\ Requantized(c).via = c.via
         /\ ~c.quant /\ Len(c.toks) <= Len(ctx) => ~Requantized(c).quant
<1>1. Len(c.toks) \in Nat /\ Len(ctx) \in Nat
  BY LenProperties DEF KvCaches
<1>2. QuantStart \in Int /\ QuantStart > Len(ctx)
  <2>1. Len(ctx) + 1 \in Int /\ Fp16Ctx \in Int
    BY <1>1, ServerAssumption
  <2>2. QED BY <1>1, <2>1, MaxOfTwo DEF QuantStart
<1> DEFINE q == c.quant \/ Len(c.toks) >= QuantStart
<1>3. Requantized(c) = [c EXCEPT !.quant = q]
  BY DEF Requantized
<1>4. q \in BOOLEAN /\ (~c.quant /\ Len(c.toks) <= Len(ctx) => ~q)
  BY <1>1, <1>2
<1> HIDE DEF q
<1>5. QED BY <1>3, <1>4 DEF KvCaches

\* An insert leaves what it puts in and of what was stored, nothing else.
LEMMA InsertLeaves ==
  ASSUME NEW key, NEW c, Insert(key, c)
  PROVE  \A k \in DOMAIN store' :
           \/ k = key /\ store'[k] = c
           \/ k \in DOMAIN store /\ store'[k] = store[k]
<1> DEFINE s == WithEntry(key, c)
<1> DEFINE gone == {k \in DOMAIN store : k = key \/ k \notin DOMAIN s}
           n == bytes + Size(c) - Bytes(Restrict(store, gone))
<1>1. \E b \in Bounded(s, n) : store' = b.store
  BY DEF Insert
<1> HIDE DEF n
<1>2. PICK K \in SUBSET DOMAIN s : store' = Restrict(s, K)
  <2> DEFINE Count(keys) == n - Bytes(Restrict(s, DOMAIN s \ keys))
             Fits(keys) == /\ Cardinality(keys) <= conf.size
                           /\ StoreBudget = 0 \/ Count(keys) <= StoreBudget
             Sets == {K \in SUBSET DOMAIN s :
                       /\ Fits(K)
                       /\ K # DOMAIN s => \E k \in DOMAIN s \ K : ~Fits(K \cup {k})}
  <2>1. Bounded(s, n) = {[store |-> Restrict(s, keys), bytes |-> Count(keys)] : keys \in Sets}
    BY DEF Bounded
  <2>2. Sets \subseteq SUBSET DOMAIN s
    OBVIOUS
  <2> HIDE DEF Sets, Count
  <2>3. QED BY <1>1, <2>1, <2>2
<1>3. \A k \in DOMAIN s : \/ k = key /\ s[k] = c
                          \/ k \in DOMAIN store /\ s[k] = store[k]
  BY DEF WithEntry
<1> HIDE DEF s
<1>4. DOMAIN store' = K /\ \A k \in K : store'[k] = s[k]
  BY <1>2 DEF Restrict
<1>5. QED BY <1>3, <1>4

\* What is inserted under its own tokens leaves the store one of such entries.
LEMMA InsertIs ==
  ASSUME Stored, NEW key \in Seq(Tokens), NEW c \in KvCaches,
         c.via = {} => c.toks = key, Insert(key, c)
  PROVE  Stored'
BY InsertLeaves DEF Stored

LEMMA LessIs ==
  ASSUME Stored, NEW K
  PROVE  \A k \in DOMAIN Restrict(store, DOMAIN store \ K) :
           /\ k \in DOMAIN store
           /\ Restrict(store, DOMAIN store \ K)[k] = store[k]
BY DEF Restrict

-----------------------------------------------------------------------------
(* Each step keeps the invariant.                                           *)

LEMMA InitKeeps == Init => IInv
<1> SUFFICES ASSUME Init
             PROVE  IInv
  OBVIOUS
<1> USE DEF Init, NoTurn
<1>0. <<>> \in Seq(Tokens)
  BY EmptySeq
<1>1. Typed
  BY <1>0, ServerAssumption DEF Typed, EmptyKv, KvCaches
<1>2. Stored
  BY DEF Stored
<1>3. Placed
  BY DEF Placed
<1>4. Conditioned
  BY DEF Conditioned
<1>5. QED BY <1>1, <1>2, <1>3, <1>4 DEF IInv

LEMMA StutterKeeps ==
  ASSUME IInv, UNCHANGED vars
  PROVE  IInv'
<1>1. Typed'
  BY DEF IInv, Typed, vars, turn
<1>2. Stored'
  BY DEF IInv, Stored, vars
<1>3. Placed'
  BY DEF IInv, Placed, vars, turn
<1>4. Conditioned'
  BY DEF IInv, Conditioned, vars, turn
<1>5. QED BY <1>1, <1>2, <1>3, <1>4 DEF IInv

LEMMA FetchHitKeeps ==
  ASSUME IInv, NEW req \in Requests, FetchHit(req)
  PROVE  IInv'
<1> USE DEF IInv
<1>1. PICK h \in Hits(req) :
        LET c == Trimmed(store[h.key], Len(h.key) - h.n)
            left == Drop(req, h.n)
        IN  /\ kv' = IF Len(left) > 1 THEN Unquantized(c) ELSE c
            /\ IF Len(left) > 1 THEN MayLend ELSE UNCHANGED lent
            /\ IF conf.move THEN TakeEntry(h.key) ELSE UNCHANGED <<store, bytes>>
            /\ rest' = left /\ cached' = h.n
  BY DEF FetchHit
<1> DEFINE k == h.key
           c == Trimmed(store[k], Len(k) - h.n)
           left == Drop(req, h.n)
<1>2. req \in Seq(Tokens) /\ Len(req) \in Nat /\ Len(req) >= 1
  BY RequestIs DEF Typed
<1>3. /\ k \in DOMAIN store /\ k \in Seq(Tokens)
      /\ h.n \in 0 .. Len(req) /\ h.n \in 0 .. Len(k)
      /\ Take(k, h.n) = Take(req, h.n)
  BY <1>2, HitIs DEF Typed
<1>4. store[k] \in KvCaches /\ (store[k].via = {} => store[k].toks = k)
  BY <1>3 DEF Stored
<1>5. Len(k) \in Nat /\ Len(k) - h.n \in Nat /\ Len(k) - (Len(k) - h.n) = h.n
  BY <1>3, LenProperties
<1>6. c \in KvCaches /\ (c.via = {} => c.toks = Take(req, h.n))
  <2>1. /\ c \in KvCaches /\ c.via = store[k].via
        /\ Len(k) - h.n <= Len(store[k].toks) =>
             c.toks = Take(store[k].toks, Len(store[k].toks) - (Len(k) - h.n))
    BY <1>4, <1>5, TrimmedIs
  <2> HIDE DEF c
  <2>2. c.via = {} => c.toks = Take(k, h.n)
    BY <1>3, <1>4, <1>5, <2>1
  <2>3. QED BY <1>3, <2>1, <2>2
<1>7. left \in Seq(Tokens)
  BY <1>2, <1>3, DropIs
<1>8. /\ kv' \in KvCaches /\ kv'.toks = c.toks /\ kv'.via = c.via
      /\ Len(left) > 1 => ~kv'.quant
  <2>1. kv' = IF Len(left) > 1 THEN Unquantized(c) ELSE c
    BY <1>1
  <2> HIDE DEF c
  <2>2. QED BY <1>6, <2>1, UnquantizedIs
<1>9. rest' = left /\ cached' = h.n /\ ctx' = req /\ pc' = "begin" /\ pc = "idle"
  BY <1>1 DEF FetchHit
<1> HIDE DEF c, left
<1>10. UNCHANGED <<conf, recent, done, bounds, out, feed>>
  BY DEF FetchHit
<1>11. Typed'
  <2>1. lent' \in BOOLEAN
    BY <1>1 DEF Typed, MayLend
  <2>2. QED BY <1>2, <1>3, <1>7, <1>8, <1>9, <1>10, <2>1 DEF Typed
<1>12. Stored'
  <2>1. \A l \in DOMAIN store' : l \in DOMAIN store /\ store'[l] = store[l]
    BY <1>1, LessIs DEF TakeEntry
  <2>2. QED BY <2>1 DEF Stored
<1>13. Placed'
  BY <1>2, <1>3, <1>8, <1>9, <1>10 DEF Placed, left
<1>14. Conditioned'
  <2>1. cached' + done' = h.n
    BY <1>3, <1>9, <1>10 DEF Placed
  <2>2. QED BY <1>6, <1>8, <1>9, <2>1 DEF Conditioned
<1>15. QED BY <1>11, <1>12, <1>13, <1>14

LEMMA FetchMissKeeps ==
  ASSUME IInv, NEW req \in Requests, FetchMiss(req)
  PROVE  IInv'
<1> USE DEF IInv
<1>1. req \in Seq(Tokens) /\ Len(req) \in Nat /\ Len(req) >= 1
  BY RequestIs DEF Typed
<1>2. Take(req, 0) = <<>> /\ Drop(req, 0) = req
  BY <1>1, TakeAll
<1>3. /\ pc = "idle" /\ pc' = "begin" /\ ctx' = req /\ cached' = 0 /\ rest' = req
      /\ kv' = [toks |-> <<>>, quant |-> FALSE, via |-> {}]
      /\ UNCHANGED <<conf, store, bytes, recent, lent, done, bounds, out, feed>>
  BY DEF FetchMiss, EmptyKv
<1>4. kv' \in KvCaches
  BY <1>3, EmptySeq DEF KvCaches
<1>5. Typed'
  BY <1>1, <1>3, <1>4 DEF Typed
<1>6. Stored'
  BY <1>3 DEF Stored
<1>7. Placed'
  BY <1>1, <1>2, <1>3 DEF Placed
<1>8. Conditioned'
  BY <1>2, <1>3 DEF Conditioned, Placed
<1>9. QED BY <1>5, <1>6, <1>7, <1>8

\* The boundaries worth a copy are past what the store served.
LEMMA KeptIs ==
  ASSUME ctx \in Seq(Tokens), cached \in Nat, cached <= Len(ctx),
         NEW C \in SUBSET Int, \A b \in C : b <= Len(ctx) - 1
  PROVE  Kept(C) \subseteq cached + 1 .. Len(ctx) - 1
<1> DEFINE low == {b \in C : b = Min(C) /\ Worth(b, cached)}
           last == Max(low \cup {cached})
<1>1. Len(ctx) \in Nat /\ MinGain \in Nat /\ MinGain >= 1
  BY LenProperties, ServerAssumption
<1>2. \A b \in C, n \in Nat : Worth(b, n) => b >= n + 1
  BY <1>1 DEF Worth
<1>3. low \subseteq cached + 1 .. Len(ctx) - 1
  <2>1. \A b \in C : Worth(b, cached) => b \in cached + 1 .. Len(ctx) - 1
    BY <1>1, <1>2
  <2>2. QED BY <2>1
<1>4. last \in Nat /\ last >= cached
  <2>1. low \cup {cached} \in SUBSET (0 .. Len(ctx)) /\ low \cup {cached} # {}
    BY <1>1, <1>3
  <2> HIDE DEF low
  <2>0. cached \in low \cup {cached}
    OBVIOUS
  <2>2. last \in low \cup {cached} /\ \A y \in low \cup {cached} : last >= y
    BY <1>1, <2>1, MaxIs
  <2> HIDE DEF last
  <2>3. last >= cached
    BY <2>0, <2>2
  <2>4. QED BY <2>1, <2>2, <2>3
<1>5. Kept(C) = low \cup {b \in C : b # Min(C) /\ Worth(b, last)}
  BY DEF Kept
<1> HIDE DEF low, last
<1>6. \A b \in C : Worth(b, last) => b \in cached + 1 .. Len(ctx) - 1
  BY <1>1, <1>2, <1>4
<1>7. QED BY <1>3, <1>5, <1>6

LEMMA BeginTurnKeeps ==
  ASSUME IInv, BeginTurn
  PROVE  IInv'
<1> USE DEF IInv
<1>1. PICK tail \in Tails, split \in Splits :
        /\ bounds' = Kept({tail} \cup split)
        /\ pc' = IF bounds' = {} THEN "generate" ELSE "snapshot"
  BY DEF BeginTurn
<1>2. /\ pc = "begin" /\ recent' = ctx
      /\ UNCHANGED <<conf, store, bytes, lent, ctx, cached, kv, rest, done, out, feed>>
  BY DEF BeginTurn
<1>3. ctx \in Seq(Tokens) /\ Len(ctx) \in Nat /\ recent \in Seq(Tokens) /\ cached \in Nat
      /\ kv \in KvCaches
  BY LenProperties DEF Typed
<1>4. done = 0 /\ cached <= Len(ctx) /\ rest = Drop(ctx, cached) /\ (Len(rest) > 1 => ~kv.quant)
      /\ out = <<>> /\ feed = <<>>
  BY <1>2 DEF Placed
<1>5. bounds' \subseteq cached + 1 .. Len(ctx) - 1
  <2>1. tail \in Int /\ tail <= Len(ctx) - 1
    BY <1>3 DEF Tails
  <2>2. split \subseteq Int /\ \A b \in split : b <= Len(ctx) - 1
    BY <1>3, CommonIs DEF Splits
  <2>3. {tail} \cup split \in SUBSET Int /\ \A b \in {tail} \cup split : b <= Len(ctx) - 1
    BY <2>1, <2>2
  <2>4. QED BY <1>1, <1>3, <1>4, <2>3, KeptIs
<1>6. Len(rest) = Len(ctx) - cached /\ Take(ctx, cached) \o rest = ctx
  <2>1. cached \in 0 .. Len(ctx)
    BY <1>3, <1>4
  <2>2. QED BY <1>3, <1>4, <2>1, DropIs, TakeThenDrop
<1>7. Typed'
  BY <1>1, <1>2 DEF Typed
<1>8. Stored'
  BY <1>2 DEF Stored
<1>9. Placed'
  <2>1. pc' = "snapshot" => bounds' # {} /\ ~kv.quant /\ cached + done < Len(ctx)
                            /\ \A b \in bounds' : cached + done <= b
    <3> SUFFICES ASSUME pc' = "snapshot"
                 PROVE  bounds' # {} /\ ~kv.quant /\ cached + done < Len(ctx)
                        /\ \A b \in bounds' : cached + done <= b
      OBVIOUS
    <3>1. bounds' # {}
      BY <1>1
    <3>2. PICK b \in bounds' : b \in cached + 1 .. Len(ctx) - 1
      BY <1>5, <3>1
    <3>3. QED BY <1>3, <1>4, <1>5, <1>6, <3>1, <3>2
  <2>2. pc' \in {"generate", "snapshot"}
    BY <1>1
  <2>3. QED BY <1>2, <1>4, <1>5, <2>1, <2>2 DEF Placed
<1>10. Conditioned'
  <2>1. kv.via = {} => kv.toks = Take(ctx, cached) /\ cached + done = cached
    BY <1>2, <1>3, <1>4 DEF Conditioned
  <2>2. QED BY <1>1, <1>2, <1>4, <1>6, <2>1 DEF Conditioned
<1>11. QED BY <1>7, <1>8, <1>9, <1>10

\* A chunk is a stretch of the prompt that starts where the last one ended.
LEMMA NextChunkIs ==
  ASSUME rest \in Seq(Tokens), done \in Nat,
         NEW n \in Nat, done < n, n <= Len(rest)
  PROVE  \E e \in done + 1 .. n : /\ NextChunk(n) = SubSeq(rest, done + 1, e)
                                  /\ NextChunk(n) \in Seq(Tokens)
                                  /\ Len(NextChunk(n)) = e - done
<1> DEFINE e == Min({n, done + Chunk})
<1>1. Chunk \in Nat /\ Chunk >= 1 /\ Len(rest) \in Nat
  BY LenProperties, ServerAssumption
<1>2. e \in done + 1 .. n
  BY <1>1, MinOfTwo
<1>3. NextChunk(n) = SubSeq(rest, done + 1, e)
  BY DEF NextChunk
<1> HIDE DEF e
<1>4. done \in 0 .. Len(rest) /\ e \in done .. Len(rest)
  BY <1>1, <1>2
<1>5. SubSeq(rest, done + 1, e) \in Seq(Tokens) /\ Len(SubSeq(rest, done + 1, e)) = e - done
  BY <1>4, StretchIs
<1>6. QED BY <1>2, <1>3, <1>5

\* How far the snapshot prefills: short of the end of the request, and to the
\* boundary at least.
LEMMA TargetIs ==
  ASSUME IInv, pc = "snapshot"
  PROVE  /\ ctx \in Seq(Tokens) /\ rest \in Seq(Tokens) /\ Len(ctx) \in Nat
         /\ cached \in Nat /\ done \in Nat /\ rest = Drop(ctx, cached)
         /\ Len(rest) = Len(ctx) - cached /\ cached + done < Len(ctx)
         /\ bounds \subseteq cached + 1 .. Len(ctx) - 1 /\ bounds # {}
         /\ Target \in Nat /\ Target < Len(rest)
         /\ Bound \in cached + 1 .. Len(ctx) - 1 /\ Bound <= cached + Target
         /\ ~conf.trimmable => Bound = cached + Target /\ \A b \in bounds : Bound <= b
<1> USE DEF IInv
<1>1. ctx \in Seq(Tokens) /\ rest \in Seq(Tokens) /\ Len(ctx) \in Nat
      /\ cached \in Nat /\ done \in Nat
  BY LenProperties DEF Typed
<1>2. /\ cached <= Len(ctx) /\ rest = Drop(ctx, cached) /\ cached + done < Len(ctx)
      /\ bounds \subseteq cached + 1 .. Len(ctx) - 1 /\ bounds # {}
  BY DEF Placed
<1>3. Len(rest) = Len(ctx) - cached
  <2>1. cached \in 0 .. Len(ctx)
    BY <1>1, <1>2
  <2>2. QED BY <1>1, <1>2, <2>1, DropIs
<1>4. Bound \in bounds /\ (~conf.trimmable => \A b \in bounds : Bound <= b)
  <2>1. bounds \in SUBSET (0 .. Len(ctx)) /\ bounds \in SUBSET Nat
    BY <1>1, <1>2
  <2>2. Max(bounds) \in bounds /\ Min(bounds) \in bounds /\ \A b \in bounds : Min(bounds) <= b
    BY <1>1, <1>2, <2>1, MaxIs, MinIs
  <2>3. QED BY <2>2 DEF Bound
<1>5. Bound \in cached + 1 .. Len(ctx) - 1
  BY <1>2, <1>4
<1>6. Target \in Nat /\ Target < Len(rest) /\ Bound <= cached + Target
      /\ (~conf.trimmable => Bound = cached + Target)
  BY <1>1, <1>2, <1>3, <1>5 DEF Target
<1>7. QED BY <1>1, <1>2, <1>3, <1>4, <1>5, <1>6

LEMMA SnapshotPrefillKeeps ==
  ASSUME IInv, SnapshotPrefill
  PROVE  IInv'
<1> USE DEF IInv
<1>1. /\ pc = "snapshot" /\ done < Target /\ MayLend
      /\ kv' = Fed(kv, NextChunk(Target)) /\ done' = done + Len(NextChunk(Target))
      /\ UNCHANGED <<conf, store, bytes, recent, pc, ctx, cached, rest, bounds, out, feed>>
  BY DEF SnapshotPrefill
<1>2. /\ ctx \in Seq(Tokens) /\ rest \in Seq(Tokens) /\ Len(ctx) \in Nat
      /\ cached \in Nat /\ done \in Nat /\ rest = Drop(ctx, cached)
      /\ Len(rest) = Len(ctx) - cached /\ cached + done < Len(ctx)
      /\ bounds \subseteq cached + 1 .. Len(ctx) - 1
      /\ Target \in Nat /\ Target < Len(rest)
      /\ ~conf.trimmable => \A b \in bounds : cached + Target <= b
  BY <1>1, TargetIs
<1>3. PICK e \in done + 1 .. Target :
        /\ NextChunk(Target) = SubSeq(rest, done + 1, e)
        /\ NextChunk(Target) \in Seq(Tokens) /\ Len(NextChunk(Target)) = e - done
  BY <1>1, <1>2, NextChunkIs
<1>4. e \in Nat /\ done <= e /\ e <= Target /\ done' = e
  BY <1>1, <1>2, <1>3
<1>5. /\ kv' \in KvCaches /\ kv'.toks = kv.toks \o NextChunk(Target)
      /\ kv'.quant = kv.quant /\ kv'.via = kv.via
  BY <1>1, <1>3, FedIs DEF Typed
<1>6. Typed'
  <2>1. lent' \in BOOLEAN
    BY <1>1 DEF Typed, MayLend
  <2>2. QED BY <1>1, <1>4, <1>5, <2>1 DEF Typed
<1>7. Stored'
  BY <1>1 DEF Stored
<1>8. Placed'
  <2>1. cached + e < Len(ctx) /\ (~conf.trimmable => \A b \in bounds : cached + e <= b)
    BY <1>2, <1>4
  <2>2. QED BY <1>1, <1>4, <1>5, <2>1 DEF Placed
<1>9. Conditioned'
  <2>1. Take(ctx, cached + done) \o SubSeq(Drop(ctx, cached), done + 1, e) = Take(ctx, cached + e)
    <3>1. cached + e <= Len(ctx)
      BY <1>2, <1>4
    <3>2. QED BY <1>2, <1>4, <3>1, TakeFurther
  <2>2. QED BY <1>1, <1>2, <1>3, <1>4, <1>5, <2>1 DEF Conditioned
<1>10. QED BY <1>6, <1>7, <1>8, <1>9

LEMMA SnapshotStoreKeeps ==
  ASSUME IInv, SnapshotStore
  PROVE  IInv'
<1> USE DEF IInv
<1> DEFINE c == Trimmed(kv, cached + done - Bound)
           key == Take(ctx, Bound)
<1>1. /\ pc = "snapshot" /\ done >= Target
      /\ Insert(key, c) \/ UNCHANGED <<store, bytes>>
      /\ bounds' = bounds \ {Bound}
      /\ IF bounds' = {} THEN pc' = "generate" /\ rest' = Drop(rest, done) /\ done' = 0
                         ELSE UNCHANGED <<pc, rest, done>>
      /\ UNCHANGED <<conf, recent, lent, ctx, cached, kv, out, feed>>
  BY DEF SnapshotStore
<1>2. /\ ctx \in Seq(Tokens) /\ rest \in Seq(Tokens) /\ Len(ctx) \in Nat
      /\ cached \in Nat /\ done \in Nat /\ rest = Drop(ctx, cached)
      /\ Len(rest) = Len(ctx) - cached /\ cached + done < Len(ctx)
      /\ bounds \subseteq cached + 1 .. Len(ctx) - 1
      /\ Target \in Nat
      /\ Bound \in cached + 1 .. Len(ctx) - 1 /\ Bound <= cached + Target
  BY <1>1, TargetIs
<1>3. kv \in KvCaches /\ ~kv.quant /\ (kv.via = {} => kv.toks = Take(ctx, cached + done))
  BY <1>1 DEF Typed, Placed, Conditioned
<1>4. cached + done - Bound \in Nat /\ cached + done \in 0 .. Len(ctx)
      /\ Bound \in 0 .. cached + done /\ Bound \in 0 .. Len(ctx)
  BY <1>1, <1>2
<1>5. key \in Seq(Tokens) /\ Len(Take(ctx, cached + done)) = cached + done
  BY <1>2, <1>4, TakeIs
<1>6. c \in KvCaches /\ (c.via = {} => c.toks = key)
  <2>1. /\ c \in KvCaches /\ c.via = kv.via
        /\ cached + done - Bound <= Len(kv.toks) =>
             c.toks = Take(kv.toks, Len(kv.toks) - (cached + done - Bound))
    BY <1>3, <1>4, TrimmedIs
  <2>2. Take(Take(ctx, cached + done), Bound) = key
    BY <1>2, <1>4, TakeOfTake
  <2>3. cached + done - (cached + done - Bound) = Bound /\ cached + done - Bound <= cached + done
    BY <1>2, <1>4
  <2> HIDE DEF c, key
  <2>4. SUFFICES ASSUME c.via = {}
                 PROVE  c.toks = key
    BY <2>1
  <2>5. kv.toks = Take(ctx, cached + done) /\ Len(kv.toks) = cached + done
    BY <1>3, <1>5, <2>1, <2>4
  <2>6. c.toks = Take(kv.toks, Len(kv.toks) - (cached + done - Bound))
    BY <2>1, <2>3, <2>5
  <2>7. c.toks = Take(kv.toks, Bound)
    <3>1. Len(kv.toks) - (cached + done - Bound) = Bound
      BY <1>2, <1>4, <2>5
    <3>2. QED BY <2>6, <3>1
  <2>8. QED BY <2>2, <2>5, <2>7
<1>7. Stored'
  <2> HIDE DEF c, key
  <2>1. CASE Insert(key, c)
    BY <1>5, <1>6, <2>1, InsertIs
  <2>2. CASE UNCHANGED <<store, bytes>>
    BY <2>2 DEF Stored
  <2>3. QED BY <1>1, <2>1, <2>2
<1> HIDE DEF c, key
<1>8. Drop(rest, done) = Drop(ctx, cached + done)
      /\ Drop(ctx, cached + done) \in Seq(Tokens)
      /\ Take(ctx, cached + done) \o Drop(ctx, cached + done) = ctx
  <2>1. cached + done <= Len(ctx)
    BY <1>2
  <2>2. Drop(rest, done) = Drop(ctx, cached + done)
    BY <1>2, <2>1, DropOfDrop
  <2>3. Drop(ctx, cached + done) \in Seq(Tokens)
    BY <1>2, <1>4, DropIs
  <2>4. Take(ctx, cached + done) \o Drop(ctx, cached + done) = ctx
    BY <1>2, <1>4, TakeThenDrop
  <2>5. QED BY <2>2, <2>3, <2>4
<1>9. Typed'
  BY <1>1, <1>2, <1>8 DEF Typed
<1>10. Placed'
  BY <1>1, <1>3 DEF Placed
<1>11. Conditioned'
  BY <1>1, <1>3, <1>8 DEF Conditioned
<1>12. QED BY <1>7, <1>9, <1>10, <1>11

LEMMA SnapshotFailsKeeps ==
  ASSUME IInv, SnapshotFails
  PROVE  IInv'
<1> USE DEF IInv
<1>1. PICK s \in {<<>>} \cup (IF done < Target THEN {NextChunk(Target)} ELSE {}) :
        kv' = IF done = 0 /\ s = <<>> THEN kv
              ELSE [Fed(kv, s) EXCEPT !.via = @ \cup {"refed"}]
  BY DEF SnapshotFails
<1>2. /\ pc = "snapshot" /\ MayLend /\ pc' = "generate" /\ done' = 0 /\ bounds' = {}
      /\ UNCHANGED <<conf, store, bytes, recent, ctx, cached, rest, out, feed>>
  BY DEF SnapshotFails
<1>3. /\ ctx \in Seq(Tokens) /\ rest \in Seq(Tokens) /\ Len(ctx) \in Nat
      /\ cached \in Nat /\ done \in Nat /\ rest = Drop(ctx, cached)
      /\ cached + done < Len(ctx) /\ Target \in Nat /\ Target < Len(rest)
  BY <1>2, TargetIs
<1>4. s \in Seq(Tokens)
  <2>1. CASE s = <<>>
    BY <2>1, EmptySeq
  <2>2. CASE done < Target /\ s = NextChunk(Target)
    BY <1>3, <2>2, NextChunkIs
  <2>3. QED BY <1>1, <2>1, <2>2
<1>5. kv \in KvCaches /\ ~kv.quant /\ (kv.via = {} => kv.toks = Take(ctx, cached + done))
  BY <1>2 DEF Typed, Placed, Conditioned
<1>6. kv' \in KvCaches /\ ~kv'.quant /\ (kv'.via = {} => kv' = kv /\ done = 0)
  <2>1. CASE done = 0 /\ s = <<>>
    BY <1>1, <1>5, <2>1
  <2>2. CASE ~(done = 0 /\ s = <<>>)
    <3>1. kv' = [Fed(kv, s) EXCEPT !.via = Fed(kv, s).via \cup {"refed"}]
      BY <1>1, <2>2
    <3>2. Fed(kv, s) \in KvCaches /\ Fed(kv, s).quant = kv.quant
      BY <1>4, <1>5, FedIs
    <3>3. kv' \in KvCaches /\ kv'.quant = kv.quant /\ kv'.via = Fed(kv, s).via \cup {"refed"}
      BY <3>1, <3>2 DEF KvCaches
    <3>4. QED BY <1>5, <3>3
  <2>3. QED BY <2>1, <2>2
<1>7. Typed'
  <2>1. lent' \in BOOLEAN
    BY <1>2 DEF Typed, MayLend
  <2>2. QED BY <1>2, <1>6, <2>1 DEF Typed
<1>8. Stored'
  BY <1>2 DEF Stored
<1>9. Placed'
  BY <1>2, <1>6 DEF Placed
<1>10. Conditioned'
  <2>1. Take(ctx, cached) \o Drop(ctx, cached) = ctx
    <3>1. cached \in 0 .. Len(ctx)
      BY <1>3
    <3>2. QED BY <1>3, <3>1, TakeThenDrop
  <2>2. done = 0 => cached + done = cached
    BY <1>3
  <2>3. QED BY <1>2, <1>3, <1>5, <1>6, <2>1, <2>2 DEF Conditioned
<1>11. QED BY <1>7, <1>8, <1>9, <1>10

\* Brackets around the parts of a sequence do not matter.
LEMMA Regroup ==
  \A s, t, u \in Seq(Tokens) : (s \o t) \o u = s \o (t \o u)
BY ConcatAssociative

LEMMA PrefillKeeps ==
  ASSUME IInv, Prefill
  PROVE  IInv'
<1> USE DEF IInv
<1> DEFINE chunk == NextChunk(Len(rest) - 1)
<1>1. /\ pc = "generate" /\ Len(rest) > 1 /\ MayLend
      /\ kv' = Requantized(Fed(kv, chunk)) /\ rest' = Drop(rest, Len(chunk))
      /\ UNCHANGED <<conf, store, bytes, recent, pc, ctx, cached, done, bounds, out, feed>>
  BY DEF Prefill
<1>2. /\ ctx \in Seq(Tokens) /\ rest \in Seq(Tokens) /\ Len(rest) \in Nat /\ Len(ctx) \in Nat
      /\ kv \in KvCaches /\ kv.toks \in Seq(Tokens) /\ Len(kv.toks) \in Nat
  BY LenProperties DEF Typed, KvCaches
<1>3. done = 0 /\ (kv.via = {} => kv.toks \o rest = ctx /\ ~kv.quant)
  BY <1>1 DEF Placed, Conditioned
<1>4. PICK e \in 1 .. Len(rest) - 1 : chunk = SubSeq(rest, 1, e) /\ Len(chunk) = e
  <2>1. Len(rest) - 1 \in Nat /\ done < Len(rest) - 1 /\ Len(rest) - 1 <= Len(rest) /\ done \in Nat
    BY <1>1, <1>2, <1>3
  <2>2. PICK e \in done + 1 .. Len(rest) - 1 :
          chunk = SubSeq(rest, done + 1, e) /\ Len(chunk) = e - done
    BY <1>2, <2>1, NextChunkIs
  <2>3. done + 1 = 1 /\ e - done = e
    BY <1>2, <1>3, <2>2
  <2>4. QED BY <2>2, <2>3
<1> HIDE DEF chunk
<1>5. e \in 0 .. Len(rest) /\ chunk = Take(rest, e) /\ rest' = Drop(rest, e)
  BY <1>1, <1>2, <1>4 DEF Take
<1>6. /\ chunk \in Seq(Tokens) /\ rest' \in Seq(Tokens) /\ chunk \o rest' = rest
  BY <1>2, <1>5, TakeIs, DropIs, TakeThenDrop
<1> DEFINE c == Fed(kv, chunk)
<1>7. c \in KvCaches /\ c.toks = kv.toks \o chunk /\ c.quant = kv.quant /\ c.via = kv.via
  BY <1>2, <1>6, FedIs
<1> HIDE DEF c
<1>8. /\ kv' \in KvCaches /\ kv'.toks = c.toks /\ kv'.via = c.via
      /\ ~c.quant /\ Len(c.toks) <= Len(ctx) => ~kv'.quant
  <2>1. kv' = Requantized(c)
    BY <1>1 DEF c
  <2>2. QED BY <1>2, <1>7, <2>1, RequantizedIs
<1>9. kv'.via = {} => kv'.toks \o rest' = ctx /\ ~kv'.quant
  <2>1. SUFFICES ASSUME kv'.via = {}
                 PROVE  kv'.toks \o rest' = ctx /\ ~kv'.quant
    OBVIOUS
  <2>2. kv.toks \o rest = ctx /\ ~kv.quant
    BY <1>3, <1>7, <1>8, <2>1
  <2>3. (kv.toks \o chunk) \o rest' = kv.toks \o (chunk \o rest')
    BY <1>2, <1>6, Regroup
  <2>4. kv'.toks \o rest' = ctx
    BY <1>6, <1>7, <1>8, <2>2, <2>3
  <2>5. Len(kv.toks \o chunk) = Len(kv.toks) + Len(chunk) /\ Len(kv.toks \o rest) = Len(kv.toks) + Len(rest)
    BY <1>2, <1>6, ConcatProperties
  <2>6. Len(c.toks) <= Len(ctx)
    BY <1>2, <1>4, <1>7, <2>2, <2>5
  <2>7. QED BY <1>7, <1>8, <2>2, <2>4, <2>6
<1>10. Typed'
  <2>1. lent' \in BOOLEAN
    BY <1>1 DEF Typed, MayLend
  <2>2. QED BY <1>1, <1>6, <1>8, <2>1 DEF Typed
<1>11. Stored'
  BY <1>1 DEF Stored
<1>12. Placed'
  BY <1>1 DEF Placed
<1>13. Conditioned'
  BY <1>1, <1>9 DEF Conditioned
<1>14. QED BY <1>10, <1>11, <1>12, <1>13

\* Sequences of one, and the last of a sequence.
LEMMA OneMore ==
  ASSUME NEW S, NEW s \in Seq(S), NEW t \in S
  PROVE  /\ <<t>> \in Seq(S) /\ Append(s, t) = s \o <<t>> /\ Append(s, t) \in Seq(S)
         /\ Append(s, t) # <<>> /\ Last(Append(s, t)) = t
<1>1. <<t>> \in Seq(S) /\ Append(s, t) \in Seq(S) /\ Len(Append(s, t)) = Len(s) + 1 /\ Len(s) \in Nat
  BY LenProperties
<1>2. Append(s, t)[Len(s) + 1] = t
  OBVIOUS
<1>3. Append(s, t) = s \o <<t>>
  OBVIOUS
<1>4. QED BY <1>1, <1>2, <1>3, EmptySeq DEF Last

LEMMA LastOfConcat ==
  ASSUME NEW S, NEW s \in Seq(S), NEW t \in Seq(S), t # <<>>
  PROVE  Last(s \o t) = Last(t) /\ Last(t) \in S
<1>1. Len(s) \in Nat /\ Len(t) \in Nat \ {0} /\ Len(s \o t) = Len(s) + Len(t)
  BY LenProperties, EmptySeq, ConcatProperties
<1>2. Len(s) + Len(t) \in 1 .. Len(s) + Len(t) /\ ~(Len(s) + Len(t) <= Len(s))
      /\ Len(s) + Len(t) - Len(s) = Len(t)
  BY <1>1
<1>3. (s \o t)[Len(s) + Len(t)] = t[Len(t)]
  BY <1>2, ConcatProperties
<1>4. t[Len(t)] \in S
  BY <1>1, ElementOfSeq
<1>5. QED BY <1>1, <1>3, <1>4 DEF Last

LEMMA FirstKeeps ==
  ASSUME IInv, First
  PROVE  IInv'
<1> USE DEF IInv
<1>1. /\ pc = "generate" /\ kv' = Requantized(Fed(kv, rest)) /\ rest' = <<>>
      /\ pc' = "decode" /\ out' \in FirstOut /\ lent' = FALSE
      /\ UNCHANGED <<conf, store, bytes, recent, ctx, cached, done, bounds, feed>>
  BY DEF First, LeavePrefill
<1>2. ctx \in Seq(Tokens) /\ rest \in Seq(Tokens) /\ kv \in KvCaches
  BY DEF Typed
<1>3. done = 0 /\ feed = <<>> /\ (kv.via = {} => kv.toks \o rest = ctx)
  BY <1>1 DEF Placed, Conditioned
<1>4. kv' \in KvCaches /\ kv'.toks = kv.toks \o rest /\ kv'.via = kv.via
  BY <1>1, <1>2, FedIs, RequantizedIs
<1>5. \/ ~conf.lookup /\ out' = <<>>
      \/ conf.lookup /\ \E t \in Tokens : out' = <<t>>
  BY <1>1 DEF FirstOut
<1>6. out' \in Seq(Tokens) /\ (conf.lookup => out' # <<>>) /\ out' \o <<>> = out'
  <2>1. CASE out' = <<>> /\ ~conf.lookup
    BY <2>1, EmptySeq, ConcatEmptySeq
  <2>2. CASE \E t \in Tokens : out' = <<t>>
    <3>1. PICK t \in Tokens : out' = <<t>>
      BY <2>2
    <3>2. <<t>> \in Seq(Tokens) /\ Len(<<t>>) = 1
      OBVIOUS
    <3>3. QED BY <3>1, <3>2, EmptySeq, ConcatEmptySeq
  <2>3. QED BY <1>5, <2>1, <2>2
<1>7. Typed'
  BY <1>1, <1>4, <1>6, EmptySeq DEF Typed
<1>8. Stored'
  BY <1>1 DEF Stored
<1>9. Placed'
  BY <1>1, <1>3, <1>6 DEF Placed
<1>10. Conditioned'
  <2>1. SUFFICES ASSUME kv'.via = {}
                 PROVE  /\ ~conf.lookup => kv'.toks = ctx \o out'
                        /\ conf.lookup =>
                             kv'.toks \o <<Last(out' \o feed)>> = ctx \o (out' \o feed)
    BY <1>1 DEF Conditioned
  <2>2. kv'.toks = ctx
    BY <1>3, <1>4, <2>1
  <2>3. CASE ~conf.lookup
    BY <1>2, <1>5, <2>2, <2>3, ConcatEmptySeq
  <2>4. CASE conf.lookup
    <3>1. PICK t \in Tokens : out' = <<t>>
      BY <1>5, <2>4
    <3>2. Last(out') = t
      BY <3>1 DEF Last
    <3>3. QED BY <1>3, <1>6, <2>2, <2>4, <3>1, <3>2
  <2>5. QED BY <2>3, <2>4
<1>11. QED BY <1>7, <1>8, <1>9, <1>10

LEMMA EmitKeeps ==
  ASSUME IInv, Emit
  PROVE  IInv'
<1> USE DEF IInv
<1>1. PICK t \in Tokens : kv' = Requantized(Fed(kv, <<t>>)) /\ out' = Append(out, t)
  BY DEF Emit
<1>2. /\ pc = "decode" /\ ~conf.lookup /\ lent' = FALSE
      /\ UNCHANGED <<conf, store, bytes, recent, pc, ctx, cached, rest, done, bounds, feed>>
  BY DEF Emit, LeavePrefill
<1>3. ctx \in Seq(Tokens) /\ out \in Seq(Tokens) /\ kv \in KvCaches
  BY DEF Typed
<1>4. <<t>> \in Seq(Tokens) /\ out' = out \o <<t>> /\ out' \in Seq(Tokens)
  BY <1>1, <1>3, OneMore
<1> DEFINE c == Fed(kv, <<t>>)
<1>5. kv' \in KvCaches /\ kv'.toks = kv.toks \o <<t>> /\ kv'.via = kv.via
  <2>1. c \in KvCaches /\ c.toks = kv.toks \o <<t>> /\ c.via = kv.via
    BY <1>3, <1>4, FedIs
  <2>2. kv' = Requantized(c)
    BY <1>1
  <2> HIDE DEF c
  <2>3. QED BY <1>3, <2>1, <2>2, RequantizedIs
<1>6. Typed'
  BY <1>2, <1>4, <1>5 DEF Typed
<1>7. Stored'
  BY <1>2 DEF Stored
<1>8. Placed'
  BY <1>2 DEF Placed
<1>9. Conditioned'
  <2>1. kv.via = {} => kv.toks = ctx \o out
    BY <1>2 DEF Conditioned
  <2>2. (ctx \o out) \o <<t>> = ctx \o (out \o <<t>>)
    BY <1>3, <1>4, Regroup
  <2>3. QED BY <1>2, <1>4, <1>5, <2>1, <2>2 DEF Conditioned
<1>10. QED BY <1>6, <1>7, <1>8, <1>9

LEMMA VerifyKeeps ==
  ASSUME IInv, Verify
  PROVE  IInv'
<1> USE DEF IInv
<1>1. PICK n \in 0 .. Min({LookupTokens, Left - 1}) :
        \E accepted \in [1 .. n -> Tokens], own \in Tokens :
          /\ kv' = Requantized(Fed(kv, <<Last(out)>> \o accepted))
          /\ feed' = Append(accepted, own)
  BY DEF Verify
<1>2. /\ pc = "decode" /\ conf.lookup /\ feed = <<>> /\ lent' = FALSE
      /\ UNCHANGED <<conf, store, bytes, recent, pc, ctx, cached, rest, done, bounds, out>>
  BY DEF Verify, LeavePrefill
<1>3. PICK accepted \in [1 .. n -> Tokens], own \in Tokens :
        /\ kv' = Requantized(Fed(kv, <<Last(out)>> \o accepted))
        /\ feed' = Append(accepted, own)
  BY <1>1
<1>4. ctx \in Seq(Tokens) /\ out \in Seq(Tokens) /\ kv \in KvCaches /\ kv.toks \in Seq(Tokens)
      /\ out # <<>>
  BY <1>2 DEF Typed, Placed, KvCaches
<1>5. n \in Nat
  <2>1. Left \in Int /\ LookupTokens \in Nat
    BY <1>4, LenProperties, ServerAssumption DEF Left, MaxCtx, MaxReq, Typed, Settings
  <2>2. Min({LookupTokens, Left - 1}) \in Int
    BY <2>1, MinOfTwo
  <2>3. QED BY <2>2
<1>6. accepted \in Seq(Tokens)
  BY <1>5
<1> DEFINE last == <<Last(out)>>
<1>7. last \in Seq(Tokens) /\ last \o accepted \in Seq(Tokens)
  <2>1. Last(out) \in Tokens
    BY <1>4, LastOfConcat
  <2>2. last \in Seq(Tokens)
    BY <2>1
  <2> HIDE DEF last
  <2>3. QED BY <1>6, <2>2, ConcatProperties
<1>8. /\ <<own>> \in Seq(Tokens) /\ feed' = accepted \o <<own>> /\ feed' \in Seq(Tokens)
      /\ feed' # <<>> /\ Last(feed') = own
  BY <1>3, <1>6, OneMore
<1>9. kv' \in KvCaches /\ kv'.toks = kv.toks \o (last \o accepted) /\ kv'.via = kv.via
  <2>1. kv' = Requantized(Fed(kv, last \o accepted))
    BY <1>3
  <2> HIDE DEF last
  <2>2. QED BY <1>4, <1>7, <2>1, FedIs, RequantizedIs
<1>10. Typed'
  BY <1>2, <1>8, <1>9 DEF Typed
<1>11. Stored'
  BY <1>2 DEF Stored
<1>12. Placed'
  BY <1>2 DEF Placed
<1>13. Conditioned'
  <2>1. SUFFICES ASSUME kv'.via = {}
                 PROVE  kv'.toks \o <<Last(out \o feed')>> = ctx \o (out \o feed')
    BY <1>2 DEF Conditioned
  <2>2. kv.toks \o last = ctx \o out
    <3>1. out \o feed = out
      BY <1>2, <1>4, ConcatEmptySeq
    <3>2. QED BY <1>2, <1>9, <2>1, <3>1 DEF Conditioned
  <2>3. Last(out \o feed') = own
    BY <1>4, <1>8, LastOfConcat
  <2> HIDE DEF last
  <2>4. kv.toks \o (last \o accepted) = (kv.toks \o last) \o accepted
    BY <1>4, <1>6, <1>7, Regroup
  <2>5. (kv.toks \o last) \o accepted = ctx \o (out \o accepted)
    BY <1>4, <1>6, <2>2, Regroup
  <2>6. (ctx \o (out \o accepted)) \o <<own>> = ctx \o ((out \o accepted) \o <<own>>)
    <3> DEFINE reply == out \o accepted  one == <<own>>
    <3>1. ctx \in Seq(Tokens) /\ reply \in Seq(Tokens) /\ one \in Seq(Tokens)
      BY <1>4, <1>6, <1>8, ConcatProperties
    <3> HIDE DEF reply, one
    <3>2. (ctx \o reply) \o one = ctx \o (reply \o one)
      BY <3>1, Regroup
    <3>3. QED BY <3>2 DEF reply, one
  <2>7. (out \o accepted) \o <<own>> = out \o feed'
    BY <1>4, <1>6, <1>8, Regroup
  <2>8. QED BY <1>9, <2>3, <2>4, <2>5, <2>6, <2>7
<1>14. QED BY <1>10, <1>11, <1>12, <1>13

LEMMA HandOverKeeps ==
  ASSUME IInv, HandOver
  PROVE  IInv'
<1> USE DEF IInv
<1>1. /\ pc = "decode" /\ feed # <<>> /\ out' = Append(out, Head(feed)) /\ feed' = Tail(feed)
      /\ UNCHANGED <<conf, store, bytes, recent, lent, pc, ctx, cached, kv, rest, done, bounds>>
  BY DEF HandOver
<1>2. out \in Seq(Tokens) /\ feed \in Seq(Tokens) /\ conf.lookup
  BY <1>1 DEF Typed, Placed
<1>3. Head(feed) \in Tokens /\ Tail(feed) \in Seq(Tokens) /\ feed = <<Head(feed)>> \o Tail(feed)
  <2>1. Head(feed) \in Tokens /\ Tail(feed) \in Seq(Tokens)
    BY <1>1, <1>2, HeadTailProperties
  <2>2. QED BY <1>1, <1>2
<1>4. <<Head(feed)>> \in Seq(Tokens) /\ out' = out \o <<Head(feed)>>
      /\ out' \in Seq(Tokens) /\ out' # <<>>
  BY <1>1, <1>2, <1>3, OneMore
<1>5. out' \o feed' = out \o feed
  BY <1>1, <1>2, <1>3, <1>4, Regroup
<1>6. Typed'
  BY <1>1, <1>3, <1>4 DEF Typed
<1>7. Stored'
  BY <1>1 DEF Stored
<1>8. Placed'
  BY <1>1, <1>2, <1>4 DEF Placed
<1>9. Conditioned'
  BY <1>1, <1>2, <1>5 DEF Conditioned
<1>10. QED BY <1>6, <1>7, <1>8, <1>9

\* With one token of a verify pass left, the cache is what was handed over.
LEMMA OneLeft ==
  ASSUME ctx \in Seq(Tokens), out \in Seq(Tokens), feed \in Seq(Tokens), Len(feed) = 1,
         NEW s \in Seq(Tokens), s \o <<Last(out \o feed)>> = ctx \o (out \o feed)
  PROVE  s = ctx \o out
<1> DEFINE t == feed[1]
<1>1. feed = <<t>> /\ t \in Tokens
  <2>1. t \in Tokens
    <3>1. 1 \in 1 .. Len(feed)
      OBVIOUS
    <3>2. QED BY <3>1, ElementOfSeq
  <2>2. <<t>> \in Seq(Tokens) /\ Len(<<t>>) = 1 /\ <<t>>[1] = t
    BY <2>1
  <2>3. \A i \in 1 .. 1 : feed[i] = <<t>>[i]
    BY <2>2
  <2>4. \A u \in Seq(Tokens) : Len(u) = 1 /\ (\A i \in 1 .. 1 : feed[i] = u[i]) => feed = u
    BY SeqEqual
  <2> HIDE DEF t
  <2>5. feed = <<t>>
    BY <2>2, <2>3, <2>4
  <2>6. QED BY <2>1, <2>5
<1> HIDE DEF t
<1>2. out \o feed = Append(out, t)
  BY <1>1, AppendIsConcat
<1>3. Last(out \o feed) = t
  BY <1>1, <1>2, AppendProperties, LenProperties DEF Last
<1>4. ctx \o (out \o feed) = (ctx \o out) \o feed /\ ctx \o out \in Seq(Tokens)
  <2>1. ctx \o out \in Seq(Tokens)
    BY ConcatProperties
  <2>2. QED BY <2>1, Regroup
<1>5. s \o <<t>> = (ctx \o out) \o <<t>>
  BY <1>1, <1>3, <1>4
<1>6. Append(s, t) = Append(ctx \o out, t)
  BY <1>1, <1>4, <1>5, AppendIsConcat
<1>7. \A u, v \in Seq(Tokens), e \in Tokens : Append(u, e) = Append(v, e) => u = v
  BY AppendInjective
<1>8. QED BY <1>1, <1>4, <1>6, <1>7

LEMMA EndTurnKeeps ==
  ASSUME IInv, EndTurn
  PROVE  IInv'
<1> USE DEF IInv
<1> DEFINE c == IF conf.lookup /\ Len(feed) # 1 THEN [kv EXCEPT !.via = kv.via \cup {"lookup"}] ELSE kv
           key == ctx \o out
<1>1. /\ pc = "decode" /\ Insert(key, c) /\ lent' = FALSE /\ Idle /\ UNCHANGED <<conf, recent>>
  BY DEF EndTurn, LeavePrefill
<1>2. key \in Seq(Tokens)
  BY ConcatProperties DEF Typed
<1>3. c \in KvCaches /\ (c.via = {} => c.toks = key)
  <2>1. CASE conf.lookup /\ Len(feed) # 1
    BY <2>1 DEF Typed, KvCaches
  <2>2. CASE ~conf.lookup
    BY <1>1, <2>2 DEF Typed, Conditioned
  <2>3. CASE conf.lookup /\ Len(feed) = 1
    <3>1. c = kv /\ kv \in KvCaches /\ kv.toks \in Seq(Tokens)
      BY <2>3 DEF Typed, KvCaches
    <3>2. kv.via = {} => kv.toks \o <<Last(out \o feed)>> = ctx \o (out \o feed)
      BY <1>1, <2>3 DEF Conditioned
    <3>3. kv.via = {} => kv.toks = key
      <4>1. ctx \in Seq(Tokens) /\ out \in Seq(Tokens) /\ feed \in Seq(Tokens)
        BY DEF Typed
      <4> HIDE DEF IInv, c
      <4>2. QED BY <2>3, <3>1, <3>2, <4>1, OneLeft
    <3>4. QED BY <3>1, <3>3
  <2>4. QED BY <2>1, <2>2, <2>3
<1>4. Stored'
  <2> HIDE DEF c, key
  <2>1. QED BY <1>1, <1>2, <1>3, InsertIs
<1>5. /\ pc' = "idle" /\ ctx' = <<>> /\ cached' = 0 /\ rest' = <<>>
      /\ kv' = [toks |-> <<>>, quant |-> FALSE, via |-> {}]
      /\ done' = 0 /\ bounds' = {} /\ out' = <<>> /\ feed' = <<>>
  BY <1>1 DEF Idle, EmptyKv
<1>6. Typed'
  BY <1>1, <1>5, EmptySeq DEF Typed, KvCaches
<1>7. Placed'
  BY <1>1, <1>5 DEF Placed
<1>8. Conditioned'
  BY <1>5 DEF Conditioned
<1>9. QED BY <1>4, <1>6, <1>7, <1>8

LEMMA FailTurnKeeps ==
  ASSUME IInv, FailTurn
  PROVE  IInv'
<1> USE DEF IInv
<1>1. /\ pc' = "idle" /\ ctx' = <<>> /\ cached' = 0 /\ rest' = <<>>
      /\ kv' = [toks |-> <<>>, quant |-> FALSE, via |-> {}]
      /\ done' = 0 /\ bounds' = {} /\ out' = <<>> /\ feed' = <<>>
      /\ lent' = FALSE /\ UNCHANGED <<conf, store, bytes, recent>>
  BY DEF FailTurn, Idle, EmptyKv, LeavePrefill
<1>2. Typed'
  BY <1>1, EmptySeq DEF Typed, KvCaches
<1>3. Stored'
  BY <1>1 DEF Stored
<1>4. Placed'
  BY <1>1 DEF Placed
<1>5. Conditioned'
  BY <1>1 DEF Conditioned
<1>6. QED BY <1>2, <1>3, <1>4, <1>5

LEMMA NextKeeps == IInv /\ [Next]_vars => IInv'
<1> SUFFICES ASSUME IInv, [Next]_vars
             PROVE  IInv'
  OBVIOUS
<1>1. ASSUME NEW req \in Requests, FetchHit(req)
      PROVE  IInv'
  BY <1>1, FetchHitKeeps
<1>2. ASSUME NEW req \in Requests, FetchMiss(req)
      PROVE  IInv'
  BY <1>2, FetchMissKeeps
<1>3. CASE BeginTurn
  BY <1>3, BeginTurnKeeps
<1>4. CASE SnapshotPrefill
  BY <1>4, SnapshotPrefillKeeps
<1>5. CASE SnapshotStore
  BY <1>5, SnapshotStoreKeeps
<1>6. CASE SnapshotFails
  BY <1>6, SnapshotFailsKeeps
<1>7. CASE Prefill
  BY <1>7, PrefillKeeps
<1>8. CASE First
  BY <1>8, FirstKeeps
<1>9. CASE Emit
  BY <1>9, EmitKeeps
<1>10. CASE Verify
  BY <1>10, VerifyKeeps
<1>11. CASE HandOver
  BY <1>11, HandOverKeeps
<1>12. CASE EndTurn
  BY <1>12, EndTurnKeeps
<1>13. CASE FailTurn
  BY <1>13, FailTurnKeeps
<1>14. CASE UNCHANGED vars
  BY <1>14, StutterKeeps
<1>15. QED
  BY <1>1, <1>2, <1>3, <1>4, <1>5, <1>6, <1>7, <1>8, <1>9, <1>10, <1>11, <1>12,
     <1>13, <1>14 DEF Next

\* IInv is inductive: what the store and the cache of a turn hold is known at
\* every place of a turn.
THEOREM Invariant == Spec => []IInv
BY InitKeeps, NextKeeps, PTL DEF Spec

-----------------------------------------------------------------------------
(* What spoils a cache: the snapshot of its turn raises, or its lookup turn *)
(* is stopped inside or between verify passes.  Before the first such step  *)
(* no cache is exempt from anything.                                        *)

Spoils == SnapshotFails \/ (EndTurn /\ conf.lookup /\ Len(feed) # 1)

Clean == kv.via = {} /\ \A k \in DOMAIN store : store[k].via = {}

\* A cache passes its past on through a fetch, and through what is fed to it.
LEMMA FetchHitClean ==
  ASSUME IInv, Clean, NEW req \in Requests, FetchHit(req)
  PROVE  Clean'
<1>1. req \in Seq(Tokens) /\ Len(req) >= 1
  BY RequestIs DEF IInv, Typed
<1>2. PICK h \in Hits(req) :
        LET c == Trimmed(store[h.key], Len(h.key) - h.n)
        IN  /\ kv' = IF Len(Drop(req, h.n)) > 1 THEN Unquantized(c) ELSE c
            /\ IF conf.move THEN TakeEntry(h.key) ELSE UNCHANGED <<store, bytes>>
  BY DEF FetchHit
<1>3. h.key \in DOMAIN store /\ h.key \in Seq(Tokens) /\ h.n \in 0 .. Len(h.key)
  BY <1>1, HitIs DEF IInv, Typed
<1> DEFINE c == Trimmed(store[h.key], Len(h.key) - h.n)
<1>4. c \in KvCaches /\ c.via = {}
  <2>1. store[h.key] \in KvCaches /\ store[h.key].via = {} /\ Len(h.key) - h.n \in Nat
    BY <1>3, LenProperties DEF IInv, Stored, Clean
  <2>2. QED BY <2>1, TrimmedIs
<1>5. kv' = IF Len(Drop(req, h.n)) > 1 THEN Unquantized(c) ELSE c
  BY <1>2
<1> HIDE DEF c
<1>6. kv'.via = {}
  BY <1>4, <1>5, UnquantizedIs
<1>7. \A l \in DOMAIN store' : l \in DOMAIN store /\ store'[l] = store[l]
  BY <1>2, LessIs DEF TakeEntry, IInv
<1>8. QED BY <1>6, <1>7 DEF Clean

\* An insert of a clean cache.
LEMMA InsertClean ==
  ASSUME Clean, NEW key, NEW c, c.via = {}, Insert(key, c)
  PROVE  \A k \in DOMAIN store' : store'[k].via = {}
BY InsertLeaves DEF Clean

LEMMA SnapshotStoreClean ==
  ASSUME IInv, Clean, SnapshotStore
  PROVE  Clean'
<1> DEFINE n == cached + done - Bound
<1>1. /\ pc = "snapshot" /\ done >= Target /\ kv' = kv
      /\ Insert(Take(ctx, Bound), Trimmed(kv, n)) \/ store' = store
  BY DEF SnapshotStore
<1>2. n \in Nat
  <2>1. /\ cached \in Nat /\ done \in Nat /\ Target \in Nat
        /\ Bound \in cached + 1 .. Len(ctx) - 1 /\ Bound <= cached + Target /\ Len(ctx) \in Nat
    BY <1>1, TargetIs
  <2>2. QED BY <1>1, <2>1
<1> HIDE DEF n
<1>3. Trimmed(kv, n).via = {}
  BY <1>2, TrimmedIs DEF IInv, Typed, Clean
<1>4. QED BY <1>1, <1>3, InsertClean DEF Clean

LEMMA FedClean ==
  ASSUME IInv, Clean, NEW s \in Seq(Tokens)
  PROVE  Fed(kv, s).via = {} /\ Requantized(Fed(kv, s)).via = {}
<1>1. Fed(kv, s) \in KvCaches /\ Fed(kv, s).via = {}
  BY FedIs DEF IInv, Typed, Clean
<1>2. Requantized(Fed(kv, s)).via = {}
  BY <1>1, RequantizedIs DEF IInv, Typed
<1>3. QED BY <1>1, <1>2

LEMMA DecodeClean ==
  ASSUME IInv, Clean, SnapshotPrefill \/ Prefill \/ First \/ Emit \/ Verify
  PROVE  Clean'
<1>1. store' = store
  BY DEF SnapshotPrefill, Prefill, First, Emit, Verify
<1>2. \E s \in Seq(Tokens) : kv' = Fed(kv, s) \/ kv' = Requantized(Fed(kv, s))
  <2>1. CASE SnapshotPrefill
    <3>1. pc = "snapshot" /\ done < Target /\ kv' = Fed(kv, NextChunk(Target))
      BY <2>1 DEF SnapshotPrefill
    <3>2. Target \in Nat /\ Target < Len(rest) /\ rest \in Seq(Tokens) /\ done \in Nat
      BY <3>1, TargetIs
    <3>3. QED BY <3>1, <3>2, NextChunkIs
  <2>2. CASE Prefill
    <3>1. /\ pc = "generate" /\ Len(rest) > 1 /\ rest \in Seq(Tokens) /\ done = 0
          /\ kv' = Requantized(Fed(kv, NextChunk(Len(rest) - 1)))
      BY <2>2 DEF Prefill, IInv, Typed, Placed
    <3>2. Len(rest) - 1 \in Nat /\ done < Len(rest) - 1 /\ Len(rest) - 1 < Len(rest)
      BY <3>1, LenProperties
    <3>3. NextChunk(Len(rest) - 1) \in Seq(Tokens)
      BY <3>1, <3>2, NextChunkIs
    <3>4. QED BY <3>1, <3>3
  <2>3. CASE First
    BY <2>3 DEF First, IInv, Typed
  <2>4. CASE Emit
    <3>1. PICK t \in Tokens : kv' = Requantized(Fed(kv, <<t>>))
      BY <2>4 DEF Emit
    <3>2. <<t>> \in Seq(Tokens)
      OBVIOUS
    <3>3. QED BY <3>1, <3>2
  <2>5. CASE Verify
    <3>1. /\ out \in Seq(Tokens) /\ out # <<>>
          /\ \E n \in 0 .. Min({LookupTokens, Left - 1}) :
               \E accepted \in [1 .. n -> Tokens] :
                 kv' = Requantized(Fed(kv, <<Last(out)>> \o accepted))
      BY <2>5 DEF Verify, IInv, Typed, Placed
    <3>2. PICK n \in 0 .. Min({LookupTokens, Left - 1}) :
            \E accepted \in [1 .. n -> Tokens] :
              kv' = Requantized(Fed(kv, <<Last(out)>> \o accepted))
      BY <3>1
    <3>3. PICK accepted \in [1 .. n -> Tokens] :
            kv' = Requantized(Fed(kv, <<Last(out)>> \o accepted))
      BY <3>2
    <3>4. n \in Nat
      <4>1. Left \in Int /\ LookupTokens \in Nat
        BY LenProperties, ServerAssumption DEF Left, MaxCtx, MaxReq, IInv, Typed, Settings
      <4>2. Min({LookupTokens, Left - 1}) \in Int
        BY <4>1, MinOfTwo
      <4>3. QED BY <4>2
    <3>5. accepted \in Seq(Tokens)
      BY <3>3, <3>4
    <3>6. <<Last(out)>> \in Seq(Tokens)
      <4>1. Last(out) \in Tokens
        BY <3>1, LenProperties, ElementOfSeq, EmptySeq DEF Last
      <4>2. QED BY <4>1
    <3>7. <<Last(out)>> \o accepted \in Seq(Tokens)
      BY <3>5, <3>6, ConcatProperties
    <3>8. QED BY <3>3, <3>7
  <2>6. QED BY <2>1, <2>2, <2>3, <2>4, <2>5
<1>3. QED BY <1>1, <1>2, FedClean DEF Clean

LEMMA StaysClean == IInv /\ Clean /\ [Next]_vars /\ ~<<Spoils>>_vars => Clean'
<1> SUFFICES ASSUME IInv, Clean, [Next]_vars, ~<<Spoils>>_vars
             PROVE  Clean'
  OBVIOUS
<1>1. CASE UNCHANGED <<kv, store>>
  BY <1>1 DEF Clean
<1>2. ASSUME NEW req \in Requests, FetchHit(req) PROVE Clean'
  BY <1>2, FetchHitClean
<1>3. ASSUME NEW req \in Requests, FetchMiss(req) PROVE Clean'
  BY <1>3 DEF FetchMiss, EmptyKv, Clean
<1>4. CASE SnapshotStore
  BY <1>4, SnapshotStoreClean
<1>5. CASE SnapshotPrefill \/ Prefill \/ First \/ Emit \/ Verify
  BY <1>5, DecodeClean
<1>6. CASE SnapshotFails
  <2>1. vars' # vars
    BY <1>6 DEF SnapshotFails, vars
  <2>2. QED BY <1>6, <2>1 DEF Spoils
<1>7. CASE EndTurn
  <2>1. pc = "decode" /\ pc' = "idle" /\ kv' = EmptyKv
    BY <1>7 DEF EndTurn, Idle
  <2>2. ~(conf.lookup /\ Len(feed) # 1)
    <3>1. vars' # vars
      BY <2>1 DEF vars
    <3>2. QED BY <1>7, <3>1 DEF Spoils
  <2>3. Insert(ctx \o out, kv)
    BY <1>7, <2>2 DEF EndTurn
  <2>4. QED BY <2>1, <2>3, InsertClean DEF Clean, EmptyKv
<1>8. CASE FailTurn
  BY <1>8 DEF FailTurn, Idle, EmptyKv, Clean
<1>9. CASE BeginTurn \/ HandOver \/ UNCHANGED vars
  BY <1>1, <1>9 DEF BeginTurn, HandOver, vars, turn
<1>10. QED
  BY <1>2, <1>3, <1>4, <1>5, <1>6, <1>7, <1>8, <1>9 DEF Next

LEMMA CleanUnlessSpoiled == Spec => []Clean \/ <><<Spoils>>_vars
<1>1. Init => Clean
  BY DEF Init, NoTurn, EmptyKv, Clean
<1>2. QED BY <1>1, StaysClean, Invariant, PTL DEF Spec

-----------------------------------------------------------------------------
(* What it says: of every cache that is not exempt, always; and of every    *)
(* cache there is, always, unless one is spoiled at some time.              *)

\* Whatever was forked, cut, handed over, converted or put back, a stored cache
\* was computed from the tokens of its key (take, _fork_prefix_snapshots,
\* insert_cache), if no turn it comes from was spoiled.  Where none ever is, as
\* without lookup decoding and failing snapshots, this is every stored cache.
THEOREM StoredUnderItsTokens ==
  Spec => /\ []StoreHoldsKey
          /\ [](\A k \in DOMAIN store : store[k].toks = k) \/ <><<Spoils>>_vars
<1> DEFINE All == \A k \in DOMAIN store : store[k].toks = k
<1>1. IInv => StoreHoldsKey
  BY DEF IInv, Stored, StoreHoldsKey
<1>2. IInv /\ Clean => All
  BY DEF IInv, Stored, Clean
<1>3. QED BY Invariant, CleanUnlessSpoiled, <1>1, <1>2, PTL

\* From the fetch to the last token of the prompt, the cache and what is left
\* to feed are together the request (_fetch, _snapshot_user_segment), in every
\* turn whose cache was not spoiled, and in every turn if none ever is.
THEOREM HandoffComplete ==
  Spec => /\ []HandoffWhole
          /\ []HandoffWholeEver \/ <><<Spoils>>_vars
<1>1. IInv => HandoffWhole
  <2> SUFFICES ASSUME IInv, pc \in {"begin", "generate"}, kv.via = {}
               PROVE  kv.toks \o rest = ctx
    BY DEF HandoffWhole
  <2> USE DEF IInv
  <2>1. CASE pc = "generate"
    BY <2>1 DEF Conditioned
  <2>2. CASE pc = "begin"
    <3>1. ctx \in Seq(Tokens) /\ cached \in 0 .. Len(ctx) /\ cached + done = cached
          /\ rest = Drop(ctx, cached)
      BY <2>2, LenProperties DEF Typed, Placed
    <3>2. kv.toks = Take(ctx, cached)
      BY <2>2, <3>1 DEF Conditioned
    <3>3. QED BY <3>1, <3>2, TakeThenDrop
  <2>3. QED BY <2>1, <2>2
<1>2. HandoffWhole /\ Clean => HandoffWholeEver
  BY DEF HandoffWhole, HandoffWholeEver, Clean
<1>3. QED BY Invariant, CleanUnlessSpoiled, <1>1, <1>2, PTL

\* "Prefill must never run against a quantized cache": kvmem.unquantize on
\* every resumed cache that has more than a token to feed, and no requantize
\* before the prompt is over, in every turn whose cache was not spoiled; in
\* every turn if none ever is.
THEOREM PrefillInFp16 ==
  Spec => /\ []PrefillUnquantized
          /\ [](pc = "snapshot" \/ (pc = "generate" /\ Len(rest) > 1) => ~kv.quant)
             \/ <><<Spoils>>_vars
<1> DEFINE All == pc = "snapshot" \/ (pc = "generate" /\ Len(rest) > 1) => ~kv.quant
<1>1. IInv => PrefillUnquantized
  BY DEF IInv, Placed, Conditioned, PrefillUnquantized
<1>2. PrefillUnquantized /\ Clean => All
  BY DEF PrefillUnquantized, Clean
<1>3. QED BY Invariant, CleanUnlessSpoiled, <1>1, <1>2, PTL

\* A verify pass of lookup_decode starts from the request and the reply as
\* handed over: no rejected token stays, none is missing, in every turn whose
\* cache was not spoiled; in every turn if none ever is.
THEOREM VerifiedOnEmitted ==
  Spec => /\ []ConditionedOnEmitted
          /\ [](pc = "decode" /\ conf.lookup /\ feed = <<>> =>
                  kv.toks \o <<Last(out)>> = ctx \o out)
             \/ <><<Spoils>>_vars
<1> DEFINE All == pc = "decode" /\ conf.lookup /\ feed = <<>> =>
                    kv.toks \o <<Last(out)>> = ctx \o out
<1>1. IInv => ConditionedOnEmitted
  <2> SUFFICES ASSUME IInv, pc = "decode", conf.lookup, feed = <<>>, kv.via = {}
               PROVE  kv.toks \o <<Last(out)>> = ctx \o out
    BY DEF ConditionedOnEmitted
  <2>1. out \o feed = out
    BY ConcatEmptySeq DEF IInv, Typed
  <2>2. QED BY <2>1 DEF IInv, Conditioned
<1>2. ConditionedOnEmitted /\ Clean => All
  BY DEF ConditionedOnEmitted, Clean
<1>3. QED BY Invariant, CleanUnlessSpoiled, <1>1, <1>2, PTL

\* However a turn ends, the slab is back before the next one starts
\* (relieve_pressure calls leave_prefill in every case).
THEOREM SlabBack == Spec => []SlabBackBetweenTurns
<1>1. IInv => SlabBackBetweenTurns
  BY DEF IInv, Placed, SlabBackBetweenTurns
<1>2. QED BY Invariant, <1>1, PTL

-----------------------------------------------------------------------------
\* Sums of sizes. A fold over a finite set is reasoned about at a least set at
\* which a claim fails: what one element adds is then the whole of the claim.

\* Among finite sets one is minimal: a claim about them fails first somewhere.
LEMMA LeastSet ==
  ASSUME NEW S, IsFiniteSet(S), NEW B, B \subseteq SUBSET S, B # {}
  PROVE  \E X \in B : \A Y \in B : Y \subseteq X => Y = X
<1>1. PICK X \in B : \A Y \in B : <<Y, X>> \notin StrictSubsetOrdering(S)
  <2>1. B \subseteq FiniteSubsetsOf(S)
    BY FS_Subset DEF FiniteSubsetsOf
  <2>2. QED BY <2>1, FS_StrictSubsetOrderingWellFounded, WFMin
<1>2. ASSUME NEW Y \in B, Y \subseteq X, Y # X PROVE FALSE
  <2>1. <<Y, X>> \in (SUBSET S) \X (SUBSET S)
    BY <1>2
  <2>2. <<Y, X>> \in StrictSubsetOrdering(S)
    BY <1>2, <2>1 DEF StrictSubsetOrdering
  <2>3. QED BY <1>1, <1>2, <2>2
<1>3. QED BY <1>2

\* What MapThenSumSet adds up, one element after the other.
FirstOf(S) == CHOOSE k \in S : TRUE
Adds(g, w, S) == IF S = {} THEN 0 ELSE w[FirstOf(S)] + g[S \ {FirstOf(S)}]
Totals(g, w, S) == g = [T \in SUBSET S |-> Adds(g, w, T)]
Total(w, S) == (CHOOSE g : Totals(g, w, S))[S]

\* The element FirstOf takes out is there.
LEMMA FirstIsIn == \A S : S # {} => FirstOf(S) \in S
  BY DEF FirstOf

\* The totals over two sets agree on what is in both.
LEMMA TotalsAgree ==
  ASSUME NEW X, NEW Y, IsFiniteSet(X), NEW g, NEW h, NEW w,
         Totals(g, w, X), Totals(h, w, Y)
  PROVE  \A T \in SUBSET (X \cap Y) : g[T] = h[T]
<1> DEFINE B == {T \in SUBSET (X \cap Y) : g[T] # h[T]}
<1>1. SUFFICES ASSUME B # {} PROVE FALSE
  OBVIOUS
<1>2. IsFiniteSet(X \cap Y)
  BY FS_Subset
<1>3. PICK T \in B : \A U \in B : U \subseteq T => U = T
  <2>1. B \subseteq SUBSET (X \cap Y)
    OBVIOUS
  <2> HIDE DEF B
  <2>2. QED BY <1>1, <1>2, <2>1, LeastSet
<1>4. g[T] = Adds(g, w, T) /\ h[T] = Adds(h, w, T)
  BY DEF Totals
<1>5. T # {}
  BY <1>4 DEF Adds
<1>6. FirstOf(T) \in T
  BY <1>5, FirstIsIn
<1>7. g[T \ {FirstOf(T)}] = h[T \ {FirstOf(T)}]
  BY <1>3, <1>6
<1>8. QED BY <1>4, <1>5, <1>6, <1>7 DEF Adds

\* Over every finite set the totals are a function.
LEMMA TotalsExist ==
  ASSUME NEW S, IsFiniteSet(S), NEW w
  PROVE  \E g : Totals(g, w, S)
<1> DEFINE B == {X \in SUBSET S : ~ \E g : Totals(g, w, X)}
<1>1. SUFFICES ASSUME B # {} PROVE FALSE
  OBVIOUS
<1>2. PICK X \in B : \A U \in B : U \subseteq X => U = X
  <2>1. B \subseteq SUBSET S
    OBVIOUS
  <2> HIDE DEF B
  <2>2. QED BY <1>1, <2>1, LeastSet
<1> DEFINE G(T) == CHOOSE g : Totals(g, w, T)
           F == FirstOf(X)
           h == [T \in SUBSET X |-> IF T # X THEN G(T)[T]
                                    ELSE IF X = {} THEN 0 ELSE w[F] + G(X \ {F})[X \ {F}]]
<1>3. \A T \in SUBSET X : T # X => Totals(G(T), w, T)
  <2>1. SUFFICES ASSUME NEW T \in SUBSET X, T # X PROVE Totals(G(T), w, T)
    OBVIOUS
  <2>2. T \notin B /\ T \in SUBSET S
    BY <1>2, <2>1
  <2>3. \E g : Totals(g, w, T)
    BY <2>2
  <2>4. QED BY <2>3
<1>4. \A T \in SUBSET X : h[T] = Adds(h, w, T)
  <2>1. ASSUME NEW T \in SUBSET X, T # X PROVE h[T] = Adds(h, w, T)
    <3>1. h[T] = G(T)[T] /\ Totals(G(T), w, T)
      BY <1>3, <2>1
    <3> HIDE DEF G
    <3>2. G(T)[T] = Adds(G(T), w, T)
      BY <3>1 DEF Totals
    <3>3. CASE T = {}
      BY <3>1, <3>2, <3>3 DEF Adds
    <3>4. CASE T # {}
      <4> DEFINE U == T \ {FirstOf(T)}
      <4>1. FirstOf(T) \in T
        BY <3>4, FirstIsIn
      <4>2. U \in SUBSET X /\ U # X /\ U \in SUBSET (T \cap U)
        BY <2>1, <4>1
      <4>3. Totals(G(U), w, U) /\ IsFiniteSet(T)
        BY <1>3, <4>2, FS_Subset
      <4> HIDE DEF U
      <4>4. G(T)[U] = G(U)[U]
        BY <3>1, <4>2, <4>3, TotalsAgree
      <4>5. h[U] = G(U)[U]
        BY <4>2
      <4>6. G(T)[T] = w[FirstOf(T)] + G(T)[U]
        BY <3>2, <3>4 DEF Adds, U
      <4>7. Adds(h, w, T) = w[FirstOf(T)] + h[U]
        BY <3>4 DEF Adds, U
      <4>8. QED BY <3>1, <4>4, <4>5, <4>6, <4>7
    <3>5. QED BY <3>3, <3>4
  <2>2. h[X] = Adds(h, w, X)
    <3>1. CASE X = {}
      BY <3>1 DEF Adds
    <3>2. CASE X # {}
      <4>1. F \in X
        BY <3>2, FirstIsIn
      <4>2. X \ {F} \in SUBSET X /\ X \ {F} # X
        BY <4>1
      <4> HIDE DEF G
      <4>3. h[X \ {F}] = G(X \ {F})[X \ {F}]
        BY <4>2
      <4>4. h[X] = w[F] + G(X \ {F})[X \ {F}]
        BY <3>2
      <4>5. Adds(h, w, X) = w[F] + h[X \ {F}]
        BY <3>2 DEF Adds
      <4>6. QED BY <4>3, <4>4, <4>5
    <3>3. QED BY <3>1, <3>2
  <2>3. QED BY <2>1, <2>2
<1>5. h = [T \in SUBSET X |-> h[T]]
  OBVIOUS
<1> HIDE DEF h
<1>6. Totals(h, w, X)
  BY <1>4, <1>5 DEF Totals
<1>7. QED BY <1>2, <1>6

\* The total over a subset is the value of one function of the subsets.
LEMMA SumTotals ==
  ASSUME NEW S, IsFiniteSet(S), NEW w
  PROVE  \E g : Totals(g, w, S) /\ \A T \in SUBSET S : Total(w, T) = g[T]
<1> DEFINE g == CHOOSE h : Totals(h, w, S)
<1>1. Totals(g, w, S)
  <2>1. \E h : Totals(h, w, S)
    BY TotalsExist
  <2>2. QED BY <2>1
<1>2. ASSUME NEW T \in SUBSET S PROVE Total(w, T) = g[T]
  <2> DEFINE h == CHOOSE f : Totals(f, w, T)
  <2>1. IsFiniteSet(T)
    BY FS_Subset
  <2>2. Totals(h, w, T)
    <3>1. \E f : Totals(f, w, T)
      BY <2>1, TotalsExist
    <3>2. QED BY <3>1
  <2>3. Total(w, T) = h[T]
    BY DEF Total
  <2> HIDE DEF g, h
  <2>4. T \in SUBSET (S \cap T)
    OBVIOUS
  <2>6. \A U \in SUBSET (S \cap T) : g[U] = h[U]
    BY <1>1, <2>2, TotalsAgree
  <2>7. QED BY <2>3, <2>4, <2>6
<1> HIDE DEF g
<1>3. QED BY <1>1, <1>2

\* Nothing sums to nothing.
LEMMA SumOfNone == \A w : Total(w, {}) = 0
<1>1. ASSUME NEW w PROVE Total(w, {}) = 0
  <2>1. PICK g : Totals(g, w, {}) /\ \A T \in SUBSET {} : Total(w, T) = g[T]
    BY FS_EmptySet, SumTotals
  <2>2. QED BY <2>1 DEF Totals, Adds
<1>2. QED BY <1>1

\* The first element is counted first.
LEMMA SumAdds ==
  ASSUME NEW S, IsFiniteSet(S), S # {}, NEW w
  PROVE  Total(w, S) = w[FirstOf(S)] + Total(w, S \ {FirstOf(S)})
<1>1. PICK g : Totals(g, w, S) /\ \A T \in SUBSET S : Total(w, T) = g[T]
  BY SumTotals
<1>2. g[S] = Adds(g, w, S)
  BY <1>1 DEF Totals
<1>3. S \ {FirstOf(S)} \in SUBSET S /\ S \in SUBSET S
  OBVIOUS
<1>4. QED BY <1>1, <1>2, <1>3 DEF Adds

\* Sizes are natural numbers, and so is what they add up to.
LEMMA SumIsNat ==
  ASSUME NEW S, IsFiniteSet(S), NEW w, \A k \in S : w[k] \in Nat
  PROVE  Total(w, S) \in Nat
<1> DEFINE B == {X \in SUBSET S : Total(w, X) \notin Nat}
<1>1. SUFFICES ASSUME B # {} PROVE FALSE
  OBVIOUS
<1>2. PICK X \in B : \A U \in B : U \subseteq X => U = X
  <2>1. B \subseteq SUBSET S
    OBVIOUS
  <2> HIDE DEF B
  <2>2. QED BY <1>1, <2>1, LeastSet
<1>3. X # {}
  <2>1. Total(w, {}) = 0
    BY SumOfNone
  <2>2. {} \notin B
    BY <2>1
  <2>3. QED BY <1>2, <2>2
<1>4. FirstOf(X) \in X /\ IsFiniteSet(X)
  BY <1>3, FirstIsIn, FS_Subset
<1>5. Total(w, X) = w[FirstOf(X)] + Total(w, X \ {FirstOf(X)})
  BY <1>3, <1>4, SumAdds
<1>6. Total(w, X \ {FirstOf(X)}) \in Nat
  BY <1>2, <1>4
<1>7. QED BY <1>2, <1>4, <1>5, <1>6

\* Which element is counted first makes no difference.
LEMMA SumRemoves ==
  ASSUME NEW S, IsFiniteSet(S), NEW w, \A k \in S : w[k] \in Nat, NEW x \in S
  PROVE  Total(w, S) = w[x] + Total(w, S \ {x})
<1> DEFINE B == {X \in SUBSET S : \E y \in X : Total(w, X) # w[y] + Total(w, X \ {y})}
<1>1. SUFFICES ASSUME B # {} PROVE FALSE
  OBVIOUS
<1>2. PICK X \in B : \A U \in B : U \subseteq X => U = X
  <2>1. B \subseteq SUBSET S
    OBVIOUS
  <2> HIDE DEF B
  <2>2. QED BY <1>1, <2>1, LeastSet
<1>3. PICK y \in X : Total(w, X) # w[y] + Total(w, X \ {y})
  BY <1>2
<1> DEFINE f == FirstOf(X)
<1>4. f \in X /\ IsFiniteSet(X) /\ X # {}
  BY <1>3, FirstIsIn, FS_Subset
<1>5. Total(w, X) = w[f] + Total(w, X \ {f})
  BY <1>4, SumAdds
<1> HIDE DEF f
<1>6. f # y
  <2>1. ASSUME f = y PROVE FALSE
    BY <1>3, <1>5, <2>1, Zenon
  <2>2. QED BY <2>1
<1>7. Total(w, X \ {f}) = w[y] + Total(w, (X \ {f}) \ {y})
  <2>1. X \ {f} \notin B /\ X \ {f} \in SUBSET S /\ y \in X \ {f}
    BY <1>2, <1>3, <1>4, <1>6
  <2>2. QED BY <2>1
<1>8. Total(w, X \ {y}) = w[f] + Total(w, (X \ {y}) \ {f})
  <2>1. X \ {y} \notin B /\ X \ {y} \in SUBSET S /\ f \in X \ {y}
    BY <1>2, <1>3, <1>4, <1>6
  <2>2. QED BY <2>1
<1>9. (X \ {f}) \ {y} = (X \ {y}) \ {f}
  OBVIOUS
<1>10. IsFiniteSet((X \ {f}) \ {y}) /\ (X \ {f}) \ {y} \subseteq S
  BY <1>2, FS_Subset
<1>11. Total(w, (X \ {f}) \ {y}) \in Nat
  BY <1>10, SumIsNat
<1>12. w[f] \in Nat /\ w[y] \in Nat
  BY <1>2, <1>3, <1>4
<1> HIDE DEF B
<1>13. Total(w, X \ {y}) = w[f] + Total(w, (X \ {f}) \ {y})
  BY <1>8, <1>9
<1>14. w[f] + (w[y] + Total(w, (X \ {f}) \ {y})) = w[y] + (w[f] + Total(w, (X \ {f}) \ {y}))
  BY <1>11, <1>12
<1>15. Total(w, X) = w[y] + Total(w, X \ {y})
  BY <1>5, <1>7, <1>13, <1>14
<1>16. QED BY <1>3, <1>15

\* A part and the rest.
LEMMA SumSplits ==
  ASSUME NEW S, IsFiniteSet(S), NEW w, \A k \in S : w[k] \in Nat, NEW P \in SUBSET S
  PROVE  Total(w, S) = Total(w, P) + Total(w, S \ P)
<1> DEFINE B == {X \in SUBSET P : Total(w, S) # Total(w, X) + Total(w, S \ X)}
<1>1. SUFFICES ASSUME B # {} PROVE FALSE
  OBVIOUS
<1>2. PICK X \in B : \A U \in B : U \subseteq X => U = X
  <2>1. B \subseteq SUBSET S
    OBVIOUS
  <2> HIDE DEF B
  <2>2. QED BY <1>1, <2>1, LeastSet
<1>3. X # {}
  <2>1. Total(w, S) \in Nat /\ S \ {} = S
    BY SumIsNat
  <2>2. Total(w, {}) = 0
    BY SumOfNone
  <2>3. {} \notin B
    BY <2>1, <2>2
  <2>4. QED BY <1>2, <2>3
<1>4. PICK y \in X : TRUE
  BY <1>3
<1> DEFINE Y == X \ {y}
<1>5. Total(w, S) = Total(w, Y) + Total(w, S \ Y)
  BY <1>2, <1>4
<1>6. IsFiniteSet(X) /\ IsFiniteSet(S \ Y) /\ IsFiniteSet(Y) /\ IsFiniteSet(S \ X)
  BY <1>2, FS_Subset
<1>7. Total(w, X) = w[y] + Total(w, Y)
  BY <1>2, <1>4, <1>6, SumRemoves
<1>8. Total(w, S \ Y) = w[y] + Total(w, S \ X)
  <2>1. y \in S \ Y /\ (S \ Y) \ {y} = S \ X
    BY <1>2, <1>4
  <2> HIDE DEF Y
  <2>2. QED BY <1>6, <2>1, SumRemoves
<1>9. Total(w, Y) \in Nat /\ Total(w, S \ X) \in Nat /\ w[y] \in Nat
  BY <1>2, <1>4, <1>6, SumIsNat
<1>10. QED BY <1>2, <1>5, <1>7, <1>8, <1>9

\* Only the sizes of what is counted matter.
LEMMA SumOfSame ==
  ASSUME NEW S, IsFiniteSet(S), NEW w, NEW v, \A k \in S : w[k] = v[k]
  PROVE  Total(w, S) = Total(v, S)
<1>1. PICK g : Totals(g, w, S) /\ \A T \in SUBSET S : Total(w, T) = g[T]
  BY SumTotals
<1>2. PICK h : Totals(h, v, S) /\ \A T \in SUBSET S : Total(v, T) = h[T]
  BY SumTotals
<1>3. Totals(h, w, S)
  <2>1. ASSUME NEW T \in SUBSET S PROVE Adds(h, v, T) = Adds(h, w, T)
    <3>1. CASE T = {}
      BY <3>1 DEF Adds
    <3>2. CASE T # {}
      <4>1. FirstOf(T) \in S
        BY <3>2, FirstIsIn
      <4>2. QED BY <3>2, <4>1 DEF Adds
    <3>3. QED BY <3>1, <3>2
  <2>2. QED BY <1>2, <2>1 DEF Totals
<1>4. Totals(g, w, S) /\ IsFiniteSet(S)
  BY <1>1
<1>5. g[S] = h[S]
  <2> DEFINE Y == S
  <2>1. Totals(h, w, Y) /\ S \in SUBSET (S \cap Y)
    BY <1>3
  <2> HIDE DEF Y
  <2>2. \A T \in SUBSET (S \cap Y) : g[T] = h[T]
    BY ONLY <1>4, <2>1, TotalsAgree
  <2>3. QED BY <2>1, <2>2
<1>6. Total(w, S) = g[S] /\ Total(v, S) = h[S]
  BY <1>1, <1>2
<1>7. QED BY ONLY <1>5, <1>6

Sizes(s) == [k \in DOMAIN s |-> Size(s[k])]

\* The bytes of a store are the sum of its sizes.
LEMMA BytesAreSum ==
  ASSUME NEW s
  PROVE  Bytes(s) = Total(Sizes(s), DOMAIN s)
<1> DEFINE D == DOMAIN s
           f(T) == CHOOSE k \in T : TRUE
           byHand(h, T) == IF T = {} THEN 0 ELSE Size(s[f(T)]) + h[T \ {f(T)}]
<1>1. Bytes(s) = (CHOOSE h : h = [T \in SUBSET D |-> byHand(h, T)])[D]
  BY Zenon DEF Bytes, MapThenSumSet, MapThenFoldSet
<1>2. ASSUME NEW h, NEW T \in SUBSET D PROVE byHand(h, T) = Adds(h, Sizes(s), T)
  <2>1. T # {} => f(T) \in D
    OBVIOUS
  <2>2. QED BY <2>1 DEF Adds, Sizes, FirstOf
<1> HIDE DEF byHand
<1>3. ASSUME NEW h
      PROVE  (h = [T \in SUBSET D |-> byHand(h, T)]) <=> Totals(h, Sizes(s), D)
  BY <1>2 DEF Totals
<1>4. (CHOOSE h : h = [T \in SUBSET D |-> byHand(h, T)]) = (CHOOSE h : Totals(h, Sizes(s), D))
  BY <1>3
<1>5. QED BY <1>1, <1>4 DEF Total

-----------------------------------------------------------------------------
\* The counter of the store (_insert_cache_bounded, fetch_nearest_cache).

\* A cache has a size.
LEMMA SizeIsNat ==
  ASSUME NEW c \in KvCaches
  PROVE  Size(c) \in Nat
<1>1. Len(c.toks) \in Nat
  BY LenProperties DEF KvCaches
<1>2. CASE c.quant
  BY <1>1, <1>2 DEF Size
<1>3. CASE ~c.quant
  BY <1>1, <1>3 DEF Size
<1>4. QED BY <1>2, <1>3

\* A store is as large as any part of it and the rest.
LEMMA BytesOfPart ==
  ASSUME NEW s, IsFiniteSet(DOMAIN s), \A k \in DOMAIN s : s[k] \in KvCaches,
         NEW K \in SUBSET DOMAIN s
  PROVE  /\ Bytes(Restrict(s, K)) = Total(Sizes(s), K)
         /\ Bytes(Restrict(s, K)) \in Nat
         /\ Bytes(s) = Bytes(Restrict(s, K)) + Bytes(Restrict(s, DOMAIN s \ K))
<1>1. \A k \in DOMAIN s : Sizes(s)[k] \in Nat
  BY SizeIsNat DEF Sizes
<1>2. ASSUME NEW P \in SUBSET DOMAIN s
      PROVE  Bytes(Restrict(s, P)) = Total(Sizes(s), P) /\ Total(Sizes(s), P) \in Nat
  <2>1. DOMAIN Restrict(s, P) = P /\ \A k \in P : Sizes(Restrict(s, P))[k] = Sizes(s)[k]
    BY DEF Restrict, Sizes
  <2>2. IsFiniteSet(P)
    BY FS_Subset
  <2>3. Total(Sizes(Restrict(s, P)), P) = Total(Sizes(s), P)
    BY <2>1, <2>2, SumOfSame
  <2>4. Total(Sizes(s), P) \in Nat
    BY <1>1, <2>2, SumIsNat
  <2>5. QED BY <2>1, <2>3, <2>4, BytesAreSum
<1>3. Total(Sizes(s), DOMAIN s) = Total(Sizes(s), K) + Total(Sizes(s), DOMAIN s \ K)
  BY <1>1, SumSplits
<1>4. DOMAIN s \ K \in SUBSET DOMAIN s
  OBVIOUS
<1>5. QED BY <1>2, <1>3, <1>4, BytesAreSum

\* The store and its counter: the counter is exact, and within the budget.
Counted ==
  /\ IsFiniteSet(DOMAIN store)
  /\ StoreBounded

\* An empty store counts nothing.
LEMMA InitCounts == Init => Counted
<1>1. SUFFICES ASSUME Init PROVE Counted
  OBVIOUS
<1>2. DOMAIN store = {} /\ bytes = 0 /\ conf \in Settings
  BY <1>1, ServerAssumption DEF Init
<1>3. IsFiniteSet(DOMAIN store) /\ Cardinality(DOMAIN store) = 0
  BY <1>2, FS_EmptySet
<1>4. Bytes(store) = 0
  BY <1>2, BytesAreSum, SumOfNone
<1>5. 0 <= conf.size /\ (StoreBudget > 0 => 0 <= StoreBudget)
  BY <1>2, ServerAssumption DEF Settings
<1>6. QED BY <1>2, <1>3, <1>4, <1>5 DEF Counted, StoreBounded

\* An entry that is taken leaves the counter with its size.
LEMMA TakeCounts ==
  ASSUME Typed, Stored, Counted, NEW key \in DOMAIN store, TakeEntry(key), UNCHANGED conf
  PROVE  Counted'
<1> DEFINE K == DOMAIN store \ {key}
<1>1. \A k \in DOMAIN store : store[k] \in KvCaches /\ Sizes(store)[k] = Size(store[k])
  BY DEF Stored, Sizes
<1>2. IsFiniteSet(DOMAIN store) /\ IsFiniteSet(K) /\ Cardinality(K) <= Cardinality(DOMAIN store)
      /\ Cardinality(DOMAIN store) \in Nat /\ Cardinality(K) \in Nat
  BY FS_Subset, FS_CardinalityType DEF Counted
<1>3. K \in SUBSET DOMAIN store
  OBVIOUS
<1>4. store' = Restrict(store, K) /\ DOMAIN store' = K /\ bytes' = bytes - Size(store[key])
  BY DEF TakeEntry, Restrict
<1>5. Bytes(store') = Total(Sizes(store), K) /\ Bytes(store') \in Nat
  BY <1>1, <1>2, <1>3, <1>4, BytesOfPart
<1>6. Size(store[key]) \in Nat /\ \A k \in DOMAIN store : Sizes(store)[k] \in Nat
  BY <1>1, SizeIsNat
<1>7. Bytes(store) = Size(store[key]) + Bytes(store')
  <2>1. Total(Sizes(store), DOMAIN store) = Sizes(store)[key] + Total(Sizes(store), K)
    BY <1>2, <1>6, SumRemoves
  <2>2. QED BY <1>1, <1>5, <2>1, BytesAreSum
<1>8. conf.size \in Nat /\ conf' = conf
  BY DEF Typed, Settings
<1> HIDE DEF K
<1>9. bytes' = Bytes(store')
  BY <1>4, <1>5, <1>6, <1>7 DEF Counted, StoreBounded
<1>10. StoreBudget > 0 => Bytes(store') <= StoreBudget
  BY <1>5, <1>6, <1>7, ServerAssumption DEF Counted, StoreBounded
<1>11. Cardinality(DOMAIN store') <= conf'.size
  BY <1>2, <1>4, <1>8 DEF Counted, StoreBounded
<1>12. StoreBounded'
  BY <1>9, <1>10, <1>11 DEF StoreBounded
<1>13. QED BY <1>2, <1>4, <1>12 DEF Counted

\* What is given up of a store with one entry more is taken off the counter.
LEMMA InsertCounts ==
  ASSUME Typed, Stored, Counted, NEW key, NEW c \in KvCaches, Insert(key, c), UNCHANGED conf
  PROVE  Counted'
<1> DEFINE s == WithEntry(key, c)
           D == DOMAIN store
           kept == DOMAIN s \ {key}
           gone == {k \in D : k = key \/ k \notin DOMAIN s}
           n == bytes + Size(c) - Bytes(Restrict(store, gone))
<1>1. /\ kept \subseteq D /\ DOMAIN s = kept \cup {key} /\ s[key] = c
      /\ \A k \in kept : s[k] = store[k]
  BY DEF WithEntry
<1>2. gone \in SUBSET D /\ D \ gone = kept /\ kept \in SUBSET D
  BY <1>1
<1>3. IsFiniteSet(D) /\ IsFiniteSet(kept) /\ IsFiniteSet(DOMAIN s)
  BY <1>1, <1>2, FS_Subset, FS_AddElement DEF Counted
<1>4. (\A k \in D : store[k] \in KvCaches) /\ (\A k \in DOMAIN s : s[k] \in KvCaches)
  BY <1>1 DEF Stored
<1> HIDE DEF s, kept, gone
<1>5. /\ Bytes(store) = Bytes(Restrict(store, gone)) + Bytes(Restrict(store, kept))
      /\ Bytes(Restrict(store, gone)) \in Nat
      /\ Bytes(Restrict(store, kept)) = Total(Sizes(store), kept)
      /\ Bytes(Restrict(store, kept)) \in Nat
  BY <1>2, <1>3, <1>4, BytesOfPart
<1>6. Bytes(s) = Size(c) + Bytes(Restrict(store, kept))
  <2>1. key \in DOMAIN s /\ DOMAIN s \ {key} = kept
    BY <1>1 DEF kept
  <2>2. \A k \in DOMAIN s : Sizes(s)[k] \in Nat
    BY <1>4, SizeIsNat DEF Sizes
  <2>3. Total(Sizes(s), DOMAIN s) = Sizes(s)[key] + Total(Sizes(s), kept)
    BY <1>3, <2>1, <2>2, SumRemoves
  <2>4. Sizes(s)[key] = Size(c)
    BY <1>1, <2>1 DEF Sizes
  <2>5. \A k \in kept : Sizes(s)[k] = Sizes(store)[k]
    BY <1>1, <1>2 DEF Sizes
  <2>6. Total(Sizes(s), kept) = Total(Sizes(store), kept)
    BY <1>3, <2>5, SumOfSame
  <2>7. QED BY <1>5, <2>3, <2>4, <2>6, BytesAreSum
<1>7. bytes = Bytes(store) /\ Size(c) \in Nat
  BY SizeIsNat DEF Counted, StoreBounded
<1>8. n = Bytes(s) /\ n \in Nat
  BY <1>5, <1>6, <1>7
<1> HIDE DEF n
<1>9. PICK keys \in SUBSET DOMAIN s :
        /\ store' = Restrict(s, keys)
        /\ bytes' = n - Bytes(Restrict(s, DOMAIN s \ keys))
        /\ Cardinality(keys) <= conf.size
        /\ StoreBudget = 0 \/ bytes' <= StoreBudget
  BY DEF Insert, Bounded, s, gone, n
<1>10. /\ Bytes(s) = Bytes(Restrict(s, keys)) + Bytes(Restrict(s, DOMAIN s \ keys))
       /\ Bytes(Restrict(s, keys)) \in Nat
       /\ Bytes(Restrict(s, DOMAIN s \ keys)) \in Nat
  <2>1. DOMAIN s \ keys \in SUBSET DOMAIN s
    OBVIOUS
  <2>2. QED BY <1>3, <1>4, <2>1, BytesOfPart
<1>11. DOMAIN store' = keys /\ IsFiniteSet(keys)
  BY <1>3, <1>9, FS_Subset DEF Restrict
<1>12. bytes' = Bytes(store')
  BY <1>8, <1>9, <1>10
<1>13. StoreBudget > 0 => Bytes(store') <= StoreBudget
  BY <1>9, <1>12, ServerAssumption
<1>14. Cardinality(DOMAIN store') <= conf'.size
  BY <1>9, <1>11
<1>15. StoreBounded'
  BY <1>12, <1>13, <1>14 DEF StoreBounded
<1>16. QED BY <1>11, <1>15 DEF Counted

\* Cutting a cache does not make it larger.
LEMMA TrimmedIsSmaller ==
  ASSUME NEW c \in KvCaches, NEW n \in Nat
  PROVE  Size(Trimmed(c, n)) <= Size(c)
<1> DEFINE d == Trimmed(c, n)
           m == Max({0, Len(c.toks) - n})
<1>1. c.toks \in Seq(Tokens) /\ Len(c.toks) \in Nat
  BY LenProperties DEF KvCaches
<1>2. m \in 0 .. Len(c.toks)
  BY <1>1, MaxOfTwo
<1>3. d.toks = Take(c.toks, m) /\ d.quant = c.quant
  BY DEF Trimmed, KvCaches
<1> HIDE DEF d, m
<1>4. Len(d.toks) \in Nat /\ Len(d.toks) <= Len(c.toks)
  BY <1>1, <1>2, <1>3, TakeIs
<1>5. ASSUME c.quant PROVE Size(d) <= Size(c)
  BY <1>1, <1>3, <1>4, <1>5 DEF Size
<1>6. ASSUME ~c.quant PROVE Size(d) <= Size(c)
  BY <1>1, <1>3, <1>4, <1>6 DEF Size
<1>7. QED BY <1>5, <1>6 DEF d

\* Within a turn the store changes by inserts only, of what the turn works on.
LEMMA TurnsInsert ==
  ASSUME IInv, SnapshotStore \/ EndTurn
  PROVE  /\ UNCHANGED conf
         /\ \/ UNCHANGED <<store, bytes>>
            \/ \E key \in Seq(Tokens), c \in KvCaches : Insert(key, c) /\ Size(c) <= Size(kv)
<1>1. kv \in KvCaches /\ Size(kv) \in Nat
  BY SizeIsNat DEF IInv, Typed
<1>2. CASE SnapshotStore
  <2> DEFINE n == cached + done - Bound
             key == Take(ctx, Bound)
  <2>1. /\ pc = "snapshot" /\ done >= Target /\ UNCHANGED conf
        /\ Insert(key, Trimmed(kv, n)) \/ UNCHANGED <<store, bytes>>
    BY <1>2 DEF SnapshotStore
  <2>2. /\ ctx \in Seq(Tokens) /\ cached \in Nat /\ done \in Nat /\ Len(ctx) \in Nat
        /\ Target \in Nat /\ Bound \in cached + 1 .. Len(ctx) - 1 /\ Bound <= cached + Target
    BY <2>1, TargetIs
  <2>3. n \in Nat /\ Bound \in 0 .. Len(ctx)
    BY <2>1, <2>2
  <2> HIDE DEF n
  <2>4. key \in Seq(Tokens)
    BY <2>2, <2>3, TakeIs
  <2>5. Trimmed(kv, n) \in KvCaches /\ Size(Trimmed(kv, n)) <= Size(kv)
    BY <1>1, <2>3, TrimmedIs, TrimmedIsSmaller
  <2> HIDE DEF key
  <2>6. QED BY <2>1, <2>4, <2>5
<1>3. CASE EndTurn
  <2> DEFINE c == IF conf.lookup /\ Len(feed) # 1 THEN [kv EXCEPT !.via = kv.via \cup {"lookup"}] ELSE kv
             key == ctx \o out
  <2>1. Insert(key, c) /\ UNCHANGED conf
    BY <1>3 DEF EndTurn
  <2>2. key \in Seq(Tokens)
    BY ConcatProperties DEF IInv, Typed
  <2>3. c \in KvCaches /\ c.toks = kv.toks /\ c.quant = kv.quant
    BY <1>1 DEF KvCaches
  <2> HIDE DEF c, key
  <2>4. Size(c) = Size(kv)
    BY <2>3 DEF Size
  <2>5. QED BY <1>1, <2>1, <2>2, <2>3, <2>4
<1>4. QED BY <1>2, <1>3

\* Which steps touch the store.
LEMMA StepsOfTheStore ==
  ASSUME [Next]_vars
  PROVE  \/ UNCHANGED <<conf, store, bytes>>
         \/ SnapshotStore \/ EndTurn
         \/ \E req \in Requests : FetchHit(req)
BY DEF Next, vars, FetchMiss, BeginTurn, SnapshotPrefill, SnapshotFails, Prefill, First,
       Emit, Verify, HandOver, FailTurn

\* Every step keeps the counter exact.
LEMMA StepCounts ==
  ASSUME IInv, Counted, [Next]_vars
  PROVE  Counted'
<1>1. CASE UNCHANGED <<conf, store, bytes>>
  <2>1. Bytes(store') = Bytes(store) /\ bytes' = bytes /\ DOMAIN store' = DOMAIN store
        /\ conf' = conf
    BY <1>1
  <2>2. StoreBounded'
    BY <2>1 DEF Counted, StoreBounded
  <2>3. QED BY <2>1, <2>2 DEF Counted
<1>2. CASE SnapshotStore \/ EndTurn
  <2>1. UNCHANGED conf
    BY <1>2, TurnsInsert
  <2>2. ASSUME NEW key \in Seq(Tokens), NEW c \in KvCaches, Insert(key, c)
        PROVE  Counted'
    BY <2>1, <2>2, InsertCounts DEF IInv
  <2>3. QED BY <1>1, <1>2, <2>1, <2>2, TurnsInsert
<1>3. ASSUME NEW req \in Requests, FetchHit(req) PROVE Counted'
  <2>1. PICK h \in Hits(req) :
          IF conf.move THEN TakeEntry(h.key) ELSE UNCHANGED <<store, bytes>>
    BY <1>3 DEF FetchHit
  <2>2. UNCHANGED conf
    BY <1>3 DEF FetchHit
  <2>3. h.key \in DOMAIN store
    <3>1. req \in Seq(Tokens) /\ Len(req) >= 1
      BY RequestIs DEF IInv, Typed
    <3>2. QED BY <3>1, HitIs DEF IInv, Typed
  <2>4. CASE conf.move
    BY <2>1, <2>2, <2>3, <2>4, TakeCounts DEF IInv
  <2>5. CASE ~conf.move
    BY <1>1, <2>1, <2>2, <2>5
  <2>6. QED BY <2>4, <2>5
<1>4. QED BY <1>1, <1>2, <1>3, StepsOfTheStore

\* The counter is exact in every reachable state.
LEMMA CountedAlways == Spec => []Counted
BY InitCounts, StepCounts, Invariant, PTL DEF Spec

\* The counter of the store is the bytes of what it holds, through every take,
\* replacement and eviction, so that bound_store keeps it within its budget.
THEOREM StoreWithinBudget == Spec => []StoreBounded
<1>1. Counted => StoreBounded
  BY DEF Counted
<1>2. QED BY <1>1, CountedAlways, PTL

-----------------------------------------------------------------------------
\* What an insert leaves to resume from.

\* Nothing longer is shared.
LEMMA CommonIsMost ==
  ASSUME NEW s \in Seq(Tokens), NEW t \in Seq(Tokens),
         NEW n \in 0 .. Len(s), n <= Len(t), Take(s, n) = Take(t, n)
  PROVE  n <= Common(s, t)
<1> DEFINE N == { m \in 0 .. Len(s) : m <= Len(t) /\ Take(s, m) = Take(t, m) }
<1>1. Len(s) \in Nat /\ N \in SUBSET (0 .. Len(s)) /\ n \in N /\ N # {}
  BY LenProperties
<1> HIDE DEF N
<1>2. Max(N) >= n /\ Max(N) \in 0 .. Len(s)
  BY <1>1, MaxIs
<1>3. QED BY <1>2 DEF Common, N

\* What is longer shares no less.
LEMMA CommonGrows ==
  ASSUME NEW k \in Seq(Tokens), NEW l \in Seq(Tokens), NEW req \in Seq(Tokens), IsPrefix(k, l)
  PROVE  Common(k, req) <= Common(l, req)
<1> DEFINE n == Common(k, req)
<1>1. Len(k) \in Nat /\ Len(l) \in Nat /\ Len(k) <= Len(l) /\ Take(l, Len(k)) = k
  BY LenProperties, TakeAll DEF IsPrefix, Take
<1>2. n \in 0 .. Len(k) /\ n \in 0 .. Len(req) /\ Take(k, n) = Take(req, n)
  BY CommonIs
<1> HIDE DEF n
<1>3. Take(l, n) = Take(k, n)
  <2>1. Len(k) \in 0 .. Len(l)
    BY <1>1
  <2>2. Take(Take(l, Len(k)), n) = Take(l, n)
    BY <1>2, <2>1, TakeOfTake
  <2>3. QED BY <1>1, <2>2
<1>4. n \in 0 .. Len(l) /\ n <= Len(req)
  BY <1>1, <1>2
<1>5. n <= Common(l, req)
  BY <1>2, <1>3, <1>4, CommonIsMost
<1>6. QED BY <1>5 DEF n

\* What Hits and Served say of the keys D of a store.
Shares(D, req)    == [k \in D |-> Common(k, req)]
Best(D, req)      == Max({0} \cup Range(Shares(D, req)))
WholeIn(D, req)  == {k \in D : Shares(D, req)[k] = Len(k) /\ Len(k) > 1}
Short(D, req)     == Max({0} \cup {Len(k) : k \in WholeIn(D, req)})
Sharing(D, req)   == {k \in D : Shares(D, req)[k] = Best(D, req)}
Longer(D, req)    == {k \in Sharing(D, req) : \A l \in Sharing(D, req) : Len(k) <= Len(l)}
HitsIn(D, trim, req) ==
  IF req \in D THEN {[key |-> req, n |-> Len(req)]}
  ELSE IF Best(D, req) > Short(D, req) /\ trim
    THEN {[key |-> k, n |-> Min({Len(req) - 1, Best(D, req)})] : k \in Longer(D, req)}
  ELSE {[key |-> k, n |-> Short(D, req)] : k \in {p \in WholeIn(D, req) : Len(p) = Short(D, req)}}
ServedIn(D, trim, req) ==
  Max({0} \cup {Min({h.n, Len(req) - 1}) : h \in HitsIn(D, trim, req)})

\* Where the trie can be cut it serves what it shares most, else its longest prefix.
Reach(D, trim, req) == IF trim THEN Best(D, req) ELSE Short(D, req)

\* What the trie shares most with a request is shared by an entry.
LEMMA BestIs ==
  ASSUME NEW D, D \subseteq Seq(Tokens), NEW req \in Seq(Tokens)
  PROVE  /\ Best(D, req) \in 0 .. Len(req)
         /\ \A k \in D : Common(k, req) <= Best(D, req)
         /\ Best(D, req) > 0 => \E k \in D : Common(k, req) = Best(D, req)
<1> DEFINE S == {0} \cup Range(Shares(D, req))
<1>1. \A k \in D : Common(k, req) \in 0 .. Len(req)
  BY CommonIs
<1>2. Len(req) \in Nat /\ S \in SUBSET (0 .. Len(req)) /\ S # {}
  BY <1>1, LenProperties DEF Range, Shares
<1>3. \A x \in S : x = 0 \/ \E k \in D : Common(k, req) = x
  BY DEF Range, Shares
<1>4. \A k \in D : Common(k, req) \in S
  BY DEF Range, Shares
<1> HIDE DEF S
<1>5. Max(S) \in S /\ \A y \in S : Max(S) >= y
  BY <1>2, MaxIs
<1>6. Best(D, req) = Max(S)
  BY DEF Best, S
<1>7. Best(D, req) \in S /\ \A y \in S : y <= Best(D, req)
  BY <1>2, <1>5, <1>6
<1>8. Best(D, req) \in 0 .. Len(req)
  BY <1>2, <1>7
<1>9. \A k \in D : Common(k, req) <= Best(D, req)
  BY <1>4, <1>7
<1>10. Best(D, req) = 0 \/ \E k \in D : Common(k, req) = Best(D, req)
  BY <1>3, <1>7
<1>11. Best(D, req) > 0 => \E k \in D : Common(k, req) = Best(D, req)
  BY <1>10
<1>12. QED BY <1>8, <1>9, <1>11

\* The longest entry that is a prefix is an entry, or there is none.
LEMMA ShortIs ==
  ASSUME NEW D, D \subseteq Seq(Tokens), NEW req \in Seq(Tokens)
  PROVE  /\ Short(D, req) \in 0 .. Len(req)
         /\ \A k \in WholeIn(D, req) : k \in D /\ Len(k) <= Short(D, req)
         /\ Short(D, req) > 0 => \E k \in WholeIn(D, req) : Len(k) = Short(D, req)
<1> DEFINE S == {0} \cup {Len(k) : k \in WholeIn(D, req)}
<1>1. \A k \in WholeIn(D, req) : k \in D /\ Len(k) \in 0 .. Len(req)
  <2>1. ASSUME NEW k \in WholeIn(D, req) PROVE k \in D /\ Len(k) = Common(k, req)
    BY DEF WholeIn, Shares
  <2>2. QED BY <2>1, CommonIs
<1>2. Len(req) \in Nat /\ S \in SUBSET (0 .. Len(req)) /\ S # {}
  BY <1>1, LenProperties
<1>3. \A x \in S : x = 0 \/ \E k \in WholeIn(D, req) : Len(k) = x
  OBVIOUS
<1>4. \A k \in WholeIn(D, req) : Len(k) \in S
  OBVIOUS
<1> HIDE DEF S
<1>5. Max(S) \in S /\ \A y \in S : Max(S) >= y
  BY <1>2, MaxIs
<1>6. Short(D, req) = Max(S)
  BY DEF Short, S
<1>7. Short(D, req) \in S /\ \A y \in S : y <= Short(D, req)
  BY <1>2, <1>5, <1>6
<1>8. Short(D, req) \in 0 .. Len(req)
  BY <1>2, <1>7
<1>9. \A k \in WholeIn(D, req) : k \in D /\ Len(k) <= Short(D, req)
  BY <1>1, <1>4, <1>7
<1>10. Short(D, req) = 0 \/ \E k \in WholeIn(D, req) : Len(k) = Short(D, req)
  BY <1>3, <1>7
<1>11. Short(D, req) > 0 => \E k \in WholeIn(D, req) : Len(k) = Short(D, req)
  BY <1>10
<1>12. QED BY <1>8, <1>9, <1>11

\* A prefix is shared: it never beats what is shared most.
LEMMA ShortIsShared ==
  ASSUME NEW D, D \subseteq Seq(Tokens), NEW req \in Seq(Tokens)
  PROVE  Short(D, req) <= Best(D, req)
<1>1. Best(D, req) \in 0 .. Len(req) /\ Short(D, req) \in 0 .. Len(req)
  BY BestIs, ShortIs
<1>2. CASE Short(D, req) > 0
  <2>1. PICK k \in WholeIn(D, req) : Len(k) = Short(D, req)
    BY <1>2, ShortIs
  <2>2. k \in D /\ Common(k, req) = Len(k)
    BY DEF WholeIn, Shares
  <2>3. Common(k, req) <= Best(D, req)
    BY <2>2, BestIs
  <2>4. QED BY <2>1, <2>2, <2>3
<1>3. QED BY <1>1, <1>2

\* The maximum of at most one number, and zero.
LEMMA MaxOfOne ==
  ASSUME NEW b \in Nat, NEW S, S \subseteq {b}, S = {} => b = 0
  PROVE  Max({0} \cup S) = b
<1>1. {0} \cup S \in SUBSET (0 .. b) /\ {0} \cup S # {} /\ b \in {0} \cup S
  OBVIOUS
<1>2. Max({0} \cup S) \in 0 .. b /\ Max({0} \cup S) >= b
  BY <1>1, MaxIs
<1>3. QED BY <1>2

\* Among the keys that share most there are shortest ones.
LEMMA LongerIs ==
  ASSUME NEW D, D \subseteq Seq(Tokens), NEW req \in Seq(Tokens), Best(D, req) > 0
  PROVE  Longer(D, req) # {}
<1> DEFINE L == {Len(l) : l \in Sharing(D, req)}
<1>1. PICK k \in D : Common(k, req) = Best(D, req)
  BY BestIs
<1>2. k \in Sharing(D, req)
  BY <1>1 DEF Sharing, Shares
<1>3. \A l \in Sharing(D, req) : Len(l) \in Nat
  BY LenProperties DEF Sharing
<1>4. L \in SUBSET Nat /\ L # {}
  BY <1>2, <1>3
<1>5. PICK x \in L : \A y \in L : x <= y
  <2> HIDE DEF L
  <2>1. QED BY <1>4, LeastExists
<1>6. PICK l \in Sharing(D, req) : x = Len(l)
  OBVIOUS
<1>7. \A j \in Sharing(D, req) : Len(l) <= Len(j)
  BY <1>5, <1>6
<1>8. l \in Longer(D, req)
  BY <1>7 DEF Longer
<1>9. QED BY <1>8

\* A request shares all of itself.
LEMMA CommonToItself ==
  ASSUME NEW s \in Seq(Tokens)
  PROVE  Common(s, s) = Len(s)
<1>1. Len(s) \in Nat /\ Len(s) \in 0 .. Len(s)
  BY LenProperties
<1>2. Len(s) <= Common(s, s) /\ Common(s, s) \in 0 .. Len(s)
  BY <1>1, CommonIsMost, CommonIs
<1>3. QED BY <1>1, <1>2

\* Hits that all serve n tokens, or none.
LEMMA ServedByOne ==
  ASSUME NEW D, NEW trim, NEW req, NEW n \in Nat, NEW m \in Nat, m = Len(req) - 1,
         \A h \in HitsIn(D, trim, req) : h.n = n,
         HitsIn(D, trim, req) = {} => n = 0
  PROVE  ServedIn(D, trim, req) = IF n <= m THEN n ELSE m
<1> DEFINE b == Min({n, m})
           S == {Min({h.n, m}) : h \in HitsIn(D, trim, req)}
<1>1. b = IF n <= m THEN n ELSE m
  BY MinOfTwo
<1>2. b \in Nat /\ (n = 0 => b = 0)
  BY <1>1
<1>3. S \subseteq {b} /\ (S = {} => HitsIn(D, trim, req) = {})
  OBVIOUS
<1> HIDE DEF b, S
<1>4. Max({0} \cup S) = b
  BY <1>2, <1>3, MaxOfOne
<1>5. ServedIn(D, trim, req) = Max({0} \cup S)
  BY DEF ServedIn, S
<1>6. QED BY <1>1, <1>4, <1>5

\* What a request is served from: the reach, and never its last token.
LEMMA ServedIs ==
  ASSUME NEW D, D \subseteq Seq(Tokens), NEW trim \in BOOLEAN,
         NEW req \in Seq(Tokens), Len(req) >= 1,
         NEW m \in Nat, m = Len(req) - 1
  PROVE  ServedIn(D, trim, req) = IF Reach(D, trim, req) <= m THEN Reach(D, trim, req) ELSE m
<1>1. /\ Best(D, req) \in 0 .. Len(req) /\ Short(D, req) \in 0 .. Len(req)
      /\ Short(D, req) <= Best(D, req) /\ Len(req) \in Nat
  <2>1. Best(D, req) \in 0 .. Len(req)
    BY BestIs
  <2>2. Short(D, req) \in 0 .. Len(req)
    BY ShortIs
  <2>3. Short(D, req) <= Best(D, req) /\ Len(req) \in Nat
    BY ShortIsShared, LenProperties
  <2>4. QED BY <2>1, <2>2, <2>3
<1>2. CASE req \in D
  <2>1. HitsIn(D, trim, req) = {[key |-> req, n |-> Len(req)]}
    BY <1>2 DEF HitsIn
  <2>2. (\A h \in HitsIn(D, trim, req) : h.n = Len(req)) /\ HitsIn(D, trim, req) # {}
    BY <2>1
  <2>3. ServedIn(D, trim, req) = IF Len(req) <= m THEN Len(req) ELSE m
    BY <1>1, <2>2, ServedByOne
  <2>4. Common(req, req) = Len(req)
    BY CommonToItself
  <2>5. Len(req) <= Best(D, req)
    BY <1>2, <2>4, BestIs
  <2>6. Len(req) > 1 => Len(req) <= Short(D, req)
    <3>1. Len(req) > 1 => req \in WholeIn(D, req)
      BY <1>2, <2>4 DEF WholeIn, Shares
    <3>2. QED BY <3>1, ShortIs
  <2>7. QED BY <1>1, <2>3, <2>5, <2>6 DEF Reach
<1>3. CASE req \notin D /\ Best(D, req) > Short(D, req) /\ trim
  <2> DEFINE n == Min({m, Best(D, req)})
  <2>1. HitsIn(D, trim, req) = {[key |-> k, n |-> Min({Len(req) - 1, Best(D, req)})] : k \in Longer(D, req)}
    BY <1>3 DEF HitsIn
  <2>2. Min({Len(req) - 1, Best(D, req)}) = n
    OBVIOUS
  <2>3. n = IF m <= Best(D, req) THEN m ELSE Best(D, req)
    BY <1>1, MinOfTwo
  <2>4. n \in Nat
    BY <1>1, <2>3
  <2>5. Longer(D, req) # {}
    <3>1. Best(D, req) > 0
      BY <1>1, <1>3
    <3>2. QED BY <3>1, LongerIs
  <2> HIDE DEF n
  <2>6. HitsIn(D, trim, req) = {[key |-> k, n |-> n] : k \in Longer(D, req)}
    BY <2>1, <2>2
  <2>7. \A h \in HitsIn(D, trim, req) : h.n = n
    BY <2>6
  <2>8. HitsIn(D, trim, req) # {}
    BY <2>5, <2>6
  <2>9. ServedIn(D, trim, req) = IF n <= m THEN n ELSE m
    BY <2>4, <2>7, <2>8, ServedByOne
  <2>10. Reach(D, trim, req) = Best(D, req)
    BY <1>3 DEF Reach
  <2>11. QED BY <1>1, <2>3, <2>4, <2>9, <2>10
<1>4. CASE req \notin D /\ ~(Best(D, req) > Short(D, req) /\ trim)
  <2>1. HitsIn(D, trim, req) =
          {[key |-> k, n |-> Short(D, req)] : k \in {p \in WholeIn(D, req) : Len(p) = Short(D, req)}}
    BY <1>4 DEF HitsIn
  <2>2. \A h \in HitsIn(D, trim, req) : h.n = Short(D, req)
    BY <2>1
  <2>3. Short(D, req) > 0 => HitsIn(D, trim, req) # {}
    <3>1. ASSUME Short(D, req) > 0 PROVE HitsIn(D, trim, req) # {}
      <4>1. PICK k \in WholeIn(D, req) : Len(k) = Short(D, req)
        BY <3>1, ShortIs
      <4>2. QED BY <2>1, <4>1
    <3>2. QED BY <3>1
  <2>4. Short(D, req) \in Nat /\ (HitsIn(D, trim, req) = {} => Short(D, req) = 0)
    BY <1>1, <2>3
  <2>5. ServedIn(D, trim, req) = IF Short(D, req) <= m THEN Short(D, req) ELSE m
    BY <2>2, <2>4, ServedByOne
  <2>6. Reach(D, trim, req) = Short(D, req)
    BY <1>1, <1>4 DEF Reach
  <2>7. QED BY <2>5, <2>6
<1>5. QED BY <1>2, <1>3, <1>4

\* Replacing keys by what they are prefixes of takes no reuse away.
LEMMA ReuseGrows ==
  ASSUME NEW D, D \subseteq Seq(Tokens), NEW E, E \subseteq Seq(Tokens), NEW trim \in BOOLEAN,
         \A k \in D : k \in E \/ (trim /\ \E l \in E : IsPrefix(k, l)),
         NEW req \in Seq(Tokens), Len(req) >= 1
  PROVE  ServedIn(E, trim, req) >= ServedIn(D, trim, req)
<1>1. Len(req) \in Nat
  BY LenProperties
<1>2. /\ Best(D, req) \in Nat /\ Best(E, req) \in Nat
      /\ Short(D, req) \in Nat /\ Short(E, req) \in Nat
  <2>1. Best(D, req) \in 0 .. Len(req) /\ Short(D, req) \in 0 .. Len(req)
    BY BestIs, ShortIs
  <2>2. Best(E, req) \in 0 .. Len(req) /\ Short(E, req) \in 0 .. Len(req)
    BY BestIs, ShortIs
  <2>3. QED BY <2>1, <2>2
<1>3. Best(D, req) <= Best(E, req)
  <2>1. CASE Best(D, req) > 0
    <3>1. PICK k \in D : Common(k, req) = Best(D, req)
      BY <2>1, BestIs
    <3>2. PICK l \in E : Common(k, req) <= Common(l, req)
      <4>1. CASE k \in E
        <5>1. Common(k, req) <= Common(k, req)
          BY <1>2, <3>1
        <5>2. QED BY <4>1, <5>1
      <4>2. CASE trim /\ \E l \in E : IsPrefix(k, l)
        BY <4>2, CommonGrows
      <4>3. QED BY <4>1, <4>2
    <3>3. Common(l, req) <= Best(E, req) /\ Common(l, req) \in Nat
      BY BestIs, CommonIs
    <3>4. QED BY <1>2, <3>1, <3>2, <3>3
  <2>2. QED BY <1>2, <2>1
<1>4. ~trim => Short(D, req) <= Short(E, req)
  <2>1. CASE ~trim /\ Short(D, req) > 0
    <3>1. PICK k \in WholeIn(D, req) : Len(k) = Short(D, req)
      BY <2>1, ShortIs
    <3>2. k \in WholeIn(E, req)
      BY <2>1 DEF WholeIn, Shares
    <3>3. QED BY <3>1, <3>2, ShortIs
  <2>2. QED BY <1>2, <2>1
<1>5. /\ Reach(D, trim, req) \in Nat /\ Reach(E, trim, req) \in Nat
      /\ Reach(D, trim, req) <= Reach(E, trim, req)
  BY <1>2, <1>3, <1>4 DEF Reach
<1> DEFINE m == Len(req) - 1
<1>6. m \in Nat
  BY <1>1
<1>7. /\ ServedIn(D, trim, req) = IF Reach(D, trim, req) <= m THEN Reach(D, trim, req) ELSE m
      /\ ServedIn(E, trim, req) = IF Reach(E, trim, req) <= m THEN Reach(E, trim, req) ELSE m
  BY <1>6, ServedIs
<1> HIDE DEF m
<1>8. QED BY <1>5, <1>6, <1>7

\* With room for one entry more nothing is given up.
LEMMA InsertWithRoom ==
  ASSUME Typed, Stored, Counted, HasRoom, NEW key, NEW c \in KvCaches, Size(c) <= Size(kv),
         Insert(key, c)
  PROVE  store' = WithEntry(key, c)
<1> DEFINE s == WithEntry(key, c)
           D == DOMAIN store
           gone == {k \in D : k = key \/ k \notin DOMAIN s}
           n == bytes + Size(c) - Bytes(Restrict(store, gone))
           Count(keys) == n - Bytes(Restrict(s, DOMAIN s \ keys))
           Fits(keys) == /\ Cardinality(keys) <= conf.size
                         /\ StoreBudget = 0 \/ Count(keys) <= StoreBudget
<1>1. /\ DOMAIN s \subseteq D \cup {key} /\ gone \in SUBSET D
      /\ \A k \in DOMAIN s : s[k] \in KvCaches
      /\ s = [k \in DOMAIN s |-> s[k]]
  BY DEF WithEntry, Stored
<1>2. IsFiniteSet(D) /\ IsFiniteSet(D \cup {key}) /\ Cardinality(D \cup {key}) <= conf.size
      /\ conf.size \in Nat
  <2>1. IsFiniteSet(D) /\ Cardinality(D) \in Nat
    BY FS_CardinalityType DEF Counted
  <2>2. IsFiniteSet(D \cup {key}) /\ Cardinality(D \cup {key}) <= Cardinality(D) + 1
    <3> HIDE DEF D
    <3>1. IsFiniteSet(D \cup {key})
          /\ Cardinality(D \cup {key}) = IF key \in D THEN Cardinality(D) ELSE Cardinality(D) + 1
      BY <2>1, FS_AddElement
    <3>2. QED BY <2>1, <3>1
  <2>3. conf.size \in Nat /\ Cardinality(D) < conf.size
    BY DEF Typed, Settings, HasRoom
  <2>4. Cardinality(D \cup {key}) \in Nat
    BY <2>2, FS_CardinalityType
  <2>5. QED BY <2>1, <2>2, <2>3, <2>4
<1>3. n \in Int /\ (StoreBudget = 0 \/ n <= StoreBudget)
  <2>1. Bytes(Restrict(store, gone)) \in Nat /\ Bytes(store) \in Nat
    <3>1. \A k \in D : store[k] \in KvCaches
      BY DEF Stored
    <3> HIDE DEF gone
    <3>2. /\ Bytes(Restrict(store, gone)) \in Nat /\ Bytes(Restrict(store, D \ gone)) \in Nat
          /\ Bytes(store) = Bytes(Restrict(store, gone)) + Bytes(Restrict(store, D \ gone))
      <4>1. D \ gone \in SUBSET D
        OBVIOUS
      <4>2. QED BY <1>1, <1>2, <3>1, <4>1, BytesOfPart
    <3>3. QED BY <3>2
  <2>2. bytes \in Nat /\ Size(c) \in Nat /\ Size(kv) \in Nat
    BY <2>1, SizeIsNat DEF Counted, StoreBounded, Typed
  <2>3. StoreBudget = 0 \/ bytes + Size(kv) <= StoreBudget
    BY DEF HasRoom
  <2> HIDE DEF gone
  <2>4. QED BY <2>1, <2>2, <2>3, ServerAssumption
<1> HIDE DEF s, gone, n
<1>4. IsFiniteSet(DOMAIN s)
  BY <1>1, <1>2, FS_Subset
<1>5. \A keys \in SUBSET DOMAIN s : Fits(keys)
  <2>1. ASSUME NEW keys \in SUBSET DOMAIN s PROVE Fits(keys)
    <3>1. keys \in SUBSET (D \cup {key})
      BY <1>1
    <3>2. Cardinality(keys) <= Cardinality(D \cup {key}) /\ IsFiniteSet(keys)
      BY <1>2, <3>1, FS_Subset
    <3>3. Cardinality(keys) \in Nat /\ Cardinality(D \cup {key}) \in Nat
      BY <1>2, <3>2, FS_CardinalityType
    <3>4. Bytes(Restrict(s, DOMAIN s \ keys)) \in Nat
      <4>1. DOMAIN s \ keys \in SUBSET DOMAIN s
        OBVIOUS
      <4>2. QED BY <1>1, <1>4, <4>1, BytesOfPart
    <3>5. QED BY <1>2, <1>3, <3>2, <3>3, <3>4, ServerAssumption
  <2>2. QED BY <2>1
<1> HIDE DEF Fits
<1>6. PICK keys \in SUBSET DOMAIN s :
        /\ store' = Restrict(s, keys)
        /\ keys # DOMAIN s => \E k \in DOMAIN s \ keys : ~Fits(keys \cup {k})
  <2>1. \E b \in Bounded(s, n) : store' = b.store
    BY DEF Insert, s, gone, n
  <2> DEFINE Sets == {K \in SUBSET DOMAIN s :
                        /\ Fits(K)
                        /\ K # DOMAIN s => \E k \in DOMAIN s \ K : ~Fits(K \cup {k})}
  <2>2. Bounded(s, n) = {[store |-> Restrict(s, keys), bytes |-> Count(keys)] : keys \in Sets}
    BY DEF Bounded, Fits
  <2> HIDE DEF Sets, Count
  <2>4. PICK K : K \in Sets /\ store' = Restrict(s, K)
    BY <2>1, <2>2
  <2>5. /\ K \in SUBSET DOMAIN s
        /\ K # DOMAIN s => \E k \in DOMAIN s \ K : ~Fits(K \cup {k})
    <3>1. K \in Sets
      BY <2>4
    <3> HIDE DEF s
    <3>2. QED BY ONLY <3>1, Zenon DEF Sets
  <2> DEFINE Enough(L) == /\ store' = Restrict(s, L)
                          /\ L # DOMAIN s => \E k \in DOMAIN s \ L : ~Fits(L \cup {k})
  <2>6. Enough(K)
    BY <2>4, <2>5
  <2> HIDE DEF Enough
  <2>7. \E L \in SUBSET DOMAIN s : Enough(L)
    BY <2>5, <2>6
  <2>8. QED BY <2>7 DEF Enough
<1>7. keys = DOMAIN s
  <2>1. \A k \in DOMAIN s \ keys : keys \cup {k} \in SUBSET DOMAIN s
    OBVIOUS
  <2>2. QED BY <1>5, <1>6, <2>1
<1>8. Restrict(s, DOMAIN s) = s
  BY <1>1 DEF Restrict
<1>9. QED BY <1>6, <1>7, <1>8 DEF s

\* An insert into a store with room takes reuse from no request: what a trimmable
\* entry replaces (insert_cache) is served by it, and nothing is evicted.
THEOREM InsertTakesNoReuse == Spec => InsertKeepsReuse
<1> DEFINE Step == store' # store /\ pc \in {"snapshot", "decode"} /\ HasRoom =>
                     \A req \in {r \in Requests : Served(r) > 0} : Served(req)' >= Served(req)
<1>1. IInv /\ Counted /\ [Next]_vars => [Step]_vars
  <2>1. SUFFICES ASSUME IInv, Counted, [Next]_vars, store' # store,
                        pc \in {"snapshot", "decode"}, HasRoom,
                        NEW req \in Requests
                 PROVE  Served(req)' >= Served(req)
    OBVIOUS
  <2>2. SnapshotStore \/ EndTurn
    <3>1. \A r \in Requests : ~FetchHit(r)
      BY <2>1 DEF FetchHit
    <3>2. QED BY <2>1, <3>1, StepsOfTheStore
  <2>3. UNCHANGED conf
    BY <2>1, <2>2, TurnsInsert
  <2>4. PICK key \in Seq(Tokens), c \in KvCaches : Insert(key, c) /\ Size(c) <= Size(kv)
    BY <2>1, <2>2, TurnsInsert
  <2>5. store' = WithEntry(key, c)
    BY <2>1, <2>4, InsertWithRoom DEF IInv
  <2> DEFINE D == DOMAIN store
             E == DOMAIN store'
  <2>6. D \subseteq Seq(Tokens) /\ E \subseteq Seq(Tokens)
    BY <2>1, <2>5 DEF IInv, Stored, WithEntry
  <2>7. conf.trimmable \in BOOLEAN
    BY <2>1 DEF IInv, Typed, Settings
  <2>8. \A k \in D : k \in E \/ (conf.trimmable /\ \E l \in E : IsPrefix(k, l))
    BY <2>5 DEF WithEntry, IsStrictPrefix
  <2>9. req \in Seq(Tokens) /\ Len(req) >= 1
    BY <2>1, RequestIs DEF IInv, Typed
  <2>10. Served(req) = ServedIn(D, conf.trimmable, req)
    BY DEF Served, Hits, ServedIn, HitsIn, Best, Short, WholeIn, Sharing, Longer, Shares
  <2>11. Served(req)' = ServedIn(E, conf.trimmable, req)
    BY <2>3 DEF Served, Hits, ServedIn, HitsIn, Best, Short, WholeIn, Sharing, Longer, Shares
  <2> HIDE DEF D, E
  <2>12. ServedIn(E, conf.trimmable, req) >= ServedIn(D, conf.trimmable, req)
    BY <2>6, <2>7, <2>8, <2>9, ReuseGrows
  <2>13. QED BY <2>10, <2>11, <2>12
<1>2. QED BY <1>1, Invariant, CountedAlways, PTL DEF Spec, InsertKeepsReuse
=============================================================================
