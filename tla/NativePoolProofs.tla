-------------------------- MODULE NativePoolProofs --------------------------
(* The native reader pool implements JobQueue, for any number of workers, any  *)
(* capacity of the ring buffer and any number of jobs.  The first part is      *)
(* about the ring buffer alone: what queue_push and queue_pop do to the        *)
(* sequence it stands for, wrapped or not, and through a growth.  The second   *)
(* part follows the jobs: none is queued twice or by two workers.              *)
EXTENDS NativePool, SequenceTheorems, TLAPS

USE PoolAssumption DEF Jobs

-----------------------------------------------------------------------------
(* The ring buffer.                                                            *)

\* The index arithmetic of the ring: one turn at most is taken off.
LEMMA Wraps ==
  ASSUME NEW c \in Nat \ {0}, NEW x \in Nat, x < 2 * c
  PROVE  x % c = IF x < c THEN x ELSE x - c
<1>1. CASE x < c
  BY <1>1
<1>2. CASE ~(x < c)
  <2>1. x = c * (x \div c) + (x % c) /\ x % c \in 0 .. c - 1 /\ x \div c \in Int
    OBVIOUS
  <2>2. x \div c = 1
    <3>1. x \div c <= 0 => c * (x \div c) <= 0
      BY <2>1
    <3>2. x \div c >= 2 => c * (x \div c) >= 2 * c
      BY <2>1
    <3> QED
      BY <1>2, <2>1, <3>1, <3>2
  <2> QED
    BY <1>2, <2>1, <2>2
<1> QED
  BY <1>1, <1>2

LEMMA WrapsSum ==
  ASSUME NEW c \in Nat \ {0}, NEW a \in 0 .. c - 1, NEW b \in 0 .. c
  PROVE  (a + b) % c = IF a + b < c THEN a + b ELSE a + b - c
<1> DEFINE x == a + b
<1>1. x \in Nat /\ x < 2 * c
  OBVIOUS
<1> HIDE DEF x
<1>2. x % c = IF x < c THEN x ELSE x - c
  BY <1>1, Wraps
<1> QED
  BY <1>2 DEF x

\* A step of the tail, and a step of the head.
LEMMA Turns ==
  ASSUME NEW c \in Nat \ {0}, NEW h \in 0 .. c - 1, NEW n \in 0 .. c - 1
  PROVE  /\ (h + 1) % c \in 0 .. c - 1
         /\ (((h + n) % c) + 1) % c = (h + (n + 1)) % c
         /\ (((h + 1) % c) + n) % c = (h + (n + 1)) % c
<1> DEFINE t == (h + n) % c
           k == (h + 1) % c
           m == n + 1
<1>1. t = (IF h + n < c THEN h + n ELSE h + n - c) /\ k = (IF h + 1 < c THEN h + 1 ELSE h + 1 - c)
  <2>1. n \in 0 .. c /\ 1 \in 0 .. c
    OBVIOUS
  <2> QED
    BY <2>1, WrapsSum
<1>2. m \in 0 .. c /\ n \in 0 .. c /\ 1 \in 0 .. c
  OBVIOUS
<1> HIDE DEF t, k, m
<1>3. (h + m) % c = IF h + m < c THEN h + m ELSE h + m - c
  BY <1>2, WrapsSum
<1>4. t \in 0 .. c - 1 /\ k \in 0 .. c - 1
  BY <1>1
<1>5. (t + 1) % c = IF t + 1 < c THEN t + 1 ELSE t + 1 - c
  BY <1>2, <1>4, WrapsSum
<1>6. (k + n) % c = IF k + n < c THEN k + n ELSE k + n - c
  BY <1>2, <1>4, WrapsSum
<1>7. (t + 1) % c = (h + m) % c
  BY <1>1, <1>3, <1>5 DEF m
<1>8. (k + n) % c = (h + m) % c
  BY <1>1, <1>3, <1>6 DEF m
<1> QED
  BY <1>4, <1>7, <1>8 DEF t, k, m

Entries == Jobs \cup {None}

\* The cell that is i places behind the head.
Cell(r, i) == (r.head + i) % r.cap

Contents(r) == [i \in 1 .. r.len |-> r.cells[Cell(r, i - 1)]]

Rings(c) == [cells : [0 .. c - 1 -> Entries], cap : {c}, head : 0 .. c - 1, tail : Nat, len : 0 .. c]

RingOK(r) == r.cap \in Nat \ {0} /\ r \in Rings(r.cap) /\ r.tail = Cell(r, r.len)

LEMMA RingIs ==
  ASSUME NEW r, RingOK(r)
  PROVE  /\ r.cap \in Nat \ {0} /\ r.head \in 0 .. r.cap - 1 /\ r.len \in 0 .. r.cap
         /\ r.len \in Nat /\ r.tail = Cell(r, r.len)
         /\ r.cells \in [0 .. r.cap - 1 -> Entries]
  BY DEF RingOK, Rings

LEMMA CellIs ==
  ASSUME NEW r, RingOK(r), NEW i \in 0 .. r.cap
  PROVE  /\ Cell(r, i) = IF r.head + i < r.cap THEN r.head + i ELSE r.head + i - r.cap
         /\ Cell(r, i) \in 0 .. r.cap - 1
<1>1. /\ r.cap \in Nat \ {0} /\ r.head \in Nat /\ r.head < r.cap
      /\ r.head + i \in Nat /\ r.head + i < 2 * r.cap
  BY RingIs
<1>2. Cell(r, i) = IF r.head + i < r.cap THEN r.head + i ELSE r.head + i - r.cap
  BY <1>1, Wraps DEF Cell
<1> QED
  BY <1>1, <1>2

\* The entries lie in cells of their own.
LEMMA CellsDiffer ==
  ASSUME NEW r, RingOK(r), NEW i \in 0 .. r.cap, NEW j \in 0 .. r.cap, i < j, j < r.cap + i
  PROVE  Cell(r, i) # Cell(r, j)
<1>1. r.cap \in Nat \ {0} /\ r.head \in Nat
  BY RingIs
<1> QED
  BY <1>1, CellIs

LEMMA ContentsSeq ==
  ASSUME NEW r, RingOK(r)
  PROVE  Contents(r) \in Seq(Entries) /\ Len(Contents(r)) = r.len
<1>1. r.len \in Nat /\ r.cap \in Nat /\ r.len <= r.cap
  BY RingIs
<1>2. \A i \in 1 .. r.len : r.cells[Cell(r, i - 1)] \in Entries
  <2> SUFFICES ASSUME NEW i \in 1 .. r.len PROVE r.cells[Cell(r, i - 1)] \in Entries
    OBVIOUS
  <2>1. i - 1 \in 0 .. r.cap
    BY <1>1
  <2>2. Cell(r, i - 1) \in 0 .. r.cap - 1
    BY <2>1, CellIs
  <2> QED
    BY <2>2, RingIs
<1>3. Contents(r) \in [1 .. r.len -> Entries]
  BY <1>2 DEF Contents
<1> QED
  BY <1>1, <1>3, IsASeq

\* queue_push on a full ring: the cells are laid out from the head and doubled.
LEMMA Grows ==
  ASSUME NEW r, RingOK(r), r.len = r.cap
  PROVE  /\ RingOK(Grown(r)) /\ Contents(Grown(r)) = Contents(r)
         /\ Grown(r).len = r.len /\ Grown(r).len < Grown(r).cap
<1> DEFINE g == Grown(r)
           cells == [i \in 0 .. (2 * r.cap - 1) |->
                       IF i < r.len THEN r.cells[(r.head + i) % r.cap] ELSE None]
<1>1. g = [cells |-> cells, cap |-> 2 * r.cap, head |-> 0, tail |-> r.len, len |-> r.len]
  BY DEF Grown
<1>2. /\ r.cap \in Nat \ {0} /\ r.len \in Nat /\ 2 * r.cap \in Nat \ {0} /\ r.len < 2 * r.cap
  BY RingIs
<1>3. cells \in [0 .. 2 * r.cap - 1 -> Entries]
  <2> SUFFICES ASSUME NEW i \in 0 .. 2 * r.cap - 1, i < r.len
               PROVE  r.cells[(r.head + i) % r.cap] \in Entries
    BY DEF Entries
  <2>1. i \in 0 .. r.cap
    BY <1>2
  <2>2. Cell(r, i) \in 0 .. r.cap - 1
    BY <2>1, CellIs
  <2> QED
    BY <2>2, RingIs DEF Cell
<1>4. \A i \in 0 .. r.cap - 1 : cells[i] = r.cells[Cell(r, i)]
  BY <1>2 DEF Cell
<1> HIDE DEF cells
<1>5. /\ g.cells = cells /\ g.cap = 2 * r.cap /\ g.head = 0 /\ g.tail = r.len /\ g.len = r.len
  BY <1>1
<1>6. g \in Rings(2 * r.cap)
  BY <1>1, <1>2, <1>3 DEF Rings
<1> HIDE DEF g
<1>7. \A i \in 0 .. r.cap : Cell(g, i) = i
  <2> SUFFICES ASSUME NEW i \in 0 .. r.cap PROVE Cell(g, i) = i
    OBVIOUS
  <2>1. 0 + i = i /\ i \in Nat /\ i < 2 * r.cap /\ i < 2 * (2 * r.cap)
    BY <1>2
  <2>2. Cell(g, i) = i % (2 * r.cap)
    BY <1>5, <2>1 DEF Cell
  <2> QED
    BY <1>2, <2>1, <2>2, Wraps
<1>8. RingOK(g)
  <2>1. r.len \in 0 .. r.cap
    BY RingIs
  <2> QED
    BY <1>2, <1>5, <1>6, <1>7, <2>1 DEF RingOK
<1>9. \A i \in 1 .. r.len : g.cells[Cell(g, i - 1)] = r.cells[Cell(r, i - 1)]
  <2> SUFFICES ASSUME NEW i \in 1 .. r.len
               PROVE  g.cells[Cell(g, i - 1)] = r.cells[Cell(r, i - 1)]
    OBVIOUS
  <2>1. i - 1 \in 0 .. r.cap - 1 /\ i - 1 \in 0 .. r.cap
    BY <1>2
  <2> QED
    BY <1>4, <1>5, <1>7, <2>1
<1>10. Contents(g) = Contents(r)
  BY <1>5, <1>9 DEF Contents
<1> QED
  BY <1>2, <1>5, <1>8, <1>10 DEF g

\* queue_push on a ring with room.
LEMMA PushesInRoom ==
  ASSUME NEW r, RingOK(r), r.len < r.cap, NEW j \in Jobs
  PROVE  LET p == [r EXCEPT !.cells[r.tail] = j, !.tail = (@ + 1) % r.cap, !.len = @ + 1]
         IN  RingOK(p) /\ Contents(p) = Append(Contents(r), j)
<1> DEFINE cells == [r.cells EXCEPT ![r.tail] = j]
           tail == (r.tail + 1) % r.cap
           p == [r EXCEPT !.cells[r.tail] = j, !.tail = (@ + 1) % r.cap, !.len = @ + 1]
<1>1. p = [r EXCEPT !.cells = cells, !.tail = tail, !.len = r.len + 1]
  OBVIOUS
<1>2. /\ r.cap \in Nat \ {0} /\ r.head \in 0 .. r.cap - 1 /\ r.len \in Nat
      /\ r.len \in 0 .. r.cap /\ r.len + 1 \in 0 .. r.cap
      /\ r.tail = Cell(r, r.len)
      /\ r.cells \in [0 .. r.cap - 1 -> Entries]
  BY RingIs
<1>3. /\ r.tail = (IF r.head + r.len < r.cap THEN r.head + r.len ELSE r.head + r.len - r.cap)
      /\ r.tail \in 0 .. r.cap - 1
  BY <1>2, CellIs
<1>4. tail = Cell(r, r.len + 1) /\ tail \in Nat
  <2>1. r.len \in 0 .. r.cap - 1
    BY <1>2
  <2>2. tail = Cell(r, r.len + 1)
    BY <1>2, <2>1, Turns DEF Cell
  <2>3. Cell(r, r.len + 1) \in 0 .. r.cap - 1
    BY <1>2, CellIs
  <2> QED
    BY <2>2, <2>3
<1>5. cells \in [0 .. r.cap - 1 -> Entries] /\ cells[r.tail] = j
      /\ \A i \in 0 .. r.cap - 1 : i # r.tail => cells[i] = r.cells[i]
  BY <1>2, <1>3 DEF Entries
<1> HIDE DEF cells, tail
<1>6. p.cells = cells /\ p.cap = r.cap /\ p.head = r.head /\ p.tail = tail /\ p.len = r.len + 1
  BY <1>1 DEF RingOK, Rings
<1>7. p \in Rings(r.cap)
  BY <1>1, <1>2, <1>4, <1>5 DEF RingOK, Rings
<1> HIDE DEF p
<1>8. \A i : Cell(p, i) = Cell(r, i)
  BY <1>6 DEF Cell
<1>9. RingOK(p)
  BY <1>2, <1>4, <1>6, <1>7, <1>8 DEF RingOK
<1>10. Contents(p) = Append(Contents(r), j)
  <2>1. Contents(r) \in Seq(Entries) /\ Len(Contents(r)) = r.len /\ j \in Entries
    BY ContentsSeq DEF Entries
  <2>2. /\ Append(Contents(r), j) \in Seq(Entries)
        /\ Len(Append(Contents(r), j)) = r.len + 1
        /\ \A i \in 1 .. r.len : Append(Contents(r), j)[i] = Contents(r)[i]
        /\ Append(Contents(r), j)[r.len + 1] = j
    BY <2>1, AppendProperties
  <2>3. Contents(p) \in Seq(Entries) /\ Len(Contents(p)) = r.len + 1
    BY <1>6, <1>9, ContentsSeq
  <2>4. ASSUME NEW i \in 1 .. r.len + 1
        PROVE  Contents(p)[i] = Append(Contents(r), j)[i]
    <3>1. Contents(p)[i] = cells[Cell(r, i - 1)]
      BY <1>6, <1>8 DEF Contents
    <3>2. CASE i = r.len + 1
      <4>1. i - 1 = r.len
        BY <1>2, <3>2
      <4> QED
        BY <1>2, <1>5, <2>2, <3>1, <3>2, <4>1
    <3>3. CASE i # r.len + 1
      <4>1. i \in 1 .. r.len /\ i - 1 \in 0 .. r.cap /\ i - 1 < r.len /\ r.len < r.cap + (i - 1)
        BY <1>2, <3>3
      <4>2. Cell(r, i - 1) # r.tail /\ Cell(r, i - 1) \in 0 .. r.cap - 1
        BY <1>2, <4>1, CellIs, CellsDiffer
      <4>3. Contents(r)[i] = r.cells[Cell(r, i - 1)]
        BY <4>1 DEF Contents
      <4> QED
        BY <1>5, <2>2, <3>1, <4>1, <4>2, <4>3
    <3> QED
      BY <3>2, <3>3
  <2> QED
    BY <2>2, <2>3, <2>4, SeqEqual
<1> QED
  BY <1>9, <1>10 DEF p

\* queue_push adds a job at the end of the queue, whatever it has to do for it.
LEMMA Pushes ==
  ASSUME NEW r, RingOK(r), NEW j \in Jobs
  PROVE  RingOK(Pushed(r, j)) /\ Contents(Pushed(r, j)) = Append(Contents(r), j)
<1> DEFINE g == IF r.len = r.cap THEN Grown(r) ELSE r
<1>1. RingOK(g) /\ g.len < g.cap /\ Contents(g) = Contents(r)
  <2>1. CASE r.len = r.cap
    BY <2>1, Grows
  <2>2. CASE r.len # r.cap
    <3>1. r.len < r.cap
      BY <2>2, RingIs
    <3> QED
      BY <2>2, <3>1
  <2> QED
    BY <2>1, <2>2
<1>2. Pushed(r, j) = [g EXCEPT !.cells[g.tail] = j, !.tail = (@ + 1) % g.cap, !.len = @ + 1]
  BY DEF Pushed
<1> HIDE DEF g
<1> QED
  BY <1>1, <1>2, PushesInRoom

\* queue_pop takes the oldest job off.
LEMMA Pops ==
  ASSUME NEW r, RingOK(r), r.len > 0
  PROVE  /\ RingOK(Popped(r)) /\ Contents(r) # <<>>
         /\ Contents(Popped(r)) = Tail(Contents(r))
         /\ r.cells[r.head] = Head(Contents(r))
<1> DEFINE cells == [r.cells EXCEPT ![r.head] = None]
           head == (r.head + 1) % r.cap
           p == Popped(r)
<1>1. p = [r EXCEPT !.cells = cells, !.head = head, !.len = r.len - 1]
  BY DEF Popped
<1>2. /\ r.cap \in Nat \ {0} /\ r.head \in 0 .. r.cap - 1 /\ r.len \in Nat /\ r.len - 1 \in Nat
      /\ r.len \in 0 .. r.cap
      /\ r.tail = Cell(r, r.len)
      /\ r.cells \in [0 .. r.cap - 1 -> Entries]
  BY RingIs
<1>3. head \in 0 .. r.cap - 1
  <2>1. 0 \in 0 .. r.cap - 1
    BY <1>2
  <2> QED
    BY <1>2, <2>1, Turns
<1>4. cells \in [0 .. r.cap - 1 -> Entries]
      /\ \A i \in 0 .. r.cap - 1 : i # r.head => cells[i] = r.cells[i]
  BY <1>2 DEF Entries
<1> HIDE DEF cells, head
<1> DEFINE n == r.len - 1
<1>5. n \in 0 .. r.cap /\ p = [r EXCEPT !.cells = cells, !.head = head, !.len = n]
  BY <1>1, <1>2
<1>6. r \in Rings(r.cap)
  BY DEF RingOK
<1> HIDE DEF p, n
<1>7. p \in Rings(r.cap) /\ p.cells = cells /\ p.cap = r.cap /\ p.head = head /\ p.tail = r.tail /\ p.len = n
  BY <1>3, <1>4, <1>5, <1>6 DEF Rings
<1>8. p.len = r.len - 1
  BY <1>7 DEF n
<1>9. ASSUME NEW i \in 0 .. r.cap - 1
      PROVE  Cell(p, i) = Cell(r, i + 1)
  <2>1. Cell(p, i) = (head + i) % r.cap
    BY <1>7, <1>8 DEF Cell
  <2> QED
    BY <1>2, <2>1, Turns DEF head, Cell
<1>10. RingOK(p)
  <2>1. r.len - 1 \in 0 .. r.cap - 1 /\ (r.len - 1) + 1 = r.len
    BY <1>2
  <2>2. Cell(p, r.len - 1) = Cell(r, r.len)
    BY <1>9, <2>1
  <2> QED
    BY <1>2, <1>7, <1>8, <2>1, <2>2 DEF RingOK
<1>11. Contents(r) \in Seq(Entries) /\ Len(Contents(r)) = r.len
  BY ContentsSeq
<1>12. Contents(r) # <<>>
  BY <1>2, <1>11, EmptySeq
<1>13. Head(Contents(r)) = r.cells[r.head]
  <2>1. Cell(r, 0) = r.head
    BY <1>2, CellIs
  <2>2. Contents(r)[1] = r.cells[Cell(r, 0)]
    BY <1>2 DEF Contents
  <2>3. Head(Contents(r)) = Contents(r)[1]
    BY <1>11, <1>12
  <2> QED
    BY <2>1, <2>2, <2>3
<1>14. Contents(p) = Tail(Contents(r))
  <2>1. /\ Tail(Contents(r)) \in Seq(Entries)
        /\ Len(Tail(Contents(r))) = r.len - 1
        /\ \A i \in 1 .. r.len - 1 : Tail(Contents(r))[i] = Contents(r)[i + 1]
    BY <1>11, <1>12, HeadTailProperties
  <2>2. Contents(p) \in Seq(Entries) /\ Len(Contents(p)) = r.len - 1
    BY <1>7, <1>8, <1>10, ContentsSeq
  <2>3. ASSUME NEW i \in 1 .. r.len - 1
        PROVE  Contents(p)[i] = Tail(Contents(r))[i]
    <3>1. /\ i \in 1 .. r.len /\ i + 1 \in 1 .. r.len /\ i - 1 \in 0 .. r.cap - 1
          /\ (i - 1) + 1 = i /\ (i + 1) - 1 = i
          /\ i \in 0 .. r.cap /\ 0 < i /\ i < r.cap + 0 /\ 0 \in 0 .. r.cap
      BY <1>2
    <3>2. Contents(p)[i] = cells[Cell(p, i - 1)]
      BY <1>7, <1>8 DEF Contents
    <3>3. Cell(p, i - 1) = Cell(r, i)
      BY <1>9, <3>1
    <3>4. Cell(r, i) # r.head /\ Cell(r, i) \in 0 .. r.cap - 1
      <4>1. Cell(r, 0) = r.head
        BY <1>2, CellIs
      <4> QED
        BY <3>1, <4>1, CellIs, CellsDiffer
    <3>5. Contents(r)[i + 1] = r.cells[Cell(r, i)]
      BY <3>1 DEF Contents
    <3> QED
      BY <1>4, <2>1, <3>2, <3>3, <3>4, <3>5
  <2> QED
    BY <2>1, <2>2, <2>3, SeqEqual
<1> QED
  BY <1>10, <1>12, <1>13, <1>14 DEF p

\* The queue that Queued reads out of the ring.
LEMMA QueuedIs ==
  ASSUME NEW r, RingOK(r)
  PROVE  [i \in 1 .. r.len |-> r.cells[(r.head + i - 1) % r.cap]] = Contents(r)
<1>1. r.head \in Nat /\ r.len \in Nat
  BY RingIs
<1>2. \A i \in 1 .. r.len : r.head + i - 1 = r.head + (i - 1)
  BY <1>1
<1> QED
  BY <1>2 DEF Contents, Cell

-----------------------------------------------------------------------------
(* The jobs.                                                                   *)

Busies == {"read", "done", "call"}

\* A worker is at a job from the mutex to the latch, and no two at the same one.
AtWork ==
  /\ pc \in [Workers -> Busies \cup {"check", "asleep", "left"}]
  /\ job \in [Workers -> Entries]
  /\ \A w \in Workers : pc[w] \in Busies <=> job[w] # None
  /\ \A v, w \in Workers : job[v] # None /\ job[v] = job[w] => v = w

\* A job has its number from the counter, and is in one place.
Numbered ==
  /\ next \in Nat \ {0}
  /\ \A w \in Workers : job[w] # None => job[w] < next
  /\ \A j \in finished : j \in Jobs /\ j < next

Apart(s, taken, below) ==
  /\ \A i \in 1 .. Len(s) : s[i] \in Jobs /\ s[i] < below
  /\ \A i, j \in 1 .. Len(s) : s[i] = s[j] => i = j
  /\ \A w \in Workers : \A i \in 1 .. Len(s) : taken[w] # s[i]

PoolInv == RingOK(q) /\ AtWork /\ Numbered /\ Apart(Contents(q), job, next)

\* None is no job.
LEMMA NoneIsNoJob == None \notin Jobs
  BY DEF PoolAssumption

\* A signal and a broadcast wake workers that have no job.
LEMMA Wakes ==
  ASSUME AtWork, pc' \in Signalled \/ pc' = AllWoken, job' = job
  PROVE  AtWork'
<1> DEFINE Pcs == Busies \cup {"check", "asleep", "left"}
<1>1. pc' \in [Workers -> Pcs] /\ \A w \in Workers : pc'[w] \in Busies <=> pc[w] \in Busies
  <2>1. CASE pc' = AllWoken
    BY <2>1 DEF AllWoken, AtWork, Busies
  <2>2. CASE pc' = pc
    BY <2>2 DEF AtWork
  <2>3. CASE \E w \in Workers : pc[w] = "asleep" /\ pc' = [pc EXCEPT ![w] = "check"]
    BY <2>3 DEF AtWork, Busies
  <2>4. pc' \in Signalled => <2>2!1 \/ <2>3!1
    BY DEF Signalled
  <2> QED
    BY <2>1, <2>2, <2>3, <2>4
<1> QED
  BY <1>1 DEF AtWork

LEMMA StartsEmpty == Init => PoolInv
<1> SUFFICES ASSUME Init PROVE PoolInv
  OBVIOUS
<1>1. q = [cells |-> [i \in 0 .. (Cap - 1) |-> None], cap |-> Cap, head |-> 0, tail |-> 0, len |-> 0]
  BY DEF Init
<1>2. 0 \in 0 .. Cap - 1 /\ 0 \in 0 .. Cap /\ Cap \in Nat \ {0}
  BY DEF PoolAssumption
<1>3. (0 + 0) % Cap = 0
  BY <1>2, WrapsSum
<1>4. q.cap = Cap /\ q.len = 0 /\ q.tail = Cell(q, q.len) /\ q \in Rings(Cap)
  BY <1>1, <1>2, <1>3 DEF Cell, Rings, Entries
<1>5. RingOK(q)
  BY <1>2, <1>4 DEF RingOK
<1>6. AtWork
  BY DEF Init, AtWork, Busies, Entries
<1>7. Numbered
  BY DEF Init, Numbered
<1>8. Apart(Contents(q), job, next)
  <2>1. Len(Contents(q)) = 0
    BY <1>4, <1>5, ContentsSeq
  <2> QED
    BY <2>1 DEF Apart
<1> QED
  BY <1>5, <1>6, <1>7, <1>8 DEF PoolInv

\* The job that a worker takes is the oldest, and is nowhere else.
LEMMA TakesOldest ==
  ASSUME PoolInv, NEW w \in Workers, Take(w)
  PROVE  /\ PoolInv' /\ Contents(q) # <<>> /\ job[w] = None
         /\ job' = [job EXCEPT ![w] = Head(Contents(q))] /\ Head(Contents(q)) \in Jobs
         /\ Contents(q') = Tail(Contents(q))
<1> DEFINE s == Contents(q)
           t == Contents(q')
<1>1. RingOK(q) /\ q.len > 0
  <2>1. q.len \in Nat
    BY RingIs DEF PoolInv
  <2> QED
    BY <2>1 DEF PoolInv, Take
<1>2. s \in Seq(Entries)
  BY <1>1, ContentsSeq
<1>3. /\ RingOK(q') /\ s # <<>> /\ t = Tail(s)
      /\ job' = [job EXCEPT ![w] = Head(s)]
  BY <1>1, Pops DEF Take
<1>4. Apart(s, job, next)
  BY DEF PoolInv
<1>5. job[w] = None /\ pc[w] = "check" /\ AtWork
  BY DEF PoolInv, AtWork, Take, Busies
<1> HIDE DEF s, t
<1>6. Len(s) \in Nat \ {0} /\ Head(s) = s[1]
  BY <1>2, <1>3, EmptySeq, HeadTailProperties
<1>7. Head(s) \in Jobs /\ Head(s) < next /\ Head(s) # None
  BY <1>4, <1>6, NoneIsNoJob DEF Apart
<1>8. /\ Len(t) = Len(s) - 1
      /\ \A i \in 1 .. Len(t) : i + 1 \in 1 .. Len(s) /\ i + 1 # 1 /\ t[i] = s[i + 1]
  BY <1>2, <1>3, <1>6, HeadTailProperties
<1>9. AtWork'
  <2>1. \A v \in Workers : job[v] # Head(s)
    BY <1>4, <1>6 DEF Apart
  <2>2. pc' = [pc EXCEPT ![w] = "read"]
    BY DEF Take
  <2>3. Head(s) \in Entries
    BY <1>7 DEF Entries
  <2> QED
    BY <1>3, <1>5, <1>7, <2>1, <2>2, <2>3 DEF AtWork, Busies
<1>10. Numbered'
  BY <1>3, <1>5, <1>7 DEF PoolInv, Numbered, Take, AtWork
<1>11. Apart(t, job', next')
  <2>1. next' = next
    BY DEF Take
  <2>2. \A i \in 1 .. Len(t) : t[i] \in Jobs /\ t[i] < next /\ t[i] # Head(s)
    BY <1>4, <1>6, <1>8 DEF Apart
  <2>3. ASSUME NEW i \in 1 .. Len(t), NEW j \in 1 .. Len(t), t[i] = t[j] PROVE i = j
    <3>1. i + 1 \in 1 .. Len(s) /\ j + 1 \in 1 .. Len(s) /\ s[i + 1] = s[j + 1]
      BY <1>8, <2>3
    <3>2. i + 1 = j + 1
      BY <1>4, <3>1 DEF Apart
    <3> QED
      BY <1>6, <1>8, <3>2
  <2>4. ASSUME NEW v \in Workers, NEW i \in 1 .. Len(t) PROVE job'[v] # t[i]
    <3>1. job[v] # t[i]
      BY <1>4, <1>8 DEF Apart
    <3> QED
      BY <1>3, <1>5, <2>2, <3>1 DEF AtWork
  <2> QED
    BY <2>1, <2>2, <2>3, <2>4 DEF Apart
<1> QED
  BY <1>3, <1>5, <1>7, <1>9, <1>10, <1>11 DEF PoolInv, s, t

\* The job that is submitted has a number no other has, and is the last.
LEMMA AddsLast ==
  ASSUME PoolInv, Submit
  PROVE  PoolInv' /\ next \in Jobs /\ Contents(q') = Append(Contents(q), next)
<1> DEFINE s == Contents(q)
           t == Contents(q')
<1>1. /\ RingOK(q) /\ AtWork /\ Numbered /\ Apart(s, job, next)
      /\ job' = job /\ next' = next + 1 /\ finished' = finished
  BY DEF PoolInv, Submit
<1>2. next \in Jobs
  BY <1>1 DEF Numbered, Submit, PoolAssumption
<1>3. RingOK(q') /\ t = Append(s, next)
  BY <1>1, <1>2, Pushes DEF Submit
<1>4. s \in Seq(Entries) /\ next \in Entries
  BY <1>1, <1>2, ContentsSeq DEF Entries
<1> HIDE DEF s, t
<1>5. /\ Len(s) \in Nat /\ Len(t) = Len(s) + 1
      /\ \A i \in 1 .. Len(s) : t[i] = s[i]
      /\ t[Len(s) + 1] = next
  BY <1>3, <1>4, AppendProperties, LenProperties
<1>6. AtWork'
  BY <1>1, Wakes DEF Submit
<1>7. Numbered'
  BY <1>1 DEF Numbered, AtWork, Entries
<1>8. Apart(t, job', next')
  <2>1. \A i \in 1 .. Len(t) : i = Len(s) + 1 \/ i \in 1 .. Len(s)
    BY <1>5
  <2>2. \A i \in 1 .. Len(s) : t[i] \in Jobs /\ t[i] < next
    BY <1>1, <1>5 DEF Apart
  <2>3. ASSUME NEW i \in 1 .. Len(t) PROVE t[i] \in Jobs /\ t[i] < next'
    BY <1>1, <1>2, <1>5, <2>1, <2>2
  <2>4. ASSUME NEW i \in 1 .. Len(t), NEW j \in 1 .. Len(t), t[i] = t[j] PROVE i = j
    <3>1. CASE i \in 1 .. Len(s) /\ j \in 1 .. Len(s)
      BY <1>1, <1>5, <2>4, <3>1 DEF Apart
    <3>2. CASE i = Len(s) + 1 /\ j \in 1 .. Len(s)
      BY <1>2, <1>5, <2>2, <2>4, <3>2
    <3>3. CASE j = Len(s) + 1 /\ i \in 1 .. Len(s)
      BY <1>2, <1>5, <2>2, <2>4, <3>3
    <3> QED
      BY <2>1, <3>1, <3>2, <3>3
  <2>5. ASSUME NEW w \in Workers, NEW i \in 1 .. Len(t) PROVE job'[w] # t[i]
    <3>1. CASE i \in 1 .. Len(s)
      BY <1>1, <1>5, <3>1 DEF Apart
    <3>2. CASE i = Len(s) + 1
      <4>1. job[w] # next
        BY <1>1, <1>2, NoneIsNoJob DEF Numbered
      <4> QED
        BY <1>1, <1>5, <3>2, <4>1
    <3> QED
      BY <2>1, <3>1, <3>2
  <2> QED
    BY <2>3, <2>4, <2>5 DEF Apart
<1> QED
  BY <1>2, <1>3, <1>6, <1>7, <1>8 DEF PoolInv, s, t

\* The latch of a job is called once: the job is in no other place then.
LEMMA FinishesOnce ==
  ASSUME PoolInv, NEW w \in Workers, Finish(w)
  PROVE  /\ PoolInv' /\ job[w] \in Jobs
         /\ job' = [job EXCEPT ![w] = None]
         /\ \A v \in Workers : v # w => job[v] # job[w]
<1>1. /\ RingOK(q) /\ AtWork /\ Numbered /\ Apart(Contents(q), job, next)
      /\ job' = [job EXCEPT ![w] = None] /\ next' = next /\ q' = q
      /\ finished' = finished \cup {job[w]} /\ pc[w] = "call"
      /\ pc' = [pc EXCEPT ![w] = "check"]
  BY DEF PoolInv, Finish
<1>2. job[w] \in Jobs /\ job[w] < next
  BY <1>1 DEF AtWork, Busies, Entries, Numbered
<1>3. \A v \in Workers : v # w => job[v] # job[w]
  BY <1>1, <1>2, NoneIsNoJob DEF AtWork
<1>4. AtWork'
  BY <1>1 DEF AtWork, Busies, Entries
<1>5. Numbered'
  BY <1>1, <1>2 DEF Numbered, AtWork
<1>6. Apart(Contents(q'), job', next')
  BY <1>1, NoneIsNoJob DEF Apart, AtWork
<1> QED
  BY <1>1, <1>2, <1>3, <1>4, <1>5, <1>6 DEF PoolInv

\* The steps that move no job.
Quiet(w) == Sleep(w) \/ Leave(w) \/ Read(w) \/ TakeGil(w)

Idle == SubmitFails \/ ReleaseGil \/ ResumeGil \/ Shutdown \/ Dropped \/ Joined

LEMMA MovesNoJob ==
  ASSUME PoolInv, Idle \/ (\E w \in Workers : Quiet(w)) \/ UNCHANGED vars
  PROVE  PoolInv' /\ q' = q /\ job' = job /\ finished' = finished
<1>1. q' = q /\ job' = job /\ finished' = finished
  BY DEF Idle, Quiet, SubmitFails, ReleaseGil, ResumeGil, Shutdown, Dropped, Joined,
         Sleep, Leave, Read, TakeGil, vars
<1>2. next' = next \/ next' = next + 1
  BY DEF Idle, Quiet, SubmitFails, ReleaseGil, ResumeGil, Shutdown, Dropped, Joined,
         Sleep, Leave, Read, TakeGil, vars
<1>3. AtWork'
  <2>1. CASE pc' = pc
    BY <1>1, <2>1 DEF PoolInv, AtWork
  <2>2. CASE pc' = AllWoken
    BY <1>1, <2>2, Wakes DEF PoolInv
  <2>3. CASE \E w \in Workers : Quiet(w)
    BY <1>1, <2>3 DEF PoolInv, AtWork, Busies, Quiet, Sleep, Leave, Read, TakeGil
  <2> QED
    BY <2>1, <2>2, <2>3 DEF Idle, SubmitFails, ReleaseGil, ResumeGil, Shutdown, Dropped, Joined, vars
<1>4. next \in Nat \ {0} /\ next' \in Nat \ {0} /\ \A j \in Jobs : j < next => j < next'
  BY <1>2 DEF PoolInv, Numbered
<1>5. Numbered'
  BY <1>1, <1>4 DEF PoolInv, Numbered, AtWork, Entries
<1>6. Apart(Contents(q'), job', next')
  BY <1>1, <1>4 DEF PoolInv, Apart
<1> QED
  BY <1>1, <1>3, <1>5, <1>6 DEF PoolInv

LEMMA Steps ==
  ASSUME [Next]_vars
  PROVE  \/ \E w \in Workers : Take(w) \/ Finish(w)
         \/ Submit
         \/ Idle \/ (\E w \in Workers : Quiet(w)) \/ UNCHANGED vars
  BY DEF Next, Work, Idle, Quiet

\* No job is queued twice, taken by two workers, or queued and taken.
THEOREM JobsAreApart == Spec => []PoolInv
<1>1. Init => PoolInv
  BY StartsEmpty
<1>2. PoolInv /\ [Next]_vars => PoolInv'
  BY Steps, TakesOldest, AddsLast, FinishesOnce, MovesNoJob
<1> QED
  BY <1>1, <1>2, PTL DEF Spec

-----------------------------------------------------------------------------
(* The refinement.                                                             *)

LEMMA QueuedIsContents == PoolInv => Queued = Contents(q)
  BY QueuedIs DEF PoolInv, Queued

LEMMA StartsAsAQueue == Init => Q!Init
<1> SUFFICES ASSUME Init PROVE Q!Init
  OBVIOUS
<1>1. q.len = 0 /\ RingOK(q) /\ Queued = Contents(q)
  BY StartsEmpty, QueuedIsContents DEF PoolInv, Init
<1>2. Queued = <<>>
  BY <1>1, ContentsSeq, EmptySeq
<1>3. Running = {}
  BY DEF Running, Init
<1> QED
  BY <1>2, <1>3 DEF Q!Init, Init

LEMMA StepsAsAQueue ==
  ASSUME PoolInv, PoolInv', [Next]_vars
  PROVE  [Q!Next]_Q!vars
<1>1. Queued = Contents(q) /\ Queued' = Contents(q')
  <2>1. \A r : RingOK(r) => [i \in 1 .. r.len |-> r.cells[(r.head + i - 1) % r.cap]] = Contents(r)
    BY QueuedIs
  <2> QED
    BY <2>1 DEF Queued, PoolInv
<1>2. ASSUME NEW w \in Workers, Take(w) PROVE Q!Start
  <2>1. /\ Contents(q) # <<>> /\ Contents(q') = Tail(Contents(q)) /\ job[w] = None
        /\ job' = [job EXCEPT ![w] = Head(Contents(q))] /\ Head(Contents(q)) \in Jobs
    BY <1>2, TakesOldest
  <2>2. Running' = Running \cup {Head(Contents(q))}
    <3> DEFINE j == Head(Contents(q))
    <3>1. job' = [job EXCEPT ![w] = j] /\ j # None /\ job[w] = None
      BY <2>1, NoneIsNoJob
    <3>2. job \in [Workers -> Entries]
      BY DEF PoolInv, AtWork
    <3> HIDE DEF j
    <3>3. {job'[v] : v \in Workers} \ {None} = ({job[v] : v \in Workers} \ {None}) \cup {j}
      BY <3>1, <3>2
    <3> QED
      BY <3>3 DEF Running, j
  <2>3. finished' = finished /\ stop' = stop
    BY <1>2 DEF Take
  <2> QED
    BY <1>1, <2>1, <2>2, <2>3 DEF Q!Start
<1>3. ASSUME NEW w \in Workers, Finish(w) PROVE \E j \in Jobs : Q!Finish(j)
  <2>1. /\ job[w] \in Jobs /\ job' = [job EXCEPT ![w] = None]
        /\ \A v \in Workers : v # w => job[v] # job[w]
    BY <1>3, FinishesOnce
  <2>2. job \in [Workers -> Entries] /\ job[w] # None
    BY <2>1, NoneIsNoJob DEF PoolInv, AtWork
  <2>3. job[w] \in Running /\ Running' = Running \ {job[w]}
    BY <2>1, <2>2 DEF Running
  <2>4. q' = q /\ finished' = finished \cup {job[w]} /\ stop' = stop
    BY <1>3 DEF Finish
  <2> QED
    BY <1>1, <2>1, <2>3, <2>4 DEF Q!Finish
<1>4. ASSUME Submit PROVE \E j \in Jobs : Q!Accept(j)
  <2>1. next \in Jobs /\ Contents(q') = Append(Contents(q), next)
    BY <1>4, AddsLast
  <2>2. /\ ~stop /\ stop' = stop /\ job' = job /\ finished' = finished
    BY <1>4 DEF Submit
  <2>3. next \notin Running \cup finished
    BY <2>1 DEF PoolInv, Numbered, Running
  <2>4. next \notin {Contents(q)[i] : i \in DOMAIN Contents(q)}
    <3>1. DOMAIN Contents(q) = 1 .. Len(Contents(q))
      BY ContentsSeq, LenProperties DEF PoolInv
    <3> QED
      BY <2>1, <3>1 DEF PoolInv, Apart
  <2>5. Running' = Running
    BY <2>2 DEF Running
  <2> QED
    BY <1>1, <2>1, <2>2, <2>3, <2>4, <2>5 DEF Q!Accept
<1>5. ASSUME Idle \/ (\E w \in Workers : Quiet(w)) \/ UNCHANGED vars
      PROVE  Q!Close \/ UNCHANGED Q!vars
  <2>1. Queued' = Queued /\ Running' = Running /\ finished' = finished
    BY <1>1, <1>5, MovesNoJob DEF Running
  <2>2. stop' = stop \/ stop' = TRUE
    BY <1>5 DEF Idle, Quiet, SubmitFails, ReleaseGil, ResumeGil, Shutdown, Dropped, Joined,
                Sleep, Leave, Read, TakeGil, vars
  <2> QED
    BY <2>1, <2>2 DEF Q!Close, Q!vars
<1> QED
  BY <1>2, <1>3, <1>4, <1>5, Steps DEF Q!Next

\* The ring buffer, its workers and its shut-down are a queue: jobs start in the
\* order they were submitted in, each one once, and none is accepted after stop.
THEOREM PoolIsAQueue == Spec => ImplementsQueue
<1>1. Init => Q!Init
  BY StartsAsAQueue
<1>2. PoolInv /\ PoolInv' /\ [Next]_vars => [Q!Next]_Q!vars
  BY StepsAsAQueue
<1> QED
  BY <1>1, <1>2, JobsAreApart, PTL DEF Spec, ImplementsQueue, Q!Spec
=============================================================================
