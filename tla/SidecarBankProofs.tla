-------------------------- MODULE SidecarBankProofs --------------------------
(* Proofs about SidecarBank: what a kill between any two writes leaves on disk, *)
(* for every corpus, every limit of the bank and any number of sessions.        *)
EXTENDS SidecarBank, SequenceTheorems, TLAPS

Stretches == [from : Int, to : Int]
Slots     == [born : Int, upto : Int]
Files     == {"bank", "slot", "aux", "progress"}
Steps     == [file : Files, op : {"open", "fill", "swap"}]
Corpora   == [idx : Nat, end : Int, next : Nat, stop : BOOLEAN, fresh : BOOLEAN]

\* A file is renamed over the old one right after it has been filled, and only then.
Filled(s, i)  == i > 1 /\ s[i - 1] = [file |-> s[i].file, op |-> "fill"]
Renamed(s, i) == i < Len(s) /\ s[i + 1].op = "swap"
ToRename(e)   == e.op = "fill" /\ e.file \in Through

Orderly(s) ==
    /\ s \in Seq(Steps)
    /\ \A i \in 1..Len(s) : s[i].op = "swap" => s[i].file \in Through /\ Filled(s, i)
    /\ \A i \in 1..Len(s) : ToRename(s[i]) => Renamed(s, i)

\* The saves under way: the first step may be a rename that is due, and then the
\* temporary is whole.
Pending ==
    /\ todo \in Seq(Steps)
    /\ \A i \in 1..Len(todo) :
         todo[i].op = "swap" =>
            /\ todo[i].file \in Through
            /\ IF i = 1 THEN tmp[todo[1].file] \notin {Torn, None} ELSE Filled(todo, i)
    /\ \A i \in 1..Len(todo) : ToRename(todo[i]) => Renamed(todo, i)

\* What is in memory and what is on disk, torn files where they may be torn.
OnDisk ==
    /\ disk \in [bank : Seq(Stretches), slot : Slots \cup {None},
                 aux : {None, Torn, "whole"}, progress : Nat \cup {None, Torn}]
    /\ tmp \in [bank : Seq(Stretches) \cup {None, Torn}, slot : Slots \cup {None, Torn}]

InMemory ==
    /\ live \in Stretches /\ traj \in Stretches
    /\ collected \in Seq(Stretches)
    /\ weights \in Slots
    /\ made \in Int /\ sessions \in Int

FilesInv == OnDisk /\ InMemory /\ Pending /\ corpus \in Corpora

-----------------------------------------------------------------------------
(* The steps of a save.                                                       *)

LEMMA SaveOrderly ==
  ASSUME NEW f \in Files
  PROVE  Orderly(Save(f))
<1> DEFINE o == [file |-> f, op |-> "open"]
           w == [file |-> f, op |-> "fill"]
           r == [file |-> f, op |-> "swap"]
<1>1. o \in Steps /\ w \in Steps /\ r \in Steps
  BY DEF Steps
<1>2. CASE f \in Through
  <2>1. Save(f) = <<o, w, r>>
    BY <1>2 DEF Save
  <2>2. <<o, w, r>> \in Seq(Steps) /\ Len(<<o, w, r>>) = 3
    BY <1>1
  <2>3. \A i \in 1..3 : <<o, w, r>>[i].op = "swap" => i = 3
    OBVIOUS
  <2>4. Filled(<<o, w, r>>, 3) /\ <<o, w, r>>[3].file = f
    BY DEF Filled
  <2>5. \A i \in 1..3 : ToRename(<<o, w, r>>[i]) => i = 2
    BY DEF ToRename
  <2>6. Renamed(<<o, w, r>>, 2)
    BY DEF Renamed
  <2> QED
    BY <1>2, <2>1, <2>2, <2>3, <2>4, <2>5, <2>6 DEF Orderly
<1>3. CASE f \notin Through
  <2>1. Save(f) = <<o, w>>
    BY <1>3 DEF Save
  <2>2. <<o, w>> \in Seq(Steps) /\ Len(<<o, w>>) = 2
    BY <1>1
  <2>3. \A i \in 1..2 : <<o, w>>[i].op # "swap"
    OBVIOUS
  <2>4. \A i \in 1..2 : ~ToRename(<<o, w>>[i])
    BY <1>3 DEF ToRename
  <2> QED
    BY <2>1, <2>2, <2>3, <2>4 DEF Orderly
<1> QED
  BY <1>2, <1>3

LEMMA ConcatOrderly ==
  ASSUME NEW s, NEW t, Orderly(s), Orderly(t)
  PROVE  Orderly(s \o t)
<1> DEFINE c == s \o t
<1>1. /\ c \in Seq(Steps) /\ Len(c) = Len(s) + Len(t)
      /\ \A i \in 1..(Len(s) + Len(t)) : c[i] = IF i <= Len(s) THEN s[i] ELSE t[i - Len(s)]
  BY ConcatProperties DEF Orderly
<1>2. Len(s) \in Nat /\ Len(t) \in Nat
  BY LenProperties DEF Orderly
<1>3. ASSUME NEW i \in 1..Len(c), c[i].op = "swap"
      PROVE  c[i].file \in Through /\ Filled(c, i)
  <2>1. CASE i <= Len(s)
    <3>1. i \in 1..Len(s) /\ c[i] = s[i]
      BY <1>1, <1>2, <2>1
    <3>2. s[i].file \in Through /\ Filled(s, i)
      BY <1>3, <3>1 DEF Orderly
    <3>3. i - 1 \in 1..Len(s) /\ c[i - 1] = s[i - 1]
      BY <1>1, <1>2, <3>1, <3>2 DEF Filled
    <3> QED
      BY <3>1, <3>2, <3>3 DEF Filled
  <2>2. CASE i > Len(s)
    <3>1. i - Len(s) \in 1..Len(t) /\ c[i] = t[i - Len(s)]
      BY <1>1, <1>2, <2>2
    <3>2. t[i - Len(s)].file \in Through /\ Filled(t, i - Len(s))
      BY <1>3, <3>1 DEF Orderly
    <3>3. c[i - 1] = t[i - Len(s) - 1] /\ i > 1
      BY <1>1, <1>2, <3>1, <3>2 DEF Filled
    <3> QED
      BY <3>1, <3>2, <3>3 DEF Filled
  <2> QED
    BY <1>1, <1>2, <2>1, <2>2
<1>4. ASSUME NEW i \in 1..Len(c), ToRename(c[i])
      PROVE  Renamed(c, i)
  <2>1. CASE i <= Len(s)
    <3>1. i \in 1..Len(s) /\ c[i] = s[i]
      BY <1>1, <1>2, <2>1
    <3>2. Renamed(s, i)
      BY <1>4, <3>1 DEF Orderly
    <3>3. i + 1 \in 1..Len(s) /\ c[i + 1] = s[i + 1] /\ i < Len(c)
      BY <1>1, <1>2, <3>1, <3>2 DEF Renamed
    <3> QED
      BY <3>2, <3>3 DEF Renamed
  <2>2. CASE i > Len(s)
    <3>1. i - Len(s) \in 1..Len(t) /\ c[i] = t[i - Len(s)]
      BY <1>1, <1>2, <2>2
    <3>2. Renamed(t, i - Len(s))
      BY <1>4, <3>1 DEF Orderly
    <3>3. i + 1 \in 1..Len(c) /\ c[i + 1] = t[i - Len(s) + 1] /\ i < Len(c)
      BY <1>1, <1>2, <2>2, <3>1, <3>2 DEF Renamed
    <3> QED
      BY <3>2, <3>3 DEF Renamed
  <2> QED
    BY <1>1, <1>2, <2>1, <2>2
<1> QED
  BY <1>1, <1>3, <1>4 DEF Orderly

LEMMA NothingOrderly == Orderly(<<>>)
  BY DEF Orderly

LEMMA PersistOrderly == Orderly(Persist)
<1>1. Orderly(Save("bank")) /\ Orderly(Save("slot")) /\ Orderly(Save("aux"))
  BY SaveOrderly DEF Files
<1>2. Orderly(IF Length(live) >= 2 THEN Save("bank") ELSE <<>>)
  BY <1>1, NothingOrderly
<1> QED
  BY <1>1, <1>2, ConcatOrderly DEF Persist

\* A list of saves that starts now is pending; an empty one too.
LEMMA OrderlyPends ==
  ASSUME Orderly(todo')
  PROVE  Pending'
  BY DEF Orderly, Pending, Filled

\* A step done: the rest is still pending, provided a filled temporary is whole.
LEMMA TailPends ==
  ASSUME Pending, todo # <<>>, todo' = Tail(todo),
         Head(todo).op = "fill" /\ Head(todo).file \in Through
            => tmp'[Head(todo).file] \notin {Torn, None}
  PROVE  Pending'
<1>1. /\ todo' \in Seq(Steps) /\ Len(todo') = Len(todo) - 1
      /\ \A i \in 1..Len(todo') : todo'[i] = todo[i + 1]
      /\ Head(todo) = todo[1] /\ Len(todo) \in Nat /\ Len(todo) > 0
  BY HeadTailProperties DEF Pending
<1>r. ASSUME NEW i \in 1..Len(todo'), ToRename(todo'[i]) PROVE Renamed(todo', i)
  BY <1>1, <1>r DEF Pending, Renamed
<1> SUFFICES ASSUME NEW i \in 1..Len(todo'), todo'[i].op = "swap"
             PROVE  /\ todo'[i].file \in Through
                    /\ IF i = 1 THEN tmp'[todo'[1].file] \notin {Torn, None} ELSE Filled(todo', i)
  BY <1>1, <1>r DEF Pending
<1>2. i + 1 \in 1..Len(todo) /\ todo'[i] = todo[i + 1] /\ i + 1 # 1 /\ (i + 1) - 1 = i
  BY <1>1
<1>3. todo'[i].file \in Through /\ todo[i] = [file |-> todo'[i].file, op |-> "fill"]
  BY <1>2 DEF Pending, Filled
<1>4. CASE i = 1
  BY <1>1, <1>3, <1>4
<1>5. CASE i # 1
  BY <1>1, <1>3, <1>5 DEF Filled
<1> QED
  BY <1>4, <1>5

\* A step dropped with the rest of its file.
LEMMA RestPends ==
  ASSUME Pending, todo # <<>>, Head(todo).op = "fill", NEW n \in {2, 3},
         n = 3 <=> Head(todo).file \in Through,
         todo' = SubSeq(todo, n, Len(todo)), tmp' = tmp
  PROVE  Pending'
<1>1. Head(todo) = todo[1] /\ Len(todo) \in Nat /\ Len(todo) > 0 /\ todo[1] \in Steps
  BY DEF Pending
<1>2. n \in Int /\ n > 1
  OBVIOUS
<1>3. \A i \in n..Len(todo) : todo[i] \in Steps
  BY <1>2 DEF Pending
<1>4. /\ todo' \in Seq(Steps)
      /\ Len(todo') = IF n <= Len(todo) THEN Len(todo) - n + 1 ELSE 0
      /\ \A i \in 1..(Len(todo) - n + 1) : todo'[i] = todo[n + i - 1]
  BY <1>1, <1>2, <1>3, SubSeqProperties
<1>r. ASSUME NEW i \in 1..Len(todo'), ToRename(todo'[i]) PROVE Renamed(todo', i)
  <2>1. n + i - 1 \in 1..Len(todo) /\ todo'[i] = todo[n + i - 1] /\ i \in Nat
    BY <1>1, <1>2, <1>4
  <2>2. Renamed(todo, n + i - 1)
    BY <1>r, <2>1 DEF Pending
  <2>3. i + 1 \in 1..(Len(todo) - n + 1) /\ n + (i + 1) - 1 = (n + i - 1) + 1 /\ i < Len(todo')
    BY <1>1, <1>2, <1>4, <2>1, <2>2 DEF Renamed
  <2> QED
    BY <1>4, <2>2, <2>3 DEF Renamed
<1> SUFFICES ASSUME NEW i \in 1..Len(todo'), todo'[i].op = "swap"
             PROVE  /\ todo'[i].file \in Through
                    /\ IF i = 1 THEN tmp'[todo'[1].file] \notin {Torn, None} ELSE Filled(todo', i)
  BY <1>4, <1>r DEF Pending
<1> DEFINE k == n + i - 1
<1>5. k \in 1..Len(todo) /\ k # 1 /\ todo'[i] = todo[k] /\ i \in Nat
  BY <1>1, <1>2, <1>4
<1>6. todo[k].file \in Through /\ Filled(todo, k)
  BY <1>5 DEF Pending
<1>7. CASE i = 1
  <2>1. k = n
    BY <1>2, <1>7
  <2>2. CASE n = 2
    BY <1>1, <1>2, <1>6, <2>1, <2>2 DEF Filled
  <2>3. CASE n = 3
    <3>1. todo[2] = [file |-> todo[3].file, op |-> "fill"] /\ 3 \in 1..Len(todo)
      BY <1>5, <1>6, <2>1, <2>3 DEF Filled
    <3>2. todo[2].op = "swap"
      BY <1>1, <1>2, <2>3 DEF Pending, ToRename, Renamed
    <3> QED
      BY <3>1, <3>2
  <2> QED
    BY <1>2, <2>2, <2>3
<1>8. CASE i # 1
  <2>1. k - 1 = n + (i - 1) - 1 /\ i - 1 \in 1..(Len(todo) - n + 1)
    BY <1>2, <1>4, <1>5, <1>8
  <2>2. todo'[i - 1] = todo[k - 1]
    BY <1>4, <2>1
  <2> QED
    BY <1>5, <1>6, <1>8, <2>2 DEF Filled
<1> QED
  BY <1>7, <1>8

LEMMA SaveLength ==
  ASSUME NEW f \in Files
  PROVE  Len(Save(f)) \in {2, 3} /\ (Len(Save(f)) = 3 <=> f \in Through)
<1>1. CASE f \in Through
  BY <1>1 DEF Save
<1>2. CASE f \notin Through
  BY <1>2 DEF Save
<1> QED
  BY <1>1, <1>2
-----------------------------------------------------------------------------
(* What is written.                                                           *)

LEMMA MergedTyped ==
  ASSUME NEW a \in Seq(Stretches), NEW b \in Seq(Stretches)
  PROVE  Merged(a, b) \in Seq(Stretches)
<1> DEFINE c == a \o b
           m == IF Len(c) > MaxTraj THEN Len(c) - MaxTraj + 1 ELSE 1
<1>1. c \in Seq(Stretches) /\ Len(c) \in Nat
  BY ConcatProperties, LenProperties
<1>2. m \in Int /\ m >= 1
  BY <1>1, BankAssumption DEF BankAssumption
<1>3. \A i \in m..Len(c) : c[i] \in Stretches
  BY <1>1, <1>2, ElementOfSeq
<1> HIDE DEF m, c
<1>4. SubSeq(c, m, Len(c)) \in Seq(Stretches)
  BY <1>1, <1>2, <1>3, SubSeqProperties
<1> QED
  BY <1>4 DEF Merged, m, c

LEMMA ExtendedTyped ==
  ASSUME NEW s \in Stretches, made \in Int
  PROVE  Extended(s) \in Stretches
  BY DEF Extended, Stretches

LEMMA EmptyTyped == Empty \in Stretches
  BY DEF Empty, Stretches

\* Only a torn file is torn: what a save writes is not.
LEMMA ContentWhole ==
  ASSUME FilesInv, NEW f \in Files
  PROVE  /\ f = "bank" => Content(f) \in Seq(Stretches)
         /\ f = "slot" => Content(f) \in Slots
         /\ f = "aux" => Content(f) = "whole"
         /\ f = "progress" => Content(f) \in Nat
<1>1. CASE f = "bank"
  <2>1. <<live>> \in Seq(Stretches) /\ collected \in Seq(Stretches) /\ disk.bank \in Seq(Stretches)
    BY DEF FilesInv, OnDisk, InMemory
  <2>2. Content(f) = Merged(disk.bank, IF proc = "fit" THEN collected ELSE <<live>>)
    BY <1>1 DEF Content
  <2> QED
    BY <1>1, <2>1, <2>2, MergedTyped
<1>2. CASE f = "slot"
  BY <1>2 DEF Content, FilesInv, InMemory
<1>3. CASE f = "aux"
  BY <1>3 DEF Content
<1>4. CASE f = "progress"
  BY <1>4 DEF Content, FilesInv, Corpora
<1> QED
  BY <1>1, <1>2, <1>3, <1>4 DEF Files

LEMMA TornIsNoContent ==
  Torn \notin Seq(Stretches) /\ Torn \notin Slots /\ Torn # None
  BY BankAssumption DEF BankAssumption, Stretches, Slots

-----------------------------------------------------------------------------
(* One lemma per kind of action.                                              *)

LEMMA FilesInit == Init => FilesInv
<1> SUFFICES ASSUME Init PROVE FilesInv
  OBVIOUS
<1>1. OnDisk
  BY DEF Init, OnDisk
<1>2. InMemory
  BY EmptyTyped DEF Init, InMemory, Slots
<1>3. Pending
  BY DEF Init, Pending
<1>4. corpus \in Corpora
  BY DEF Init, Corpora
<1> QED
  BY <1>1, <1>2, <1>3, <1>4 DEF FilesInv

\* The step at the head of the list.
LEMMA HeadIsStep ==
  ASSUME Pending, todo # <<>>
  PROVE  Head(todo) \in Steps /\ Head(todo).file \in Files
  BY HeadTailProperties DEF Pending, Steps

LEMMA OpenKeepsFiles ==
  ASSUME FilesInv, OpenFile
  PROVE  FilesInv'
<1> DEFINE f == Head(todo).file
<1>1. todo # <<>> /\ Head(todo).op = "open" /\ f \in Files
  BY HeadIsStep DEF FilesInv, OpenFile, Doing
<1>2. OnDisk'
  <2>1. CASE f \in Through
    BY <1>1, <2>1 DEF FilesInv, OnDisk, OpenFile, Written, Through
  <2>2. CASE f \notin Through
    BY <1>1, <2>2 DEF FilesInv, OnDisk, OpenFile, Written, Through, Files
  <2> QED
    BY <2>1, <2>2
<1>3. Pending'
  BY <1>1, TailPends DEF FilesInv, OpenFile
<1> QED
  BY <1>2, <1>3 DEF FilesInv, InMemory, OpenFile

LEMMA FlushedTyped ==
  ASSUME InMemory
  PROVE  Flushed \in Stretches
  BY EmptyTyped DEF InMemory, Flushed

LEMMA FillKeepsFiles ==
  ASSUME FilesInv, FillFile
  PROVE  FilesInv'
<1> DEFINE f == Head(todo).file
<1>1. todo # <<>> /\ Head(todo).op = "fill" /\ f \in Files
  BY HeadIsStep DEF FilesInv, FillFile, Doing
<1>2. OnDisk' /\ (f \in Through => tmp'[f] \notin {Torn, None})
  <2>1. CASE f = "bank"
    <3>1. Content(f) \in Seq(Stretches)
      BY <1>1, <2>1, ContentWhole
    <3>2. tmp' = [tmp EXCEPT !["bank"] = Content(f)] /\ disk' = disk
      BY <2>1 DEF FillFile, Written, Through
    <3>3. Content(f) # Torn
      BY <3>1, TornIsNoContent
    <3>4. Content(f) # None
      BY <3>1, BankAssumption DEF BankAssumption, Stretches
    <3> QED
      BY <2>1, <3>1, <3>2, <3>3, <3>4 DEF FilesInv, OnDisk
  <2>2. CASE f = "slot"
    <3>1. Content(f) \in Slots
      BY <1>1, <2>2, ContentWhole
    <3>2. tmp' = [tmp EXCEPT !["slot"] = Content(f)] /\ disk' = disk
      BY <2>2 DEF FillFile, Written, Through
    <3>3. Content(f) # Torn
      BY <3>1, TornIsNoContent
    <3>4. Content(f) # None
      BY <3>1, BankAssumption DEF BankAssumption, Slots
    <3> QED
      BY <2>2, <3>1, <3>2, <3>3, <3>4 DEF FilesInv, OnDisk
  <2>3. CASE f = "aux"
    <3>1. Content(f) = "whole"
      BY <1>1, <2>3, ContentWhole
    <3>2. disk' = [disk EXCEPT !["aux"] = "whole"] /\ tmp' = tmp /\ f \notin Through
      BY <2>3, <3>1 DEF FillFile, Written, Through
    <3> QED
      BY <3>2 DEF FilesInv, OnDisk
  <2>4. CASE f = "progress"
    <3>1. Content(f) \in Nat
      BY <1>1, <2>4, ContentWhole
    <3>2. disk' = [disk EXCEPT !["progress"] = Content(f)] /\ tmp' = tmp /\ f \notin Through
      BY <2>4 DEF FillFile, Written, Through
    <3> QED
      BY <3>1, <3>2 DEF FilesInv, OnDisk
  <2> QED
    BY <1>1, <2>1, <2>2, <2>3, <2>4 DEF Files
<1>3. Pending'
  BY <1>1, <1>2, TailPends DEF FilesInv, FillFile
<1>4. live' \in Stretches
  BY FlushedTyped DEF FilesInv, InMemory, FillFile
<1> QED
  BY <1>2, <1>3, <1>4 DEF FilesInv, InMemory, FillFile

LEMMA SwapKeepsFiles ==
  ASSUME FilesInv, SwapFile
  PROVE  FilesInv'
<1> DEFINE f == Head(todo).file
<1>1. todo # <<>> /\ Head(todo).op = "swap" /\ f \in Files
  BY HeadIsStep DEF FilesInv, SwapFile, Doing
<1>2. f \in Through /\ tmp[f] \notin {Torn, None}
  <2>1. Head(todo) = todo[1] /\ 1 \in 1..Len(todo)
    BY <1>1 DEF FilesInv, Pending
  <2> QED
    BY <1>1, <2>1 DEF FilesInv, Pending
<1>3. disk' = [disk EXCEPT ![f] = tmp[f]] /\ tmp' = [tmp EXCEPT ![f] = None]
  BY DEF SwapFile
<1>4. OnDisk'
  <2>1. CASE f = "bank"
    BY <1>2, <1>3, <2>1 DEF FilesInv, OnDisk
  <2>2. CASE f = "slot"
    BY <1>2, <1>3, <2>2 DEF FilesInv, OnDisk
  <2> QED
    BY <1>2, <2>1, <2>2 DEF Through
<1>5. Pending'
  BY <1>1, TailPends DEF FilesInv, SwapFile
<1>6. live' \in Stretches
  BY FlushedTyped DEF FilesInv, InMemory, SwapFile
<1> QED
  BY <1>4, <1>5, <1>6 DEF FilesInv, InMemory, SwapFile

LEMMA FailureKeepsFiles ==
  ASSUME FilesInv, SaveFails
  PROVE  FilesInv'
<1> DEFINE f == Head(todo).file
<1>1. todo # <<>> /\ Head(todo).op = "fill" /\ f \in Files
  BY HeadIsStep DEF FilesInv, SaveFails, Doing
<1>2. Len(Save(f)) \in {2, 3} /\ (Len(Save(f)) = 3 <=> f \in Through)
  BY <1>1, SaveLength
<1>3. todo' = SubSeq(todo, Len(Save(f)), Len(todo)) /\ tmp' = tmp /\ disk' = disk
  BY DEF SaveFails
<1>4. Pending'
  BY <1>1, <1>2, <1>3, RestPends DEF FilesInv
<1>5. live' \in Stretches
  BY FlushedTyped DEF FilesInv, InMemory, SaveFails
<1> QED
  BY <1>3, <1>4, <1>5 DEF FilesInv, OnDisk, InMemory, SaveFails

\* Actions that write no file and leave the saves under way as they are.
LEMMA PendingKept ==
  ASSUME Pending, UNCHANGED <<todo, tmp>>
  PROVE  Pending'
  BY DEF Pending

LEMMA DiskKept ==
  ASSUME OnDisk, UNCHANGED <<disk, tmp>>
  PROVE  OnDisk'
  BY DEF OnDisk

LEMMA LoadedTyped ==
  ASSUME FilesInv
  PROVE  Loaded \in Slots
  BY DEF FilesInv, OnDisk, InMemory, Loaded, Slots
LEMMA CorporaTyped ==
  ASSUME NEW c \in Corpora, NEW n \in Nat
  PROVE  /\ [c EXCEPT !.stop = TRUE] \in Corpora
         /\ [c EXCEPT !.next = n, !.idx = @ + 1] \in Corpora
         /\ [idx |-> 0, end |-> 0, next |-> 0, stop |-> FALSE, fresh |-> FALSE] \in Corpora
<1>1. c.idx \in Nat /\ c.end \in Int /\ c.next \in Nat /\ c.fresh \in BOOLEAN /\ c.idx + 1 \in Nat
  BY DEF Corpora
<1>2. [c EXCEPT !.stop = TRUE] \in Corpora
  BY <1>1 DEF Corpora
<1>3. [c EXCEPT !.next = n, !.idx = @ + 1] \in Corpora
  BY <1>1 DEF Corpora
<1>4. [idx |-> 0, end |-> 0, next |-> 0, stop |-> FALSE, fresh |-> FALSE] \in Corpora
  BY DEF Corpora
<1> QED
  BY <1>2, <1>3, <1>4

\* What is kept of a stretch that has become too long.
LEMMA KeptTyped ==
  ASSUME NEW s \in Stretches
  PROVE  [s EXCEPT !.from = s.to - MemKeep + 1] \in Stretches
<1>1. MemKeep \in Int
  BY BankAssumption DEF BankAssumption
<1>2. s.to - MemKeep + 1 \in Int /\ s.to \in Int
  BY <1>1 DEF Stretches
<1> QED
  BY <1>2 DEF Stretches

LEMMA QuietKeepsFiles ==
  ASSUME FilesInv,
         Serve \/ LiveToken \/ Interrupt \/ PromptStarts \/ PromptToken \/ Closed
  PROVE  FilesInv'
<1>1. UNCHANGED <<todo, disk, tmp>>
  BY DEF Serve, LiveToken, Interrupt, PromptStarts, PromptToken, Closed
<1>2. OnDisk' /\ Pending'
  BY <1>1, DiskKept, PendingKept DEF FilesInv
<1>3. corpus' \in Corpora
  <2>1. corpus' = corpus \/ corpus' = [corpus EXCEPT !.stop = TRUE]
        \/ corpus' = [idx |-> 0, end |-> 0, next |-> 0, stop |-> FALSE, fresh |-> FALSE]
    BY DEF Serve, LiveToken, Interrupt, PromptStarts, PromptToken, Closed
  <2> QED
    BY <2>1, CorporaTyped DEF FilesInv
<1>4. InMemory'
  <2> USE DEF FilesInv, InMemory
  <2>1. CASE Serve
    BY <2>1, LoadedTyped DEF Serve, Starts
  <2>2. CASE LiveToken
    <3>1. Extended(live) \in Stretches
      BY ExtendedTyped
    <3>2. [Extended(live) EXCEPT !.from = Extended(live).to - MemKeep + 1] \in Stretches
      BY <3>1, KeptTyped
    <3>3. live' \in {Extended(live), [Extended(live) EXCEPT !.from = Extended(live).to - MemKeep + 1]}
      BY <2>2 DEF LiveToken
    <3>4. live' \in Stretches
      BY <3>1, <3>2, <3>3
    <3> QED
      BY <2>2, <3>4 DEF LiveToken
  <2>3. CASE PromptToken
    BY <2>3, ExtendedTyped DEF PromptToken
  <2>4. CASE Closed
    BY <2>4 DEF Closed, Slots
  <2>5. CASE Interrupt \/ PromptStarts
    BY <2>5 DEF Interrupt, PromptStarts
  <2> QED
    BY <2>1, <2>2, <2>3, <2>4, <2>5
<1> QED
  BY <1>2, <1>3, <1>4 DEF FilesInv

LEMMA PretrainKeepsFiles ==
  ASSUME FilesInv, NEW fresh \in BOOLEAN, NEW end \in 1..Prompts, Pretrain(fresh, end)
  PROVE  FilesInv'
<1>1. OnDisk'
  BY DEF FilesInv, OnDisk, Pretrain
<1>2. Pending'
  BY PendingKept DEF FilesInv, Pretrain
<1>3. InMemory'
  BY LoadedTyped DEF FilesInv, InMemory, Pretrain, Starts
<1>4. Progress \in Nat
  BY DEF FilesInv, OnDisk, Progress
<1>5. corpus' \in Corpora
  BY <1>4 DEF Pretrain, Corpora
<1> QED
  BY <1>1, <1>2, <1>3, <1>5 DEF FilesInv

LEMMA KillKeepsFiles ==
  ASSUME FilesInv, Kill
  PROVE  FilesInv'
<1>1. OnDisk'
  BY DiskKept DEF FilesInv, Kill
<1>2. Pending'
  BY DEF Kill, Pending
<1>3. InMemory' /\ corpus' \in Corpora
  BY EmptyTyped DEF FilesInv, InMemory, Kill, Slots, Corpora
<1> QED
  BY <1>1, <1>2, <1>3 DEF FilesInv

\* The last frame of the data a fit is given.
LEMMA LastTyped ==
  ASSUME NEW s \in Seq(Stretches), s # <<>>
  PROVE  Last(s).to \in Int
<1>1. Len(s) \in 1..Len(s)
  BY EmptySeq, LenProperties
<1>2. s[Len(s)] \in Stretches
  BY <1>1, ElementOfSeq
<1> QED
  BY <1>2 DEF Last, Stretches

LEMMA SavingKeepsFiles ==
  ASSUME FilesInv,
         \/ LivePersist \/ PromptSkipped \/ PromptEnds \/ PromptRecorded
         \/ TooFew \/ FitStarts \/ FitOnly \/ FitTrains \/ FitEnds
  PROVE  FilesInv'
<1>1. Orderly(todo')
  <2>1. todo' \in {Persist, Save("progress"), Save("bank")}
    BY DEF LivePersist, PromptSkipped, PromptEnds, PromptRecorded, TooFew, FitStarts, FitOnly,
           FitTrains, FitEnds, BeforeFit
  <2> QED
    BY <2>1, PersistOrderly, SaveOrderly DEF Files
<1>2. Pending'
  BY <1>1, OrderlyPends
<1>3. OnDisk'
  <2>1. CASE FitEnds
    BY <2>1 DEF FilesInv, OnDisk, FitEnds
  <2>2. CASE ~FitEnds
    BY <2>2, DiskKept DEF FilesInv, LivePersist, PromptSkipped, PromptEnds, PromptRecorded, TooFew,
           FitStarts, FitOnly, FitTrains
  <2> QED
    BY <2>1, <2>2
<1>4. corpus' \in Corpora
  <2>1. \/ corpus' = corpus
        \/ corpus' = [corpus EXCEPT !.next = corpus.idx + 1, !.idx = @ + 1]
        \/ corpus' = [corpus EXCEPT !.next = ResumeAt(corpus), !.idx = @ + 1]
    BY DEF LivePersist, PromptSkipped, PromptEnds, PromptRecorded, TooFew, FitStarts, FitOnly,
           FitTrains, FitEnds
  <2>2. corpus \in Corpora /\ ResumeAt(corpus) \in Nat /\ corpus.idx + 1 \in Nat
    BY DEF FilesInv, Corpora, ResumeAt
  <2> QED
    BY <2>1, <2>2, CorporaTyped
<1>5. InMemory'
  <2>1. CASE LivePersist
    BY <2>1, EmptyTyped DEF FilesInv, InMemory, LivePersist
  <2>2. CASE PromptEnds
    <3>1. Append(collected, traj) \in Seq(Stretches)
      BY AppendProperties DEF FilesInv, InMemory
    <3> QED
      BY <2>2, <3>1, EmptyTyped DEF FilesInv, InMemory, PromptEnds
  <2>3. CASE FitTrains
    <3> DEFINE data == IF collected = <<>> THEN disk.bank ELSE collected
    <3>1. data \in Seq(Stretches)
      BY DEF FilesInv, OnDisk, InMemory
    <3>2. data # <<>> => Last(data).to \in Int
      BY <3>1, LastTyped
    <3>3. weights' = [weights EXCEPT !.upto = IF data # <<>> /\ Last(data).to > @ THEN Last(data).to ELSE @]
      BY <2>3 DEF FitTrains
    <3> HIDE DEF data
    <3>4. weights' \in Slots
      BY <3>2, <3>3 DEF FilesInv, InMemory, Slots
    <3> QED
      BY <2>3, <3>4 DEF FilesInv, InMemory, FitTrains
  <2>4. CASE FitOnly
    BY <2>4, LoadedTyped DEF FilesInv, InMemory, FitOnly, Starts
  <2>5. CASE PromptSkipped \/ PromptRecorded \/ TooFew \/ FitStarts \/ FitEnds
    BY <2>5 DEF FilesInv, InMemory, PromptSkipped, PromptRecorded, TooFew, FitStarts, FitEnds
  <2> QED
    BY <2>1, <2>2, <2>3, <2>4, <2>5
<1> QED
  BY <1>2, <1>3, <1>4, <1>5 DEF FilesInv

LEMMA FilesStep == FilesInv /\ [Next]_vars => FilesInv'
<1> SUFFICES ASSUME FilesInv, [Next]_vars PROVE FilesInv'
  OBVIOUS
<1>1. CASE OpenFile \/ FillFile \/ SwapFile \/ SaveFails
  BY <1>1, OpenKeepsFiles, FillKeepsFiles, SwapKeepsFiles, FailureKeepsFiles
<1>2. CASE Kill
  BY <1>2, KillKeepsFiles
<1>3. CASE Serve \/ LiveToken \/ Interrupt \/ PromptStarts \/ PromptToken \/ Closed
  BY <1>3, QuietKeepsFiles
<1>4. CASE \E fresh \in BOOLEAN, end \in 1..Prompts : Pretrain(fresh, end)
  BY <1>4, PretrainKeepsFiles
<1>5. CASE \/ LivePersist \/ PromptSkipped \/ PromptEnds \/ PromptRecorded
           \/ TooFew \/ FitStarts \/ FitOnly \/ FitTrains \/ FitEnds
  BY <1>5, SavingKeepsFiles
<1>6. CASE UNCHANGED vars
  BY <1>6 DEF vars, FilesInv, OnDisk, InMemory, Pending
<1> QED
  BY <1>1, <1>2, <1>3, <1>4, <1>5, <1>6 DEF Next

LEMMA FilesAlways == Spec => []FilesInv
  BY FilesInit, FilesStep, PTL DEF Spec

\* Whenever the process is killed, in the middle of a save or of a failed one, the
\* bank and the slot on disk are the old file or the new one (save_bank, save).
THEOREM BankAndSlotNeverTorn == Spec => []FilesWhole
<1>1. FilesInv => FilesWhole
  BY TornIsNoContent DEF FilesInv, OnDisk, FilesWhole
<1> QED
  BY <1>1, FilesAlways, PTL

-----------------------------------------------------------------------------
(* Progress.                                                                  *)

Done(n) == \A p \in 0..(n - 1) : p \in finished

\* What a session has behind it: the prompts before the one it is at, that one
\* too once it has been decoded to its end, and what it will record.
ProgressInv ==
    /\ Done(Progress)
    /\ Done(corpus.next)
    /\ proc \in {"prompt", "ended"} \/ (proc = "between" /\ ~corpus.stop) => Done(corpus.idx)
    /\ proc = "ended" /\ ~corpus.stop => corpus.idx \in finished

LEMMA ProgressInit == Init => ProgressInv
  BY DEF Init, ProgressInv, Done, Progress

LEMMA DoneNext ==
  ASSUME NEW n \in Nat, Done(n), n \in finished
  PROVE  Done(n + 1)
  BY DEF Done

LEMMA ProgressStep == FilesInv /\ ProgressInv /\ [Next]_vars => ProgressInv'
<1> SUFFICES ASSUME FilesInv, ProgressInv, [Next]_vars PROVE ProgressInv'
  OBVIOUS
<1>t. corpus.idx \in Nat /\ corpus.next \in Nat /\ Progress \in Nat /\ corpus \in Corpora
  BY DEF FilesInv, Corpora, OnDisk, Progress
<1>1. CASE OpenFile \/ SwapFile \/ SaveFails
  <2>1. disk'.progress = disk.progress \/ disk'.progress = Torn
    <3>1. CASE OpenFile
      BY <3>1 DEF FilesInv, OnDisk, OpenFile, Written
    <3>2. CASE SwapFile
      <4>1. Head(todo) = todo[1] /\ 1 \in 1..Len(todo) /\ Head(todo).op = "swap"
        BY <3>2 DEF FilesInv, Pending, SwapFile, Doing
      <4>2. Head(todo).file \in Through
        BY <4>1 DEF FilesInv, Pending
      <4> QED
        BY <3>2, <4>2 DEF FilesInv, OnDisk, SwapFile, Through
    <3>3. CASE SaveFails
      BY <3>3 DEF SaveFails
    <3> QED
      BY <1>1, <3>1, <3>2, <3>3
  <2>2. Done(Progress)'
    BY <1>1, <2>1 DEF ProgressInv, Done, Progress, OpenFile, SwapFile, SaveFails
  <2> QED
    BY <1>1, <2>2 DEF ProgressInv, Done, OpenFile, SwapFile, SaveFails
<1>2. CASE FillFile
  <2>1. disk'.progress = disk.progress \/ disk'.progress = corpus.next
    BY <1>2 DEF FilesInv, OnDisk, FillFile, Written, Content
  <2>2. Done(Progress)'
    BY <1>2, <2>1 DEF ProgressInv, Done, Progress, FillFile
  <2> QED
    BY <1>2, <2>2 DEF ProgressInv, Done, FillFile
<1>3. CASE Kill \/ Closed
  BY <1>3 DEF ProgressInv, Done, Progress, Kill, Closed
<1>4. CASE Serve \/ LiveToken \/ LivePersist \/ PromptToken
  BY <1>4 DEF ProgressInv, Done, Progress, Serve, Starts, LiveToken, LivePersist, PromptToken
<1>5. CASE Interrupt
  BY <1>5, <1>t DEF ProgressInv, Done, Progress, Interrupt, Corpora
<1>6. CASE PromptStarts
  BY <1>6 DEF ProgressInv, Done, Progress, PromptStarts, More
<1>7. CASE PromptSkipped
  BY <1>7, <1>t DEF ProgressInv, Done, Progress, PromptSkipped, More, Corpora
<1>8. CASE PromptEnds
  BY <1>8 DEF ProgressInv, Done, Progress, PromptEnds
<1>9. CASE PromptRecorded
  <2>1. Done(corpus.idx) /\ (~corpus.stop => Done(corpus.idx + 1))
    BY <1>9, <1>t, DoneNext DEF ProgressInv, PromptRecorded
  <2> QED
    BY <1>9, <1>t, <2>1 DEF ProgressInv, Done, Progress, PromptRecorded, ResumeAt, Corpora
<1>10. CASE TooFew \/ FitStarts \/ FitOnly \/ FitTrains
  BY <1>10 DEF ProgressInv, Done, Progress, TooFew, FitStarts, FitOnly, FitTrains
<1>11. CASE FitEnds
  <2>1. disk'.progress = disk.progress \/ disk'.progress = None
    BY <1>11 DEF FilesInv, OnDisk, FitEnds
  <2> QED
    BY <1>11, <2>1 DEF ProgressInv, Done, Progress, FitEnds
<1>12. CASE \E fresh \in BOOLEAN, end \in 1..Prompts : Pretrain(fresh, end)
  <2> PICK fresh \in BOOLEAN, end \in 1..Prompts : Pretrain(fresh, end)
    BY <1>12
  <2>1. disk'.progress = disk.progress \/ disk'.progress = None
    BY DEF FilesInv, OnDisk, Pretrain
  <2>2. corpus'.idx \in {0, Progress} /\ corpus'.next = 0 /\ proc' = "between" /\ finished' = finished
    BY DEF Pretrain
  <2> QED
    BY <2>1, <2>2 DEF ProgressInv, Done, Progress
<1>13. CASE UNCHANGED vars
  BY <1>13 DEF vars, ProgressInv, Done, Progress
<1> QED
  BY <1>1, <1>2, <1>3, <1>4, <1>5, <1>6, <1>7, <1>8, <1>9, <1>10, <1>11, <1>12, <1>13 DEF Next

\* An interrupted session is resumed at the prompt it was cut short in, over any
\* sequence of interrupts, kills and failed saves (_save_progress, main).
THEOREM NoPromptSkipped == Spec => []ProgressFinished
<1>1. ProgressInv => ProgressFinished
  BY DEF ProgressInv, Done, ProgressFinished
<1> QED
  BY <1>1, FilesAlways, ProgressInit, ProgressStep, PTL DEF Spec

-----------------------------------------------------------------------------
(* The bank and what follows it.                                              *)

Proper(s) == s.from <= s.to /\ s.to <= made
Before(s, x) == \A i \in 1..Len(s) : s[i].to < x.from
Ordered(s) ==
    /\ \A i \in 1..Len(s) : Proper(s[i])
    /\ \A i, j \in 1..Len(s) : i < j => s[i].to < s[j].from

\* A list of steps renames the bank last of the bank's steps.
SwapOfBank == [file |-> "bank", op |-> "swap"]
Once(s) == \A i, j \in 1..Len(s) : s[i] = SwapOfBank /\ i < j => s[j].file # "bank"
NoBank(s) == \A i \in 1..Len(s) : s[i].file # "bank"
BankDue == \E i \in 1..Len(todo) : todo[i] = SwapOfBank

\* The saves of the bank that are under way: of a live stretch worth it, or of
\* the fit's data; and what the temporary holds when it is to be renamed.
Saving ==
    /\ Once(todo)
    /\ NoBank(todo) \/ proc = "fit" \/ (proc = "live" /\ Length(live) >= 2)
    /\ todo # <<>> /\ Head(todo) = SwapOfBank => tmp.bank = Content("bank")

\* In memory is what the bank has not, in order; until the fit has saved it.
Followed ==
    /\ Ordered(disk.bank) /\ Ordered(collected)
    /\ proc # "fit" \/ BankDue => \A j \in 1..Len(collected) : Before(disk.bank, collected[j])
    /\ live # Empty => Proper(live) /\ Before(disk.bank, live)
    /\ traj # Empty => Proper(traj) /\ Before(disk.bank, traj) /\ Before(collected, traj)

\* What each kind of session has in memory.
Sessions ==
    /\ live # Empty => proc = "live"
    /\ traj # Empty => proc = "prompt"
    /\ proc \in {"down", "live"} => collected = <<>>
    /\ proc = "down" => todo = <<>>

OrderInv == Followed /\ Sessions /\ Saving

\* The data of a fit is saved or its save is under way; no weights were fitted to
\* later frames than those of the bank.
Reaches(n) == disk.bank # <<>> /\ n <= Last(disk.bank).to
Fitted(w) == w.upto > 0 => Reaches(w.upto)
FitInv ==
    /\ proc = "fit" /\ ~BankDue /\ collected # <<>> => Reaches(Last(collected).to)
    /\ Fitted(weights)
    /\ disk.slot \notin {Torn, None} => Fitted(disk.slot)
    /\ tmp.slot \notin {Torn, None} => Fitted(tmp.slot)

\* The sequences that are banked one after another.
LEMMA ConcatOrdered ==
  ASSUME NEW a \in Seq(Stretches), NEW b \in Seq(Stretches), Ordered(a), Ordered(b),
         \A j \in 1..Len(b) : Before(a, b[j])
  PROVE  Ordered(a \o b)
<1> DEFINE c == a \o b
<1>1. /\ Len(a) \in Nat /\ Len(b) \in Nat /\ Len(c) = Len(a) + Len(b)
      /\ \A i \in 1..(Len(a) + Len(b)) : c[i] = IF i <= Len(a) THEN a[i] ELSE b[i - Len(a)]
  BY LenProperties, ConcatProperties
<1> HIDE DEF c
<1>2. ASSUME NEW i \in 1..Len(c)
      PROVE  Proper(c[i])
  <2>1. CASE i <= Len(a)
    <3>1. i \in 1..Len(a) /\ c[i] = a[i]
      BY <1>1, <2>1
    <3> QED
      BY <3>1 DEF Ordered
  <2>2. CASE ~(i <= Len(a))
    <3>1. i - Len(a) \in 1..Len(b) /\ c[i] = b[i - Len(a)]
      BY <1>1, <2>2
    <3> QED
      BY <3>1 DEF Ordered
  <2> QED
    BY <2>1, <2>2
<1>3. ASSUME NEW i \in 1..Len(c), NEW j \in 1..Len(c), i < j
      PROVE  c[i].to < c[j].from
  <2>1. CASE j <= Len(a)
    <3>1. i \in 1..Len(a) /\ j \in 1..Len(a) /\ c[i] = a[i] /\ c[j] = a[j]
      BY <1>1, <1>3, <2>1
    <3> QED
      BY <1>3, <3>1 DEF Ordered
  <2>2. CASE i <= Len(a) /\ ~(j <= Len(a))
    <3>1. i \in 1..Len(a) /\ j - Len(a) \in 1..Len(b) /\ c[i] = a[i] /\ c[j] = b[j - Len(a)]
      BY <1>1, <2>2
    <3> QED
      BY <3>1 DEF Before
  <2>3. CASE ~(i <= Len(a))
    <3>1. /\ i - Len(a) \in 1..Len(b) /\ j - Len(a) \in 1..Len(b) /\ i - Len(a) < j - Len(a)
          /\ c[i] = b[i - Len(a)] /\ c[j] = b[j - Len(a)]
      BY <1>1, <1>3, <2>3
    <3> QED
      BY <3>1 DEF Ordered
  <2> QED
    BY <1>1, <1>3, <2>1, <2>2, <2>3
<1> QED
  BY <1>2, <1>3 DEF Ordered, c

\* merge_trajectories keeps the newest: the end of what it is given.
LEMMA MergedIs ==
  ASSUME NEW a \in Seq(Stretches), NEW b \in Seq(Stretches)
  PROVE  \E d \in Nat :
           /\ d = 0 \/ d < Len(a \o b)
           /\ Merged(a, b) \in Seq(Stretches) /\ Len(Merged(a, b)) = Len(a \o b) - d
           /\ \A i \in 1..(Len(a \o b) - d) : Merged(a, b)[i] = (a \o b)[i + d]
<1> DEFINE c == a \o b
           m == IF Len(c) > MaxTraj THEN Len(c) - MaxTraj + 1 ELSE 1
<1>1. c \in Seq(Stretches) /\ Len(c) \in Nat
  BY ConcatProperties, LenProperties
<1>2. m \in Int /\ m >= 1 /\ (m = 1 \/ m <= Len(c))
  BY <1>1, BankAssumption DEF BankAssumption
<1>3. \A i \in m..Len(c) : c[i] \in Stretches
  BY <1>1, <1>2, ElementOfSeq
<1>4. Merged(a, b) = SubSeq(c, m, Len(c))
  BY DEF Merged
<1> HIDE DEF m, c
<1>5. /\ SubSeq(c, m, Len(c)) \in Seq(Stretches)
      /\ Len(SubSeq(c, m, Len(c))) = IF m <= Len(c) THEN Len(c) - m + 1 ELSE 0
      /\ \A i \in 1..(Len(c) - m + 1) : SubSeq(c, m, Len(c))[i] = c[m + i - 1]
  BY <1>1, <1>2, <1>3, SubSeqProperties
<1> DEFINE d == m - 1
<1>6. /\ d \in Nat /\ (d = 0 \/ d < Len(c)) /\ Len(c) - m + 1 = Len(c) - d
      /\ (m <= Len(c) \/ Len(c) - d = 0)
  BY <1>1, <1>2
<1>7. \A i \in 1..(Len(c) - d) : m + i - 1 = i + d
  BY <1>1, <1>2
<1>8. /\ Len(SubSeq(c, m, Len(c))) = Len(c) - d
      /\ \A i \in 1..(Len(c) - d) : SubSeq(c, m, Len(c))[i] = c[i + d]
  BY <1>5, <1>6, <1>7
<1> HIDE DEF d
<1> QED
  BY <1>4, <1>5, <1>6, <1>8 DEF c

LEMMA MergedOrdered ==
  ASSUME NEW a \in Seq(Stretches), NEW b \in Seq(Stretches), Ordered(a \o b)
  PROVE  Ordered(Merged(a, b))
<1> DEFINE c == a \o b  r == Merged(a, b)
<1>1. PICK d \in Nat : /\ r \in Seq(Stretches) /\ Len(r) = Len(c) - d
                       /\ \A i \in 1..(Len(c) - d) : r[i] = c[i + d]
  BY MergedIs
<1>2. Len(c) \in Nat /\ Ordered(c)
  BY ConcatProperties, LenProperties
<1> HIDE DEF c, r
<1>3. \A i \in 1..Len(r) : r[i] = c[i + d] /\ i + d \in 1..Len(c)
  BY <1>1, <1>2
<1>4. Ordered(r)
  <2>1. \A i \in 1..Len(r) : Proper(r[i])
    BY <1>2, <1>3 DEF Ordered
  <2>2. \A i, j \in 1..Len(r) : i < j => i + d < j + d
    BY <1>1
  <2>3. \A i, j \in 1..Len(r) : i < j => r[i].to < r[j].from
    BY <1>2, <1>3, <2>2 DEF Ordered
  <2> QED
    BY <2>1, <2>3 DEF Ordered
<1> QED
  BY <1>4 DEF r

\* The last of what is kept is the last of what was added, or else of what there was.
LEMMA MergedLast ==
  ASSUME NEW a \in Seq(Stretches), NEW b \in Seq(Stretches)
  PROVE  /\ b # <<>> => Merged(a, b) # <<>> /\ Last(Merged(a, b)) = Last(b)
         /\ b = <<>> /\ a # <<>> => Merged(a, b) # <<>> /\ Last(Merged(a, b)) = Last(a)
<1> DEFINE c == a \o b  r == Merged(a, b)
<1>1. PICK d \in Nat : /\ d = 0 \/ d < Len(c)
                       /\ r \in Seq(Stretches) /\ Len(r) = Len(c) - d
                       /\ \A i \in 1..(Len(c) - d) : r[i] = c[i + d]
  BY MergedIs
<1>2. /\ Len(a) \in Nat /\ Len(b) \in Nat /\ Len(c) = Len(a) + Len(b)
      /\ \A i \in 1..(Len(a) + Len(b)) : c[i] = IF i <= Len(a) THEN a[i] ELSE b[i - Len(a)]
  BY LenProperties, ConcatProperties
<1>3. (a # <<>> => Len(a) > 0) /\ (b # <<>> => Len(b) > 0) /\ (b = <<>> => Len(b) = 0)
  BY <1>2, EmptySeq
<1> HIDE DEF c, r
<1>4. Len(c) > 0 => r # <<>> /\ r[Len(r)] = c[Len(c)]
  <2> SUFFICES ASSUME Len(c) > 0
               PROVE  r # <<>> /\ r[Len(r)] = c[Len(c)]
    OBVIOUS
  <2>1. Len(r) > 0 /\ Len(r) \in 1..(Len(c) - d) /\ Len(r) + d = Len(c)
    BY <1>1, <1>2
  <2>2. r[Len(r)] = c[Len(r) + d]
    BY <1>1, <2>1
  <2> QED
    BY <2>1, <2>2
<1>5. Len(b) > 0 => c[Len(c)] = b[Len(b)]
  <2> SUFFICES ASSUME Len(b) > 0
               PROVE  c[Len(c)] = b[Len(b)]
    OBVIOUS
  <2>1. Len(c) \in 1..(Len(a) + Len(b)) /\ ~(Len(c) <= Len(a)) /\ Len(c) - Len(a) = Len(b)
    BY <1>2
  <2> QED
    BY <1>2, <2>1
<1>6. Len(b) = 0 /\ Len(a) > 0 => c[Len(c)] = a[Len(a)]
  <2> SUFFICES ASSUME Len(b) = 0, Len(a) > 0
               PROVE  c[Len(c)] = a[Len(a)]
    OBVIOUS
  <2>1. Len(c) = Len(a) /\ Len(c) \in 1..(Len(a) + Len(b)) /\ Len(c) <= Len(a)
    BY <1>2
  <2> QED
    BY <1>2, <2>1
<1>7. /\ b # <<>> => r # <<>> /\ Last(r) = Last(b)
      /\ b = <<>> /\ a # <<>> => r # <<>> /\ Last(r) = Last(a)
  BY <1>2, <1>3, <1>4, <1>5, <1>6 DEF Last
<1> QED
  BY <1>7 DEF r

\* A sequence that was in order stays so when a frame is made.
LEMMA OrderedStays ==
  ASSUME NEW s \in Seq(Stretches), Ordered(s), made \in Int, made' \in {made, made + 1}
  PROVE  /\ \A i \in 1..Len(s) : s[i].from <= s[i].to /\ s[i].to <= made' /\ s[i].to \in Int
         /\ \A i, j \in 1..Len(s) : i < j => s[i].to < s[j].from
         /\ \A i \in 1..Len(s) : s[i].to < made + 1
<1>1. \A i \in 1..Len(s) : s[i].to \in Int /\ s[i].from <= s[i].to /\ s[i].to <= made
  <2>1. \A i \in 1..Len(s) : s[i] \in Stretches
    BY ElementOfSeq
  <2> QED
    BY <2>1 DEF Ordered, Proper, Stretches
<1>2. \A n \in Int : n <= made => n <= made' /\ n < made + 1
  OBVIOUS
<1> QED
  BY <1>1, <1>2 DEF Ordered, Proper

-----------------------------------------------------------------------------
(* The steps of the saves under way.                                          *)

\* The end of a list of steps has no step of the bank that the list has not.
LEMMA RestOnce ==
  ASSUME NEW s \in Seq(Steps), NEW t \in Seq(Steps), NEW d \in Nat,
         Len(t) = Len(s) - d, \A i \in 1..Len(t) : t[i] = s[i + d]
  PROVE  /\ Once(s) => Once(t)
         /\ \A i \in 1..Len(t) : \E j \in 1..Len(s) : t[i] = s[j]
         /\ Once(s) /\ d > 0 /\ s[1] = SwapOfBank => NoBank(t)
         /\ Once(s) /\ d > 1 /\ s[2] = SwapOfBank => NoBank(t)
         /\ \A k \in 1..Len(s) : k > d => \E i \in 1..Len(t) : t[i] = s[k]
<1>1. Len(s) \in Nat /\ Len(t) \in Nat
  BY LenProperties
<1>2. \A i \in 1..Len(t) : i + d \in 1..Len(s)
  BY <1>1
<1>3. Once(s) => Once(t)
  <2>1. \A i, j \in 1..Len(t) : i < j => i + d < j + d
    BY <1>1
  <2> QED
    BY <1>2, <2>1 DEF Once, NoBank
<1>4. Once(s) /\ d > 0 /\ s[1] = SwapOfBank => NoBank(t)
  <2>1. d > 0 => \A i \in 1..Len(t) : 1 < i + d /\ 1 \in 1..Len(s)
    BY <1>1
  <2> QED
    BY <1>2, <2>1 DEF Once, NoBank
<1>5. Once(s) /\ d > 1 /\ s[2] = SwapOfBank => NoBank(t)
  <2>1. d > 1 => \A i \in 1..Len(t) : 2 < i + d /\ 2 \in 1..Len(s)
    BY <1>1
  <2> QED
    BY <1>2, <2>1 DEF Once, NoBank
<1>6. ASSUME NEW k \in 1..Len(s), k > d
      PROVE  \E i \in 1..Len(t) : t[i] = s[k]
  <2>1. k - d \in 1..Len(t) /\ (k - d) + d = k
    BY <1>1, <1>6
  <2> QED
    BY <2>1
<1> QED
  BY <1>2, <1>3, <1>4, <1>5, <1>6

LEMMA TailOfSteps ==
  ASSUME Pending, todo # <<>>, todo' = Tail(todo)
  PROVE  /\ todo' \in Seq(Steps) /\ Len(todo') = Len(todo) - 1
         /\ \A i \in 1..Len(todo') : todo'[i] = todo[i + 1]
         /\ Head(todo) = todo[1] /\ 1 \in 1..Len(todo)
         /\ todo' # <<>> /\ Head(todo').op = "swap" =>
              Head(todo) = [file |-> Head(todo').file, op |-> "fill"]
<1>1. /\ todo' \in Seq(Steps) /\ Len(todo') = Len(todo) - 1
      /\ \A i \in 1..Len(todo') : todo'[i] = todo[i + 1]
      /\ Head(todo) = todo[1] /\ Len(todo) \in Nat /\ Len(todo) > 0
  BY HeadTailProperties DEF Pending
<1>2. ASSUME todo' # <<>>, Head(todo').op = "swap"
      PROVE  Head(todo) = [file |-> Head(todo').file, op |-> "fill"]
  <2>1. Len(todo') > 0 /\ Head(todo') = todo'[1]
    BY <1>1, <1>2, EmptySeq
  <2>2. 2 \in 1..Len(todo) /\ todo'[1] = todo[2]
    BY <1>1, <2>1
  <2>3. Filled(todo, 2)
    BY <1>2, <2>1, <2>2 DEF Pending
  <2> QED
    BY <1>1, <2>1, <2>2, <2>3 DEF Filled
<1> QED
  BY <1>1, <1>2

\* A failed save leaves out what was left of it: one step, or two with a rename.
LEMMA RestOfSteps ==
  ASSUME Pending, todo # <<>>, Head(todo).op = "fill", NEW n \in {2, 3},
         n = 3 <=> Head(todo).file \in Through, todo' = SubSeq(todo, n, Len(todo))
  PROVE  /\ todo' \in Seq(Steps) /\ Len(todo') = Len(todo) - (n - 1)
         /\ \A i \in 1..Len(todo') : todo'[i] = todo[i + (n - 1)]
         /\ Head(todo) = todo[1] /\ 1 \in 1..Len(todo)
         /\ n = 3 => todo[2] = [file |-> Head(todo).file, op |-> "swap"]
         /\ todo' # <<>> => Head(todo').op # "swap"
<1>1. Head(todo) = todo[1] /\ Len(todo) \in Nat /\ Len(todo) > 0 /\ todo \in Seq(Steps)
      /\ \A i \in 1..Len(todo) : todo[i] \in Steps
  BY DEF Pending
<1>2. n = 3 => todo[2] = [file |-> Head(todo).file, op |-> "swap"] /\ 2 \in 1..Len(todo)
  <2> SUFFICES ASSUME n = 3
               PROVE  todo[2] = [file |-> Head(todo).file, op |-> "swap"] /\ 2 \in 1..Len(todo)
    OBVIOUS
  <2>1. Renamed(todo, 1)
    BY <1>1 DEF Pending, ToRename
  <2>2. 2 \in 1..Len(todo) /\ todo[2].op = "swap" /\ todo[2] \in Steps
    BY <1>1, <2>1 DEF Renamed
  <2>3. todo[1] = [file |-> todo[2].file, op |-> "fill"]
    BY <2>2 DEF Pending, Filled
  <2> QED
    BY <1>1, <2>2, <2>3 DEF Steps
<1>3. n \in Int /\ n <= Len(todo) + 1 /\ \A i \in n..Len(todo) : todo[i] \in Steps
  <2>1. n <= Len(todo) + 1
    BY <1>1, <1>2
  <2>2. \A i \in n..Len(todo) : i \in 1..Len(todo)
    BY <1>1
  <2> QED
    BY <1>1, <2>1, <2>2
<1>4. /\ todo' \in Seq(Steps)
      /\ Len(todo') = IF n <= Len(todo) THEN Len(todo) - n + 1 ELSE 0
      /\ \A i \in 1..(Len(todo) - n + 1) : todo'[i] = todo[n + i - 1]
  BY <1>1, <1>3, SubSeqProperties
<1>5. Len(todo') = Len(todo) - (n - 1) /\ \A i \in 1..Len(todo') : todo'[i] = todo[i + (n - 1)]
  <2>1. Len(todo') = Len(todo) - (n - 1) /\ Len(todo) - n + 1 = Len(todo) - (n - 1)
    BY <1>1, <1>3, <1>4
  <2>2. \A i \in 1..(Len(todo) - n + 1) : n + i - 1 = i + (n - 1)
    BY <1>1, <1>3
  <2> QED
    BY <1>4, <2>1, <2>2
<1>6. ASSUME todo' # <<>>, Head(todo').op = "swap"
      PROVE  FALSE
  <2>1. Len(todo') \in Nat /\ Len(todo') > 0 /\ Head(todo') = todo'[1]
    BY <1>4, <1>6, EmptySeq, LenProperties
  <2>2. n \in 1..Len(todo) /\ todo[n].op = "swap" /\ n > 1
    BY <1>1, <1>3, <1>5, <1>6, <2>1
  <2>3. todo[n - 1] = [file |-> todo[n].file, op |-> "fill"] /\ todo[n].file \in Through
    BY <2>2 DEF Pending, Filled
  <2>4. CASE n = 2
    BY <1>1, <2>3, <2>4
  <2>5. CASE n = 3
    BY <1>2, <2>3, <2>5
  <2> QED
    BY <2>4, <2>5
<1> QED
  BY <1>1, <1>2, <1>4, <1>5, <1>6

\* The steps that a save starts with.
LEMMA SaveIs ==
  ASSUME NEW f \in Files
  PROVE  /\ Save(f) \in Seq(Steps) /\ Len(Save(f)) \in 2..3
         /\ \A i \in 1..Len(Save(f)) : Save(f)[i].file = f
         /\ Save(f)[1] = [file |-> f, op |-> "open"]
         /\ \A i \in 1..Len(Save(f)) : Save(f)[i].op = "swap" => i = 3
<1>1. CASE f \in Through
  BY <1>1 DEF Save, Steps
<1>2. CASE f \notin Through
  BY <1>2 DEF Save, Steps
<1> QED
  BY <1>1, <1>2

LEMMA OnceThenOthers ==
  ASSUME NEW s \in Seq(Steps), NEW t \in Seq(Steps), Once(s),
         NoBank(t)
  PROVE  /\ Once(s \o t) /\ s \o t \in Seq(Steps)
         /\ NoBank(s) => NoBank(s \o t)
         /\ s # <<>> => (s \o t)[1] = s[1]
<1> DEFINE c == s \o t
<1>1. /\ Len(s) \in Nat /\ Len(t) \in Nat /\ Len(c) = Len(s) + Len(t) /\ c \in Seq(Steps)
      /\ \A i \in 1..(Len(s) + Len(t)) : c[i] = IF i <= Len(s) THEN s[i] ELSE t[i - Len(s)]
  BY LenProperties, ConcatProperties
<1> HIDE DEF c
<1>2. \A i \in 1..Len(c) : \/ i \in 1..Len(s) /\ c[i] = s[i]
                           \/ i > Len(s) /\ c[i].file # "bank"
  <2> SUFFICES ASSUME NEW i \in 1..Len(c)
               PROVE  \/ i \in 1..Len(s) /\ c[i] = s[i]
                      \/ i > Len(s) /\ c[i].file # "bank"
    OBVIOUS
  <2>1. CASE i <= Len(s)
    BY <1>1, <2>1
  <2>2. CASE i > Len(s)
    <3>1. i - Len(s) \in 1..Len(t) /\ c[i] = t[i - Len(s)]
      BY <1>1, <2>2
    <3> QED
      BY <2>2, <3>1 DEF NoBank
  <2> QED
    BY <1>1, <2>1, <2>2
<1>3. Once(c)
  BY <1>2 DEF Once, NoBank
<1>4. s # <<>> => c[1] = s[1]
  <2>1. s # <<>> => 1 \in 1..(Len(s) + Len(t)) /\ 1 <= Len(s)
    BY <1>1, EmptySeq
  <2> QED
    BY <1>1, <2>1
<1> QED
  BY <1>1, <1>2, <1>3, <1>4 DEF c, NoBank

LEMMA SaveOnce ==
  ASSUME NEW f \in Files
  PROVE  Once(Save(f))
<1> DEFINE s == Save(f)
<1>1. Len(s) \in 2..3 /\ \A i \in 1..Len(s) : s[i].op = "swap" => i = 3
  BY SaveIs
<1> HIDE DEF s
<1> SUFFICES ASSUME NEW i \in 1..Len(s), NEW j \in 1..Len(s), s[i] = SwapOfBank, i < j
             PROVE  FALSE
  BY DEF Once, s
<1>2. i = 3
  BY <1>1 DEF SwapOfBank
<1> QED
  BY <1>1, <1>2

LEMMA PersistIs ==
  ASSUME live \in Stretches
  PROVE  /\ Persist \in Seq(Steps) /\ Once(Persist)
         /\ Length(live) < 2 => NoBank(Persist)
         /\ Persist # <<>> /\ Persist[1].op = "open"
<1> DEFINE first == IF Length(live) >= 2 THEN Save("bank") ELSE <<>>
<1>1. /\ Save("slot") \in Seq(Steps) /\ Save("aux") \in Seq(Steps) /\ Save("bank") \in Seq(Steps)
      /\ NoBank(Save("slot"))
      /\ NoBank(Save("aux"))
      /\ Save("slot")[1].op = "open" /\ Save("slot") # <<>>
      /\ Save("bank")[1].op = "open" /\ Save("bank") # <<>>
  BY SaveIs DEF Files, NoBank
<1>2. Once(Save("bank"))
  BY SaveOnce DEF Files
<1>3. Once(<<>>) /\ <<>> \in Seq(Steps) /\ NoBank(<<>>)
  BY DEF Once, NoBank
<1>4. first \in Seq(Steps) /\ Once(first)
      /\ (Length(live) < 2 => NoBank(first))
  <2>1. Length(live) \in Int
    BY DEF Length, Stretches
  <2>2. CASE Length(live) >= 2
    BY <1>1, <1>2, <2>1, <2>2
  <2>3. CASE ~(Length(live) >= 2)
    BY <1>3, <2>3
  <2> QED
    BY <2>2, <2>3
<1>5. first = <<>> \/ (first # <<>> /\ first[1].op = "open")
  BY <1>1
<1> HIDE DEF first
<1> DEFINE two == first \o Save("slot")
<1>6. /\ two \in Seq(Steps) /\ Once(two)
      /\ Length(live) < 2 => NoBank(two)
      /\ first # <<>> => two[1] = first[1]
  BY <1>1, <1>4, OnceThenOthers
<1>7. first = <<>> => two = Save("slot")
  BY <1>1, ConcatEmptySeq
<1>8. two # <<>> /\ two[1].op = "open"
  BY <1>1, <1>4, <1>5, <1>6, <1>7, ConcatEqualIffEmpty
<1> HIDE DEF two
<1>9. Persist = two \o Save("aux")
  BY DEF Persist, first, two
<1>10. Persist # <<>>
  BY <1>1, <1>6, <1>8, <1>9, ConcatEqualIffEmpty
<1> QED
  BY <1>1, <1>6, <1>8, <1>9, <1>10, OnceThenOthers

-----------------------------------------------------------------------------
(* Each step keeps the bank in order.                                         *)

BankInv == FilesInv /\ OrderInv /\ FitInv

LEMMA BankInit == Init => OrderInv /\ FitInv
<1> SUFFICES ASSUME Init
             PROVE  OrderInv /\ FitInv
  OBVIOUS
<1>1. Followed
  BY DEF Init, Followed, Ordered
<1>2. Sessions
  BY DEF Init, Sessions
<1>3. Saving
  BY DEF Init, Saving, Once, NoBank
<1>4. FitInv
  BY DEF Init, FitInv, Fitted
<1> QED
  BY <1>1, <1>2, <1>3, <1>4 DEF OrderInv

\* A step of a save that does not rename the bank: what was due still is.
LEMMA StillDue ==
  ASSUME Pending, Once(todo), todo # <<>>, todo' = Tail(todo)
  PROVE  /\ Once(todo') /\ (NoBank(todo) => NoBank(todo'))
         /\ Head(todo) # SwapOfBank => (BankDue' <=> BankDue)
         /\ Head(todo) = SwapOfBank => NoBank(todo') /\ ~BankDue'
<1>1. /\ todo \in Seq(Steps) /\ todo' \in Seq(Steps) /\ Len(todo') = Len(todo) - 1
      /\ \A i \in 1..Len(todo') : todo'[i] = todo[i + 1]
      /\ Head(todo) = todo[1] /\ 1 \in 1..Len(todo) /\ 1 \in Nat
  BY TailOfSteps DEF Pending
<1>2. /\ Once(todo')
      /\ \A i \in 1..Len(todo') : \E j \in 1..Len(todo) : todo'[i] = todo[j]
      /\ todo[1] = SwapOfBank => NoBank(todo')
      /\ \A k \in 1..Len(todo) : k > 1 => \E i \in 1..Len(todo') : todo'[i] = todo[k]
  <2> DEFINE t == todo'
  <2>1. /\ todo \in Seq(Steps) /\ t \in Seq(Steps) /\ 1 \in Nat /\ 1 > 0 /\ Len(t) = Len(todo) - 1
        /\ \A i \in 1..Len(t) : t[i] = todo[i + 1]
    BY <1>1
  <2> HIDE DEF t
  <2>2. /\ Once(todo) => Once(t)
        /\ \A i \in 1..Len(t) : \E j \in 1..Len(todo) : t[i] = todo[j]
        /\ Once(todo) /\ 1 > 0 /\ todo[1] = SwapOfBank => NoBank(t)
        /\ \A k \in 1..Len(todo) : k > 1 => \E i \in 1..Len(t) : t[i] = todo[k]
    BY <2>1, RestOnce
  <2> QED
    BY <2>1, <2>2 DEF t
<1>3. NoBank(todo) => NoBank(todo')
  BY <1>2 DEF NoBank
<1>4. Head(todo) # SwapOfBank => (BankDue' <=> BankDue)
  <2>1. BankDue' => BankDue
    BY <1>2 DEF BankDue
  <2>2. ASSUME BankDue, Head(todo) # SwapOfBank
        PROVE  BankDue'
    <3>1. PICK k \in 1..Len(todo) : todo[k] = SwapOfBank
      BY <2>2 DEF BankDue
    <3>2. k > 1
      BY <1>1, <2>2, <3>1
    <3> QED
      BY <1>2, <3>1, <3>2 DEF BankDue
  <2> QED
    BY <2>1, <2>2
<1>5. NoBank(todo') => ~BankDue'
  BY DEF NoBank, BankDue, SwapOfBank
<1> QED
  BY <1>1, <1>2, <1>3, <1>4, <1>5

LEMMA WriteKeepsBank ==
  ASSUME BankInv, OpenFile \/ FillFile
  PROVE  OrderInv' /\ FitInv'
<1> USE DEF BankInv, OrderInv
<1>1. /\ todo # <<>> /\ todo' = Tail(todo) /\ Head(todo).op \in {"open", "fill"}
      /\ Head(todo).op = "open" <=> OpenFile /\ ~FillFile
      /\ UNCHANGED <<proc, traj, collected, weights, corpus, made>>
  BY DEF OpenFile, FillFile, Doing
<1>2. live' = live
  BY DEF OpenFile, FillFile, Through
<1>3. /\ Pending /\ todo \in Seq(Steps) /\ todo' \in Seq(Steps)
      /\ Head(todo).file \in Files
      /\ todo' # <<>> /\ Head(todo').op = "swap" =>
           Head(todo) = [file |-> Head(todo').file, op |-> "fill"]
  BY <1>1, TailOfSteps, HeadIsStep DEF FilesInv, Pending
<1>4. /\ Once(todo') /\ (NoBank(todo) => NoBank(todo')) /\ (BankDue' <=> BankDue)
  BY <1>1, <1>3, StillDue DEF Saving, SwapOfBank
<1>5. /\ disk'.bank = disk.bank /\ disk'.slot = disk.slot
      /\ tmp'.slot \in {tmp.slot, Torn, weights}
  <2>1. \E c : Written(Head(todo).file, c) /\ (c = Torn \/ (Head(todo).file = "slot" => c = weights))
    BY DEF OpenFile, FillFile, Content
  <2>2. PICK c : Written(Head(todo).file, c) /\ (c = Torn \/ (Head(todo).file = "slot" => c = weights))
    BY <2>1
  <2> QED
    BY <1>3, <2>2 DEF Written, Through, FilesInv, OnDisk
<1>6. Followed'
  BY <1>1, <1>2, <1>4, <1>5 DEF Followed, Ordered, Proper, Before
<1>7. Sessions'
  BY <1>1, <1>2 DEF Sessions
<1>8. Saving'
  <2>1. ASSUME todo' # <<>>, Head(todo') = SwapOfBank
        PROVE  tmp'.bank = Content("bank")'
    <3>1. Head(todo) = [file |-> "bank", op |-> "fill"]
      BY <1>3, <2>1 DEF SwapOfBank
    <3>2. Written("bank", Content("bank"))
      BY <1>1, <3>1 DEF FillFile, OpenFile, Doing
    <3>3. tmp'.bank = Content("bank")
      BY <3>2 DEF Written, Through, FilesInv, OnDisk
    <3> QED
      BY <1>1, <1>2, <1>5, <3>3 DEF Content
  <2>2. Once(todo)' /\ (NoBank(todo)' \/ proc' = "fit" \/ (proc' = "live" /\ Length(live)' >= 2))
    BY <1>1, <1>2, <1>4 DEF Saving, Length
  <2> QED
    BY <2>1, <2>2 DEF Saving
<1>9. FitInv'
  BY <1>1, <1>4, <1>5 DEF FitInv, Fitted, Reaches
<1> QED
  BY <1>6, <1>7, <1>8, <1>9

\* A list that starts with an opening: nothing is to be renamed yet.
LEMMA StartedSaving ==
  ASSUME Once(todo'), todo' = <<>> \/ todo'[1].op = "open",
         NoBank(todo') \/ proc' = "fit" \/ (proc' = "live" /\ Length(live') >= 2)
  PROVE  Saving'
<1>1. todo' = <<>> \/ Head(todo') # SwapOfBank
  BY DEF SwapOfBank
<1> QED
  BY <1>1 DEF Saving, Length

\* Bank and slot stay: so do the weights' frames.
LEMMA FittedStays ==
  ASSUME FitInv, disk'.bank = disk.bank,
         disk'.slot \in {disk.slot, None}, tmp'.slot = tmp.slot, Fitted(weights') \/ weights'.upto = 0
  PROVE  /\ Fitted(weights)' /\ (disk'.slot \notin {Torn, None} => Fitted(disk.slot)')
         /\ tmp'.slot \notin {Torn, None} => Fitted(tmp.slot)'
<1>1. 0 > 0 <=> FALSE
  OBVIOUS
<1> QED
  BY <1>1 DEF FitInv, Fitted, Reaches

\* Nothing is open when a session starts, and nothing is in memory.
LEMMA StartKeepsBank ==
  ASSUME BankInv, NEW fresh \in BOOLEAN, NEW end \in 1..Prompts,
         Serve \/ Pretrain(fresh, end) \/ FitOnly
  PROVE  OrderInv' /\ FitInv'
<1> USE DEF BankInv, OrderInv
<1>1. /\ proc = "down" /\ proc' \in {"live", "between", "fit"} /\ weights' = Loaded
      /\ disk'.bank = disk.bank /\ disk'.slot \in {disk.slot, None} /\ tmp' = tmp
      /\ UNCHANGED <<live, traj, collected, made>>
  BY DEF Serve, Pretrain, FitOnly, Starts, FilesInv, OnDisk
<1>2. collected = <<>> /\ live = Empty /\ traj = Empty /\ todo = <<>>
  BY <1>1 DEF Sessions
<1>3. Followed'
  BY <1>1, <1>2 DEF Followed, Ordered, Proper, Before
<1>4. Sessions'
  BY <1>1, <1>2 DEF Sessions
<1>5. Saving'
  <2>1. CASE FitOnly
    BY <2>1, SaveIs, SaveOnce, StartedSaving DEF FitOnly, BeforeFit, Files
  <2>2. CASE ~FitOnly
    <3>1. todo' = <<>>
      BY <1>2, <2>2 DEF Serve, Pretrain
    <3> QED
      BY <3>1, StartedSaving DEF Once, NoBank
  <2> QED
    BY <2>1, <2>2
<1>6. Fitted(weights') \/ weights'.upto = 0
  BY <1>1 DEF Loaded, FitInv
<1>7. FitInv'
  BY <1>1, <1>2, <1>6, FittedStays DEF FitInv
<1> QED
  BY <1>3, <1>4, <1>5, <1>7

LEMMA StopKeepsBank ==
  ASSUME BankInv, Kill \/ Closed
  PROVE  OrderInv' /\ FitInv'
<1> USE DEF BankInv, OrderInv
<1>1. /\ proc' = "down" /\ todo' = <<>> /\ collected' = <<>> /\ weights'.upto = 0
      /\ UNCHANGED <<disk, tmp, made>>
  BY DEF Kill, Closed, Idle
<1>2. live' = Empty /\ traj' = Empty
  BY DEF Kill, Closed, Sessions
<1>3. Followed'
  BY <1>1, <1>2 DEF Followed, Ordered, Proper, Before
<1>4. Sessions'
  BY <1>1, <1>2 DEF Sessions
<1>5. Saving'
  BY <1>1, StartedSaving DEF Once, NoBank
<1>6. FitInv'
  BY <1>1, FittedStays DEF FitInv
<1> QED
  BY <1>3, <1>4, <1>5, <1>6

\* Outside a live session and a fit no save of the bank is under way.
LEMMA NothingDue ==
  ASSUME Pending, Saving, proc \notin {"live", "fit"}
  PROVE  NoBank(todo) /\ ~BankDue /\ (todo # <<>> => Head(todo) # SwapOfBank)
<1>1. NoBank(todo)
  BY DEF Saving
<1>2. ~BankDue
  BY <1>1 DEF BankDue, NoBank, SwapOfBank
<1>3. todo # <<>> => Head(todo) = todo[1] /\ 1 \in 1..Len(todo)
  BY EmptySeq, LenProperties DEF Pending
<1> QED
  BY <1>1, <1>2, <1>3 DEF BankDue

LEMMA QuietKeepsBank ==
  ASSUME BankInv, Interrupt \/ PromptStarts
  PROVE  OrderInv' /\ FitInv'
<1> USE DEF BankInv, OrderInv
<1>1. UNCHANGED <<todo, disk, tmp, live, traj, collected, weights, made>>
  BY DEF Interrupt, PromptStarts
<1>2. proc' = proc \/ (proc = "between" /\ proc' = "prompt")
  BY DEF Interrupt, PromptStarts, More
<1>3. Followed'
  BY <1>1, <1>2 DEF Followed, Ordered, Proper, Before, BankDue
<1>4. Sessions'
  BY <1>1, <1>2 DEF Sessions
<1>5. Saving'
  <2>1. CASE proc' = proc
    BY <1>1, <2>1 DEF Saving, Once, NoBank, Length, Content
  <2>2. CASE proc = "between" /\ proc' = "prompt"
    BY <1>1, <2>2, NothingDue DEF Saving, Once, NoBank, FilesInv
  <2> QED
    BY <1>2, <2>1, <2>2
<1>6. FitInv'
  BY <1>1, <1>2 DEF FitInv, Fitted, Reaches, BankDue
<1> QED
  BY <1>3, <1>4, <1>5, <1>6

\* What a rename of the bank adds comes after what the bank had.
LEMMA SwapOfBankKeepsBank ==
  ASSUME BankInv, SwapFile, Head(todo) = SwapOfBank
  PROVE  OrderInv' /\ FitInv'
<1> USE DEF BankInv, OrderInv
<1> DEFINE more == IF proc = "fit" THEN collected ELSE <<live>>
<1>1. /\ todo # <<>> /\ todo' = Tail(todo)
      /\ UNCHANGED <<proc, traj, collected, weights, corpus, made>>
      /\ disk' = [disk EXCEPT !["bank"] = tmp["bank"]] /\ tmp' = [tmp EXCEPT !["bank"] = None]
      /\ live' = IF proc = "fit" THEN live ELSE Empty
  <2>1. Head(todo).file = "bank"
    BY DEF SwapOfBank
  <2> QED
    BY <2>1 DEF SwapFile, Doing, Flushed
<1>2. Pending /\ Once(todo)
  BY DEF FilesInv, Saving
<1>3. BankDue /\ ~NoBank(todo)
  <2>1. Head(todo) = todo[1] /\ 1 \in 1..Len(todo)
    BY <1>1, <1>2, TailOfSteps
  <2> QED
    BY <2>1 DEF BankDue, NoBank, SwapOfBank
<1>4. Once(todo') /\ NoBank(todo') /\ ~BankDue'
  BY <1>1, <1>2, StillDue
<1>5. proc = "fit" \/ (proc = "live" /\ Length(live) >= 2)
  BY <1>3 DEF Saving
<1>6. proc = "live" => live # Empty /\ collected = <<>>
  <2>1. ~(Length(Empty) >= 2)
    BY DEF Length, Empty
  <2> QED
    BY <1>5, <2>1 DEF Sessions
<1>7. traj' = Empty /\ live' = Empty
  BY <1>1, <1>5 DEF Sessions
<1>8. disk.bank \in Seq(Stretches) /\ more \in Seq(Stretches)
  BY DEF FilesInv, OnDisk, InMemory
<1>9. disk'.bank = Merged(disk.bank, more) /\ disk'.slot = disk.slot /\ tmp'.slot = tmp.slot
  BY <1>1 DEF Saving, Content, FilesInv, OnDisk
<1>10. Ordered(disk.bank) /\ Ordered(more) /\ \A j \in 1..Len(more) : Before(disk.bank, more[j])
  <2>1. CASE proc = "fit"
    BY <1>3, <2>1 DEF Followed
  <2>2. CASE proc = "live"
    <3>1. Proper(live) /\ Before(disk.bank, live)
      BY <1>6, <2>2 DEF Followed
    <3>2. more = <<live>>
      BY <2>2
    <3> QED
      BY <3>1, <3>2 DEF Ordered, Followed
  <2> QED
    BY <1>5, <2>1, <2>2
<1> HIDE DEF more
<1>11. Ordered(disk'.bank)
  BY <1>8, <1>9, <1>10, ConcatOrdered, MergedOrdered
<1>12. Followed'
  BY <1>1, <1>4, <1>5, <1>6, <1>7, <1>11 DEF Followed, Ordered, Proper
<1>13. Sessions'
  BY <1>1, <1>5, <1>7 DEF Sessions
<1>14. Saving'
  <2>1. todo' # <<>> => Head(todo') # SwapOfBank
    <3>1. todo' # <<>> => Head(todo') = todo'[1] /\ 1 \in 1..Len(todo')
      <4>1. todo' \in Seq(Steps)
        BY <1>1, <1>2, TailOfSteps
      <4> QED
        BY <4>1, EmptySeq, LenProperties
    <3> QED
      BY <1>4, <3>1 DEF BankDue
  <2> QED
    BY <1>4, <2>1 DEF Saving
<1>15. ASSUME NEW n \in Int, Reaches(n)
       PROVE  Reaches(n)'
  <2>1. disk.bank # <<>> /\ n <= Last(disk.bank).to
    BY <1>15 DEF Reaches
  <2>2. CASE more = <<>>
    BY <1>8, <1>9, <2>1, <2>2, MergedLast DEF Reaches
  <2>3. CASE more # <<>>
    <3>1. disk'.bank # <<>> /\ Last(disk'.bank) = Last(more)
      BY <1>8, <1>9, <2>3, MergedLast
    <3>2. Len(more) \in 1..Len(more) /\ Len(disk.bank) \in 1..Len(disk.bank)
      BY <1>8, <2>1, <2>3, EmptySeq, LenProperties
    <3>3. Last(disk.bank).to < Last(more).from /\ Last(more).from <= Last(more).to
      BY <1>10, <3>2 DEF Last, Before, Ordered, Proper
    <3>4. Last(disk.bank).to \in Int /\ Last(more).from \in Int /\ Last(more).to \in Int
      <4>1. disk.bank[Len(disk.bank)] \in Stretches /\ more[Len(more)] \in Stretches
        BY <1>8, <3>2, ElementOfSeq
      <4> QED
        BY <4>1 DEF Last, Stretches
    <3> QED
      BY <2>1, <3>1, <3>3, <3>4 DEF Reaches
  <2> QED
    BY <2>2, <2>3
<1>16. \A w \in Slots : Fitted(w) => (w.upto > 0 => Reaches(w.upto)')
  BY <1>15 DEF Fitted, Slots
<1>17. proc' = "fit" /\ collected' # <<>> => Reaches(Last(collected).to)'
  <2> SUFFICES ASSUME proc = "fit", collected # <<>>
               PROVE  disk'.bank # <<>> /\ Last(collected).to <= Last(disk'.bank).to
    BY <1>1 DEF Reaches
  <2>1. more = collected
    BY DEF more
  <2>2. disk'.bank # <<>> /\ Last(disk'.bank) = Last(collected)
    BY <1>8, <1>9, <2>1, MergedLast
  <2>3. Last(collected).to \in Int
    BY LastTyped DEF FilesInv, InMemory
  <2> QED
    BY <2>2, <2>3
<1>18. FitInv'
  <2>1. weights \in Slots /\ (disk.slot \notin {Torn, None} => disk.slot \in Slots)
        /\ (tmp.slot \notin {Torn, None} => tmp.slot \in Slots)
    BY DEF FilesInv, OnDisk, InMemory
  <2>2. Fitted(weights)'
    BY <1>1, <1>16, <2>1 DEF FitInv, Fitted
  <2>3. disk'.slot \notin {Torn, None} => Fitted(disk.slot)'
    BY <1>9, <1>16, <2>1 DEF FitInv, Fitted
  <2>4. tmp'.slot \notin {Torn, None} => Fitted(tmp.slot)'
    BY <1>9, <1>16, <2>1 DEF FitInv, Fitted
  <2> QED
    BY <1>17, <2>2, <2>3, <2>4 DEF FitInv
<1> QED
  BY <1>12, <1>13, <1>14, <1>18

LEMMA OtherSwapKeepsBank ==
  ASSUME BankInv, SwapFile, Head(todo) # SwapOfBank
  PROVE  OrderInv' /\ FitInv'
<1> USE DEF BankInv, OrderInv
<1>1. /\ todo # <<>> /\ todo' = Tail(todo) /\ Head(todo).op = "swap"
      /\ UNCHANGED <<proc, traj, collected, weights, corpus, made>>
  BY DEF SwapFile, Doing
<1>2. /\ Pending /\ Once(todo) /\ Head(todo) \in Steps
      /\ todo' # <<>> => Head(todo').op # "swap"
  BY <1>1, HeadIsStep, TailOfSteps DEF FilesInv, Saving
<1>3. Head(todo).file = "slot"
  <2>1. Head(todo) = todo[1] /\ 1 \in 1..Len(todo)
    BY <1>1, <1>2, TailOfSteps
  <2>2. Head(todo).file \in Through
    BY <1>1, <2>1 DEF FilesInv, Pending
  <2> QED
    BY <1>1, <1>2, <2>2 DEF Through, Steps, SwapOfBank
<1>4. /\ live' = live /\ disk'.bank = disk.bank /\ disk'.slot = tmp.slot
      /\ tmp'.slot = None
  BY <1>3 DEF SwapFile, FilesInv, OnDisk
<1>5. Once(todo') /\ (NoBank(todo) => NoBank(todo')) /\ (BankDue' <=> BankDue)
  BY <1>1, <1>2, StillDue
<1>6. Followed'
  BY <1>1, <1>4, <1>5 DEF Followed, Ordered, Proper, Before
<1>7. Sessions'
  BY <1>1, <1>4 DEF Sessions
<1>8. Saving'
  BY <1>1, <1>2, <1>4, <1>5 DEF Saving, Length, SwapOfBank
<1>9. FitInv'
  BY <1>1, <1>4, <1>5 DEF FitInv, Fitted, Reaches
<1> QED
  BY <1>6, <1>7, <1>8, <1>9

\* A save that fails takes its stretch with it.
LEMMA FailureKeepsBank ==
  ASSUME BankInv, SaveFails
  PROVE  OrderInv' /\ FitInv'
<1> USE DEF BankInv, OrderInv
<1> DEFINE f == Head(todo).file  n == Len(Save(f))  t == todo'
<1>1. /\ todo # <<>> /\ Head(todo).op = "fill" /\ proc # "fit"
      /\ todo' = SubSeq(todo, n, Len(todo))
      /\ live' = IF f = "bank" THEN Empty ELSE live
      /\ UNCHANGED <<proc, disk, tmp, traj, collected, weights, corpus, made>>
  BY DEF SaveFails, Doing, Flushed
<1>2. Pending /\ Once(todo) /\ f \in Files
  BY <1>1, HeadIsStep DEF FilesInv, Saving
<1>3. n \in {2, 3} /\ (n = 3 <=> f \in Through)
  BY <1>2, SaveLength
<1> HIDE DEF n
<1>4. /\ t \in Seq(Steps) /\ Len(t) = Len(todo) - (n - 1) /\ todo \in Seq(Steps)
      /\ \A i \in 1..Len(t) : t[i] = todo[i + (n - 1)]
      /\ n = 3 => todo[2] = [file |-> f, op |-> "swap"]
      /\ t # <<>> => Head(t).op # "swap"
  <2>1. todo' = SubSeq(todo, n, Len(todo)) /\ (n = 3 <=> Head(todo).file \in Through)
    BY <1>1, <1>3
  <2> QED
    BY <1>1, <1>2, <1>3, <2>1, RestOfSteps DEF Pending
<1>5. n - 1 \in Nat /\ (n = 3 => n - 1 > 1)
  BY <1>3
<1> HIDE DEF t
<1>6. /\ Once(t)
      /\ \A i \in 1..Len(t) : \E j \in 1..Len(todo) : t[i] = todo[j]
      /\ n - 1 > 1 /\ todo[2] = SwapOfBank => NoBank(t)
  <2> DEFINE d == n - 1
  <2>1. d \in Nat /\ Len(t) = Len(todo) - d /\ \A i \in 1..Len(t) : t[i] = todo[i + d]
    BY <1>4, <1>5
  <2> HIDE DEF d
  <2>2. /\ Once(todo) => Once(t)
        /\ \A i \in 1..Len(t) : \E j \in 1..Len(todo) : t[i] = todo[j]
        /\ Once(todo) /\ d > 1 /\ todo[2] = SwapOfBank => NoBank(t)
    BY <1>4, <2>1, RestOnce
  <2> QED
    BY <1>2, <2>2 DEF d
<1>7. NoBank(todo) => NoBank(t)
  BY <1>6 DEF NoBank
<1>8. f = "bank" => NoBank(t)
  BY <1>3, <1>4, <1>5, <1>6 DEF Through, SwapOfBank
<1>9. Once(todo') /\ (NoBank(todo) => NoBank(todo')) /\ (f = "bank" => NoBank(todo'))
      /\ (todo' # <<>> => Head(todo').op # "swap")
  BY <1>4, <1>6, <1>7, <1>8 DEF t
<1> HIDE DEF f
<1>10. Followed'
  BY <1>1 DEF Followed, Ordered, Proper, Before
<1>11. Sessions'
  BY <1>1 DEF Sessions
<1>12. Saving'
  <2>1. todo' # <<>> => Head(todo') # SwapOfBank
    BY <1>9 DEF SwapOfBank
  <2>2. NoBank(todo') \/ (proc' = "live" /\ Length(live)' >= 2)
    <3>1. CASE f = "bank"
      BY <1>9, <3>1
    <3>2. CASE f # "bank"
      BY <1>1, <1>9, <3>2 DEF Saving, Length
    <3> QED
      BY <3>1, <3>2
  <2> QED
    BY <1>9, <2>1, <2>2 DEF Saving
<1>13. FitInv'
  BY <1>1 DEF FitInv, Fitted, Reaches
<1> QED
  BY <1>10, <1>11, <1>12, <1>13

\* A stretch that gets a frame more.
LEMMA ExtendedIs ==
  ASSUME NEW s \in Stretches, s # Empty => Proper(s), made \in Int
  PROVE  /\ Extended(s) \in Stretches /\ Extended(s) # Empty
         /\ Extended(s).from <= Extended(s).to /\ Extended(s).to = made + 1
         /\ Extended(s).from = IF s = Empty THEN made + 1 ELSE s.from
<1>1. CASE s = Empty
  BY <1>1 DEF Extended, Length, Empty, Stretches
<1>2. CASE s # Empty
  <2>1. s.from \in Int /\ s.to \in Int /\ s.from <= s.to /\ s.to <= made /\ Length(s) # 0
    BY <1>2 DEF Proper, Stretches, Length
  <2>2. Extended(s) = [s EXCEPT !.to = made + 1]
    BY <2>1 DEF Extended
  <2>3. Extended(s) = [from |-> s.from, to |-> made + 1]
    BY <2>2 DEF Stretches
  <2>4. Extended(s) # Empty
    BY <2>1, <2>3 DEF Empty
  <2> QED
    BY <1>2, <2>1, <2>3, <2>4 DEF Stretches
<1> QED
  BY <1>1, <1>2

LEMMA LiveTokenKeepsBank ==
  ASSUME BankInv, LiveToken
  PROVE  OrderInv' /\ FitInv'
<1> USE DEF BankInv, OrderInv
<1> DEFINE s == Extended(live)
<1>1. /\ proc = "live" /\ todo = <<>> /\ made' = made + 1
      /\ live' = IF Length(s) > MemMax THEN [s EXCEPT !.from = s.to - MemKeep + 1] ELSE s
      /\ UNCHANGED <<proc, todo, disk, tmp, traj, collected, weights>>
  BY DEF LiveToken, Idle
<1>2. collected = <<>> /\ traj = Empty
  BY <1>1 DEF Sessions
<1>3. live \in Stretches /\ made \in Int /\ disk.bank \in Seq(Stretches)
      /\ Ordered(disk.bank) /\ (live # Empty => Proper(live) /\ Before(disk.bank, live))
  BY DEF FilesInv, OnDisk, InMemory, Followed
<1>4. /\ s \in Stretches /\ s.from <= s.to /\ s.to = made + 1
      /\ s.from = IF live = Empty THEN made + 1 ELSE live.from
  BY <1>3, ExtendedIs
<1> HIDE DEF s
<1>5. live'.from <= live'.to /\ live'.to = made + 1 /\ live'.from >= s.from /\ live'.from \in Int
  <2>1. MemKeep \in Int /\ MemKeep >= 1 /\ MemKeep <= MemMax /\ MemMax \in Int
    BY BankAssumption DEF BankAssumption
  <2>2. CASE Length(s) > MemMax
    <3>1. live' = [from |-> s.to - MemKeep + 1, to |-> s.to]
      BY <1>1, <1>4, <2>2 DEF Stretches
    <3>2. s.from \in Int /\ s.to \in Int /\ s.to - s.from + 1 > MemMax
      BY <1>4, <2>2 DEF Length, Stretches
    <3> QED
      BY <1>4, <2>1, <3>1, <3>2
  <2>3. CASE ~(Length(s) > MemMax)
    BY <1>1, <1>4, <2>3 DEF Stretches
  <2> QED
    BY <2>2, <2>3
<1>6. /\ \A i \in 1..Len(disk.bank) : disk.bank[i].from <= disk.bank[i].to /\ disk.bank[i].to <= made'
      /\ \A i \in 1..Len(disk.bank) : disk.bank[i].to < live'.from
  <2>1. /\ \A i \in 1..Len(disk.bank) :
               /\ disk.bank[i].from <= disk.bank[i].to
               /\ disk.bank[i].to <= made' /\ disk.bank[i].to \in Int
        /\ \A i \in 1..Len(disk.bank) : disk.bank[i].to < made + 1
    <3>1. made' \in {made, made + 1}
      BY <1>1
    <3> QED
      BY <1>3, <3>1, OrderedStays
  <2>2. \A i \in 1..Len(disk.bank) : disk.bank[i].to < s.from
    BY <1>3, <1>4, <2>1 DEF Before
  <2> QED
    BY <1>4, <1>5, <2>1, <2>2 DEF Stretches
<1>7. Proper(live)'
  BY <1>1, <1>3, <1>5 DEF Proper
<1>8. Followed'
  BY <1>1, <1>2, <1>3, <1>6, <1>7 DEF Followed, Ordered, Before, Proper
<1>9. Sessions'
  BY <1>1, <1>2 DEF Sessions
<1>10. Saving'
  BY <1>1, StartedSaving DEF Once, NoBank
<1>11. FitInv'
  BY <1>1 DEF FitInv, Fitted, Reaches, BankDue
<1> QED
  BY <1>8, <1>9, <1>10, <1>11

LEMMA PromptTokenKeepsBank ==
  ASSUME BankInv, PromptToken
  PROVE  OrderInv' /\ FitInv'
<1> USE DEF BankInv, OrderInv
<1> DEFINE s == Extended(traj)
<1>1. /\ proc = "prompt" /\ made' = made + 1 /\ traj' = s
      /\ UNCHANGED <<proc, todo, disk, tmp, live, collected, weights>>
  BY DEF PromptToken
<1>2. live = Empty
  BY <1>1 DEF Sessions
<1>3. /\ traj \in Stretches /\ made \in Int /\ made' \in {made, made + 1}
      /\ disk.bank \in Seq(Stretches) /\ Ordered(disk.bank)
      /\ collected \in Seq(Stretches) /\ Ordered(collected)
      /\ traj # Empty => Proper(traj) /\ Before(disk.bank, traj) /\ Before(collected, traj)
      /\ \A j \in 1..Len(collected) : Before(disk.bank, collected[j])
  BY <1>1 DEF FilesInv, OnDisk, InMemory, Followed
<1>4. /\ s \in Stretches /\ s.from <= s.to /\ s.to = made + 1
      /\ s.from = IF traj = Empty THEN made + 1 ELSE traj.from
  BY <1>3, ExtendedIs
<1> HIDE DEF s
<1>5. /\ \A i \in 1..Len(disk.bank) : disk.bank[i].from <= disk.bank[i].to /\ disk.bank[i].to <= made'
      /\ \A i \in 1..Len(disk.bank) : disk.bank[i].to < made + 1
      /\ \A i, j \in 1..Len(disk.bank) : i < j => disk.bank[i].to < disk.bank[j].from
  BY <1>3, OrderedStays
<1>6. /\ \A i \in 1..Len(collected) : collected[i].from <= collected[i].to /\ collected[i].to <= made'
      /\ \A i \in 1..Len(collected) : collected[i].to < made + 1
      /\ \A i, j \in 1..Len(collected) : i < j => collected[i].to < collected[j].from
  BY <1>3, OrderedStays
<1>7. Before(disk.bank, s) /\ Before(collected, s)
  BY <1>3, <1>4, <1>5, <1>6 DEF Before
<1>8. Proper(traj)'
  BY <1>1, <1>3, <1>4 DEF Proper, Stretches
<1>9. Followed'
  <2>1. Ordered(disk.bank)' /\ Ordered(collected)'
    BY <1>1, <1>5, <1>6 DEF Ordered, Proper
  <2>2. Before(disk.bank, traj)' /\ Before(collected, traj)'
    BY <1>1, <1>7 DEF Before
  <2>3. \A j \in 1..Len(collected') : Before(disk.bank, collected[j])'
    BY <1>1, <1>3 DEF Before
  <2> QED
    BY <1>1, <1>2, <1>8, <2>1, <2>2, <2>3 DEF Followed
<1>10. Sessions'
  BY <1>1, <1>2 DEF Sessions
<1>11. Saving'
  BY <1>1, NothingDue DEF Saving, Once, NoBank, FilesInv
<1>12. FitInv'
  BY <1>1 DEF FitInv, Fitted, Reaches, BankDue
<1> QED
  BY <1>9, <1>10, <1>11, <1>12

LEMMA LivePersistKeepsBank ==
  ASSUME BankInv, LivePersist
  PROVE  OrderInv' /\ FitInv'
<1> USE DEF BankInv, OrderInv
<1>1. /\ proc = "live" /\ todo' = Persist
      /\ live' = IF Length(live) < 2 THEN Empty ELSE live
      /\ UNCHANGED <<proc, disk, tmp, traj, collected, weights, made>>
  BY DEF LivePersist
<1>2. live \in Stretches /\ Length(live) \in Int
  BY DEF FilesInv, InMemory, Length, Stretches
<1>3. Followed'
  BY <1>1 DEF Followed, Ordered, Proper, Before, Sessions
<1>4. Sessions'
  BY <1>1 DEF Sessions
<1>5. Saving'
  <2>1. Once(Persist) /\ Persist[1].op = "open" /\ (Length(live) < 2 => NoBank(Persist))
    BY <1>2, PersistIs
  <2>2. NoBank(todo') \/ (proc' = "live" /\ Length(live') >= 2)
    BY <1>1, <1>2, <2>1
  <2> QED
    BY <1>1, <2>1, <2>2, StartedSaving
<1>6. FitInv'
  BY <1>1 DEF FitInv, Fitted, Reaches
<1> QED
  BY <1>3, <1>4, <1>5, <1>6

\* The steps that close a prompt, end a session of pretraining or follow a fit.
LEMMA PretrainSaves ==
  ASSUME BankInv, proc \notin {"live", "down"}, todo' = Persist \/ todo' = Save("progress")
  PROVE  Saving'
<1> USE DEF BankInv, OrderInv
<1>1. live = Empty
  BY DEF Sessions
<1>2. live \in Stretches /\ Length(live) < 2
  BY <1>1, EmptyTyped DEF Length, Empty
<1>3. Once(Persist) /\ Persist[1].op = "open" /\ NoBank(Persist)
  BY <1>2, PersistIs
<1>4. Once(Save("progress")) /\ Save("progress")[1].op = "open" /\ NoBank(Save("progress"))
  BY SaveIs, SaveOnce DEF NoBank, Files
<1> QED
  BY <1>3, <1>4, StartedSaving

LEMMA PromptEndsKeepsBank ==
  ASSUME BankInv, PromptEnds
  PROVE  OrderInv' /\ FitInv'
<1> USE DEF BankInv, OrderInv
<1>1. /\ proc = "prompt" /\ proc' = "ended" /\ todo' = Persist /\ traj' = Empty
      /\ collected' = IF Length(traj) >= 2 THEN Append(collected, traj) ELSE collected
      /\ UNCHANGED <<disk, tmp, live, weights, made>>
  BY DEF PromptEnds
<1>2. live = Empty
  BY <1>1 DEF Sessions
<1>3. /\ traj \in Stretches /\ collected \in Seq(Stretches)
      /\ Ordered(disk.bank) /\ Ordered(collected)
      /\ \A j \in 1..Len(collected) : Before(disk.bank, collected[j])
      /\ traj # Empty => Proper(traj) /\ Before(disk.bank, traj) /\ Before(collected, traj)
  BY <1>1 DEF FilesInv, InMemory, Followed
<1>4. Ordered(collected') /\ \A j \in 1..Len(collected') : Before(disk.bank, collected'[j])
  <2>1. CASE Length(traj) >= 2
    <3>1. traj # Empty
      BY <2>1 DEF Length, Empty
    <3> DEFINE c == Append(collected, traj)
    <3>2. /\ Len(collected) \in Nat /\ Len(c) = Len(collected) + 1
          /\ \A i \in 1..Len(collected) : c[i] = collected[i]
          /\ c[Len(collected) + 1] = traj
      BY <1>3, AppendProperties, LenProperties
    <3> HIDE DEF c
    <3>3. \A i \in 1..Len(c) : \/ i \in 1..Len(collected) /\ c[i] = collected[i]
                               \/ i = Len(collected) + 1 /\ c[i] = traj
      BY <3>2
    <3>4. \A i \in 1..Len(c) : Proper(c[i]) /\ Before(disk.bank, c[i])
      BY <1>3, <3>1, <3>3 DEF Ordered
    <3>5. \A i, j \in 1..Len(c) : i < j => c[i].to < c[j].from
      <4> SUFFICES ASSUME NEW i \in 1..Len(c), NEW j \in 1..Len(c), i < j
                   PROVE  c[i].to < c[j].from
        OBVIOUS
      <4>1. i \in 1..Len(collected) /\ c[i] = collected[i]
        BY <3>2, <3>3
      <4>2. CASE j \in 1..Len(collected) /\ c[j] = collected[j]
        BY <1>3, <4>1, <4>2 DEF Ordered
      <4>3. CASE c[j] = traj
        BY <1>3, <3>1, <4>1, <4>3 DEF Before
      <4> QED
        BY <3>3, <4>2, <4>3
    <3>6. collected' = c
      BY <1>1, <2>1 DEF c
    <3> QED
      BY <3>4, <3>5, <3>6 DEF Ordered
  <2>2. CASE ~(Length(traj) >= 2)
    BY <1>1, <1>3, <2>2
  <2> QED
    BY <2>1, <2>2
<1>5. Followed'
  BY <1>1, <1>2, <1>3, <1>4 DEF Followed, Ordered, Proper, Before
<1>6. Sessions'
  BY <1>1, <1>2 DEF Sessions
<1>7. Saving'
  BY <1>1, PretrainSaves
<1>8. FitInv'
  BY <1>1 DEF FitInv, Fitted, Reaches
<1> QED
  BY <1>5, <1>6, <1>7, <1>8

LEMMA BetweenKeepsBank ==
  ASSUME BankInv, PromptSkipped \/ PromptRecorded \/ TooFew \/ FitEnds
  PROVE  OrderInv' /\ FitInv'
<1> USE DEF BankInv, OrderInv
<1>1. /\ proc \in {"between", "ended", "fitted"} /\ proc' \in {"between", "closing"}
      /\ todo' = Persist \/ todo' = Save("progress")
      /\ disk'.bank = disk.bank /\ disk'.slot = disk.slot
      /\ UNCHANGED <<tmp, live, traj, collected, weights, made>>
  BY DEF PromptSkipped, PromptRecorded, TooFew, FitEnds, More, CollectEnds, FilesInv, OnDisk
<1>2. live = Empty /\ traj = Empty
  BY <1>1 DEF Sessions
<1>3. Followed'
  BY <1>1, <1>2 DEF Followed, Ordered, Proper, Before
<1>4. Sessions'
  BY <1>1, <1>2 DEF Sessions
<1>5. Saving'
  BY <1>1, PretrainSaves
<1>6. FitInv'
  BY <1>1 DEF FitInv, Fitted, Reaches
<1> QED
  BY <1>3, <1>4, <1>5, <1>6

LEMMA FitStartsKeepsBank ==
  ASSUME BankInv, FitStarts
  PROVE  OrderInv' /\ FitInv'
<1> USE DEF BankInv, OrderInv
<1>1. /\ proc = "between" /\ proc' = "fit" /\ todo' = Save("bank")
      /\ UNCHANGED <<disk, tmp, live, traj, collected, weights, made>>
  BY DEF FitStarts, CollectEnds, BeforeFit
<1>2. live = Empty /\ traj = Empty
  BY <1>1 DEF Sessions
<1>3. Followed'
  BY <1>1, <1>2 DEF Followed, Ordered, Proper, Before
<1>4. Sessions'
  BY <1>1, <1>2 DEF Sessions
<1>5. Saving'
  BY <1>1, SaveIs, SaveOnce, StartedSaving DEF Files
<1>6. BankDue'
  BY <1>1 DEF BankDue, Save, Through, SwapOfBank
<1>7. FitInv'
  BY <1>1, <1>6 DEF FitInv, Fitted, Reaches
<1> QED
  BY <1>3, <1>4, <1>5, <1>7

LEMMA FitTrainsKeepsBank ==
  ASSUME BankInv, FitTrains
  PROVE  OrderInv' /\ FitInv'
<1> USE DEF BankInv, OrderInv
<1> DEFINE data == IF collected = <<>> THEN disk.bank ELSE collected
           upto == IF data # <<>> /\ Last(data).to > weights.upto THEN Last(data).to ELSE weights.upto
<1>1. /\ proc = "fit" /\ todo = <<>> /\ proc' = "fitted" /\ todo' = Persist /\ collected' = <<>>
      /\ weights' = [weights EXCEPT !.upto = upto]
      /\ UNCHANGED <<disk, tmp, live, traj, made>>
  BY DEF FitTrains, Idle
<1>2. live = Empty /\ traj = Empty
  BY <1>1 DEF Sessions
<1>3. Followed'
  BY <1>1, <1>2 DEF Followed, Ordered, Proper, Before
<1>4. Sessions'
  BY <1>1, <1>2 DEF Sessions
<1>5. Saving'
  BY <1>1, PretrainSaves
<1>6. data \in Seq(Stretches) /\ (data # <<>> => Reaches(Last(data).to))
  <2>1. collected \in Seq(Stretches) /\ disk.bank \in Seq(Stretches)
    BY DEF FilesInv, OnDisk, InMemory
  <2>2. CASE collected = <<>>
    <3>1. disk.bank # <<>> => Last(disk.bank).to \in Int
      BY <2>1, LastTyped
    <3> QED
      BY <2>1, <2>2, <3>1 DEF Reaches
  <2>3. CASE collected # <<>>
    <3>1. ~BankDue
      BY <1>1 DEF BankDue
    <3> QED
      BY <1>1, <2>1, <2>3, <3>1 DEF FitInv
  <2> QED
    BY <2>2, <2>3
<1> HIDE DEF data
<1>7. weights'.upto = upto
  BY <1>1 DEF FilesInv, InMemory, Slots
<1>8. upto > 0 => Reaches(upto)
  BY <1>6 DEF FitInv, Fitted
<1> HIDE DEF upto
<1>9. Fitted(weights') \/ weights'.upto = 0
  BY <1>7, <1>8 DEF Fitted
<1>10. FitInv'
  BY <1>1, <1>9, FittedStays DEF FitInv
<1> QED
  BY <1>3, <1>4, <1>5, <1>10

LEMMA BankStep == BankInv /\ [Next]_vars => BankInv'
<1> SUFFICES ASSUME BankInv, [Next]_vars
             PROVE  OrderInv' /\ FitInv'
  BY FilesStep DEF BankInv
<1>1. CASE OpenFile \/ FillFile
  BY <1>1, WriteKeepsBank
<1>2. CASE SwapFile
  BY <1>2, SwapOfBankKeepsBank, OtherSwapKeepsBank
<1>3. CASE SaveFails
  BY <1>3, FailureKeepsBank
<1>4. CASE Kill \/ Closed
  BY <1>4, StopKeepsBank
<1>5. CASE Serve \/ FitOnly \/ \E fresh \in BOOLEAN, end \in 1..Prompts : Pretrain(fresh, end)
  <2>1. TRUE \in BOOLEAN /\ 1 \in 1..Prompts
    BY BankAssumption DEF BankAssumption
  <2> QED
    BY <1>5, <2>1, StartKeepsBank
<1>6. CASE Interrupt \/ PromptStarts
  BY <1>6, QuietKeepsBank
<1>7. CASE LiveToken
  BY <1>7, LiveTokenKeepsBank
<1>8. CASE PromptToken
  BY <1>8, PromptTokenKeepsBank
<1>9. CASE LivePersist
  BY <1>9, LivePersistKeepsBank
<1>10. CASE PromptEnds
  BY <1>10, PromptEndsKeepsBank
<1>11. CASE PromptSkipped \/ PromptRecorded \/ TooFew \/ FitEnds
  BY <1>11, BetweenKeepsBank
<1>12. CASE FitStarts
  BY <1>12, FitStartsKeepsBank
<1>13. CASE FitTrains
  BY <1>13, FitTrainsKeepsBank
<1>14. CASE UNCHANGED vars
  <2>1. Followed' /\ Sessions'
    BY <1>14 DEF vars, BankInv, OrderInv, Followed, Sessions, Ordered, Proper, Before, BankDue
  <2>2. Saving'
    BY <1>14 DEF vars, BankInv, OrderInv, Saving, Once, NoBank, Length, Content
  <2>3. FitInv'
    BY <1>14 DEF vars, BankInv, FitInv, Fitted, Reaches, BankDue
  <2> QED
    BY <2>1, <2>2, <2>3 DEF OrderInv
<1> QED
  BY <1>1, <1>2, <1>3, <1>4, <1>5, <1>6, <1>7, <1>8, <1>9, <1>10, <1>11, <1>12, <1>13, <1>14 DEF Next

LEMMA BankAlways == Spec => []BankInv
<1>1. Init => BankInv
  BY FilesInit, BankInit DEF BankInv
<1> QED
  BY <1>1, BankStep, PTL DEF Spec

\* Over any sequence of sessions, kills and failed saves no frame is banked twice
\* or out of order (_flush_bank_traj, merge_trajectories, fit_pretrain).
THEOREM BankNeverRepeats == Spec => []BankInOrder
<1>1. BankInv => BankInOrder
  <2> SUFFICES ASSUME BankInv
               PROVE  BankInOrder
    OBVIOUS
  <2> USE DEF BankInv, OrderInv
  <2> DEFINE first == IF proc = "fit" THEN <<>> ELSE collected
             second == IF Length(live) = 0 THEN <<>> ELSE <<live>>
             all == disk.bank \o (first \o second)
  <2>1. /\ disk.bank \in Seq(Stretches) /\ collected \in Seq(Stretches) /\ live \in Stretches
        /\ Ordered(disk.bank) /\ Ordered(collected)
    BY DEF FilesInv, OnDisk, InMemory, Followed
  <2>2. first \in Seq(Stretches) /\ Ordered(first) /\ \A j \in 1..Len(first) : Before(disk.bank, first[j])
    BY <2>1 DEF Followed, Ordered
  <2>3. /\ second \in Seq(Stretches) /\ Ordered(second)
        /\ \A j \in 1..Len(second) : Before(disk.bank, second[j]) /\ Before(first, second[j])
    <3>1. CASE Length(live) = 0
      BY <3>1 DEF Ordered
    <3>2. CASE Length(live) # 0
      <4>1. live # Empty
        BY <3>2 DEF Length, Empty
      <4>2. Proper(live) /\ Before(disk.bank, live) /\ first = <<>>
        BY <4>1 DEF Followed, Sessions
      <4>3. second = <<live>>
        BY <3>2
      <4>4. Before(first, live)
        BY <4>2 DEF Before
      <4> HIDE DEF first, second
      <4>5. \A j \in 1..Len(second) : j = 1 /\ second[j] = live
        BY <4>3
      <4>6. second \in Seq(Stretches)
        BY <2>1, <4>3
      <4> QED
        BY <4>2, <4>4, <4>5, <4>6 DEF Ordered
    <3> QED
      BY <3>1, <3>2
  <2> HIDE DEF first, second
  <2>4. Ordered(first \o second) /\ first \o second \in Seq(Stretches)
    BY <2>2, <2>3, ConcatOrdered, ConcatProperties
  <2>5. \A j \in 1..Len(first \o second) : Before(disk.bank, (first \o second)[j])
    <3> SUFFICES ASSUME NEW j \in 1..Len(first \o second)
                 PROVE  Before(disk.bank, (first \o second)[j])
      OBVIOUS
    <3>1. /\ Len(first) \in Nat /\ Len(second) \in Nat /\ j \in 1..(Len(first) + Len(second))
          /\ (first \o second)[j] = IF j <= Len(first) THEN first[j] ELSE second[j - Len(first)]
      BY <2>2, <2>3, LenProperties, ConcatProperties
    <3>2. CASE j <= Len(first)
      BY <2>2, <3>1, <3>2
    <3>3. CASE ~(j <= Len(first))
      <4>1. j - Len(first) \in 1..Len(second)
        BY <3>1, <3>3
      <4> QED
        BY <2>3, <3>1, <3>3, <4>1
    <3> QED
      BY <3>2, <3>3
  <2>6. Ordered(all) /\ all \in Seq(Stretches)
    BY <2>1, <2>4, <2>5, ConcatOrdered, ConcatProperties
  <2> HIDE DEF all
  <2>7. \A i \in 1..Len(all) : all[i].from <= all[i].to /\ (i > 1 => all[i - 1].to < all[i].from)
    <3>1. \A i \in 1..Len(all) : i > 1 => i - 1 \in 1..Len(all) /\ i - 1 < i
      BY <2>6, LenProperties
    <3> QED
      BY <2>6, <3>1 DEF Ordered, Proper
  <2> QED
    BY <2>7 DEF BankInOrder, all, first, second
<1> QED
  BY <1>1, BankAlways, PTL

\* A kill at any moment of a fit leaves the newest data it trained on: no weights, in
\* memory or on disk, were fitted to a frame newer than the last one in the bank.
THEOREM FittedDataIsBanked == Spec => []TrainedIsBanked
<1>1. BankInv => TrainedIsBanked
  <2> SUFFICES ASSUME BankInv, NEW w \in {weights} \cup ({disk.slot} \ {Torn, None}), w.upto > 0
               PROVE  disk.bank \notin {Torn, <<>>} /\ w.upto <= Last(disk.bank).to
    BY DEF TrainedIsBanked
  <2>1. Fitted(w)
    BY DEF BankInv, FitInv
  <2>2. disk.bank # Torn
    BY TornIsNoContent DEF BankInv, FilesInv, OnDisk
  <2> QED
    BY <2>1, <2>2 DEF Fitted, Reaches
<1> QED
  BY <1>1, BankAlways, PTL
=============================================================================
