------------------------------ MODULE SlotStore ------------------------------
(***************************************************************************)
(* What a slab promises its users, without saying how slots are found:     *)
(* every slot has at most one holder; a slot is claimed for an expert only *)
(* when nobody holds it and no reader is writing into it; between the      *)
(* claim and the end of its read its bytes mean nothing; afterwards they   *)
(* are the holder's until the holder gives the slot up, which it cannot do *)
(* while the read is still writing.  The memory is handed back, and taken  *)
(* again, only when no reader is writing anywhere.                         *)
(***************************************************************************)
CONSTANTS
  Experts,  \* who may hold a slot
  Slots,
  Nobody,   \* no holder
  Junk      \* bytes that are nobody's weights

VARIABLES
  holder,   \* who a slot belongs to
  writing,  \* slots a reader is writing into
  content   \* whose weights a slot holds

store == <<holder, writing, content>>

Init ==
  /\ holder  = [s \in Slots |-> Nobody]
  /\ writing = {}
  /\ content = [s \in Slots |-> Junk]

\* A read of k into s starts.  An expert has one slot: one it held before is
\* given up.
Claim(k, s) ==
  /\ holder[s] = Nobody /\ s \notin writing
  /\ \A t \in writing : holder[t] # k
  /\ holder'  = [t \in Slots |-> IF t = s THEN k
                                 ELSE IF holder[t] = k THEN Nobody ELSE holder[t]]
  /\ writing' = writing \cup {s}
  /\ content' = [content EXCEPT ![s] = Junk]

\* The read ends: with the holder's weights in place ...
Land(s) ==
  /\ s \in writing
  /\ writing' = writing \ {s}
  /\ content' = [content EXCEPT ![s] = holder[s]]
  /\ UNCHANGED holder

\* ... or with an error.
Fail(s) ==
  /\ s \in writing
  /\ writing' = writing \ {s}
  /\ UNCHANGED <<holder, content>>

\* Holders give up slots no reader is writing into.
Vacate(S) ==
  /\ S # {} /\ S \cap writing = {}
  /\ holder' = [s \in Slots |-> IF s \in S THEN Nobody ELSE holder[s]]
  /\ UNCHANGED <<writing, content>>

\* The memory is handed back.
HandBack ==
  /\ writing = {}
  /\ holder'  = [s \in Slots |-> Nobody]
  /\ content' = [s \in Slots |-> Junk]
  /\ UNCHANGED writing

Next ==
  \/ \E k \in Experts, s \in Slots : Claim(k, s)
  \/ \E s \in Slots : Land(s) \/ Fail(s)
  \/ \E S \in SUBSET Slots : Vacate(S)
  \/ HandBack

Spec == Init /\ [][Next]_store

=============================================================================
