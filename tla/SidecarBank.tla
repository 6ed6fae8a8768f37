---------------------------- MODULE SidecarBank ----------------------------
(* What the sidecar keeps on disk (service.py, bank.py, slot.py, the heads)   *)
(* and the sessions that change it: a server banking live tokens, a pretrain  *)
(* run over a corpus with its progress file (pretrain_sidecar.py), and a      *)
(* --fit-only run.  One process at a time; it can be killed between any two   *)
(* steps, and a save is the steps it really has: open, fill, rename.          *)
(*                                                                            *)
(* A token's demand frame is its number, counted over all sessions; a         *)
(* trajectory is an interval of them.                                         *)
EXTENDS Integers, Sequences, SequencesExt

CONSTANTS
    Prompts,      \* prompts of the corpus
    MaxTraj,      \* merge_trajectories' max_traj (256)
    MemMax,       \* longest live stretch in memory (256)
    MemKeep,      \* what is kept of it when it overflows (128)
    MinSamples,   \* samples a dense fit wants (8)
    Scales,       \* windows a frame is learned from (SIDECAR_HISTORY)
    Torn,         \* a file opened for writing and not yet filled
    None,         \* a file that is not there
    MaxFrames,    \* bound: tokens over all sessions
    MaxSessions   \* bound: sessions

ASSUME BankAssumption ==
    /\ Prompts \in Nat \ {0} /\ MaxTraj \in Nat \ {0} /\ MemMax \in Nat \ {0}
    /\ MemKeep \in 1..MemMax /\ MinSamples \in Nat \ {0}
    /\ Scales \in Nat \ {0}
    /\ MaxFrames \in Nat /\ MaxSessions \in Nat
    /\ Torn # None
    /\ \A x \in {Torn, None} : x \notin Seq([from : Int, to : Int]) \cup [born : Int, upto : Int]

VARIABLES
    proc,       \* what the process is doing
    todo,       \* the steps left of the saves under way
    disk,       \* bank, slot, aux (residency and prune), progress
    tmp,        \* the temporaries of bank and slot
    live,       \* _bank_traj
    traj,       \* _pretrain_traj
    collected,  \* _pretrain_trajectories
    weights,    \* wrap.slot: session it was created in, last frame of a dense fit
    corpus,     \* the loop over the corpus: idx, end, next, stop, fresh
    made,       \* frames so far
    sessions,   \* sessions so far
    finished    \* history: prompts no interrupt cut short

vars == <<proc, todo, disk, tmp, live, traj, collected, weights, corpus, made, sessions, finished>>

Empty    == [from |-> 1, to |-> 0]
Length(s) == s.to - s.from + 1
Extended(s) == IF Length(s) = 0 THEN [from |-> made + 1, to |-> made + 1] ELSE [s EXCEPT !.to = made + 1]

Traj == [from : 1..MaxFrames, to : 1..MaxFrames]
Weights == [born : 0..MaxSessions, upto : 0..MaxFrames]

Init ==
    /\ proc = "down"
    /\ todo = <<>>
    /\ disk = [bank |-> <<>>, slot |-> None, aux |-> None, progress |-> None]
    /\ tmp = [bank |-> None, slot |-> None]
    /\ live = Empty
    /\ traj = Empty
    /\ collected = <<>>
    /\ weights = [born |-> 0, upto |-> 0]
    /\ corpus = [idx |-> 0, end |-> 0, next |-> 0, stop |-> FALSE, fresh |-> FALSE]
    /\ made = 0
    /\ sessions = 0
    /\ finished = {}

(* ------------------------------------------------------------------- saving *)

\* Mutant: the bank is written in place, as the residency and prune files are.
ThroughSlotOnly == {"slot"}

\* The files written to a temporary and renamed.
Through == {"bank", "slot"}

\* Steps of saving one file.
Save(f) ==
    LET step(op) == [file |-> f, op |-> op]
    IN  IF f \in Through THEN <<step("open"), step("fill"), step("swap")>>
                         ELSE <<step("open"), step("fill")>>

\* _persist: the live stretch is flushed when it is long enough to train on.
Persist == (IF Length(live) >= 2 THEN Save("bank") ELSE <<>>) \o Save("slot") \o Save("aux")

\* merge_trajectories: the newest are kept.
Merged(a, b) ==
    LET all == a \o b IN SubSeq(all, IF Len(all) > MaxTraj THEN Len(all) - MaxTraj + 1 ELSE 1, Len(all))

\* What a save writes.
Content(f) ==
    CASE f = "bank"     -> Merged(disk.bank, IF proc = "fit" THEN collected ELSE <<live>>)
      [] f = "slot"     -> weights
      [] f = "aux"      -> "whole"
      [] f = "progress" -> corpus.next

Written(f, c) ==
    IF f \in Through THEN tmp' = [tmp EXCEPT ![f] = c] /\ UNCHANGED disk
                     ELSE disk' = [disk EXCEPT ![f] = c] /\ UNCHANGED tmp

\* Mutant: a flush leaves the stretch in memory, so the next one banks it again.
FlushedKept == live

\* _flush_bank_traj's finally: whatever became of the file, memory is emptied.
Flushed == IF proc = "fit" THEN live ELSE Empty

Doing(op) == todo # <<>> /\ Head(todo).op = op

OpenFile ==
    /\ Doing("open")
    /\ Written(Head(todo).file, Torn)
    /\ todo' = Tail(todo)
    /\ UNCHANGED <<proc, live, traj, collected, weights, corpus, made, sessions, finished>>

FillFile ==
    /\ Doing("fill")
    /\ Written(Head(todo).file, Content(Head(todo).file))
    /\ todo' = Tail(todo)
    /\ live' = IF Head(todo).file = "bank" /\ "bank" \notin Through THEN Flushed ELSE live
    /\ UNCHANGED <<proc, traj, collected, weights, corpus, made, sessions, finished>>

SwapFile ==
    /\ Doing("swap")
    /\ LET f == Head(todo).file IN
       /\ disk' = [disk EXCEPT ![f] = tmp[f]]
       /\ tmp' = [tmp EXCEPT ![f] = None]
       /\ live' = IF f = "bank" THEN Flushed ELSE live
    /\ todo' = Tail(todo)
    /\ UNCHANGED <<proc, traj, collected, weights, corpus, made, sessions, finished>>

\* A save that fails leaves out its other steps and is logged; except the fit's
\* own and the progress file's, whose exception ends the session (Kill).
SaveFails ==
    /\ Doing("fill")
    /\ proc # "fit" /\ Head(todo).file # "progress"
    /\ LET f == Head(todo).file IN
       /\ todo' = SubSeq(todo, Len(Save(f)), Len(todo))
       /\ live' = IF f = "bank" THEN Flushed ELSE live
    /\ UNCHANGED <<proc, disk, tmp, traj, collected, weights, corpus, made, sessions, finished>>

(* ----------------------------------------------------------------- sessions *)

Idle == todo = <<>>

\* ExpertSidecar.__init__: a slot file that cannot be read is a fresh slot.
Loaded == IF disk.slot \in {Torn, None} THEN [born |-> sessions + 1, upto |-> 0] ELSE disk.slot

Starts ==
    /\ proc = "down" /\ sessions < MaxSessions
    /\ sessions' = sessions + 1
    /\ weights' = Loaded

\* The process ends where it is: a kill, a second interrupt, a server's exit.
Kill ==
    /\ proc # "down"
    /\ proc' = "down"
    /\ todo' = <<>>
    /\ live' = Empty
    /\ traj' = Empty
    /\ collected' = <<>>
    /\ weights' = [born |-> 0, upto |-> 0]
    /\ corpus' = [idx |-> 0, end |-> 0, next |-> 0, stop |-> FALSE, fresh |-> FALSE]
    /\ UNCHANGED <<disk, tmp, made, sessions, finished>>

Serve ==
    /\ Starts
    /\ proc' = "live"
    /\ UNCHANGED <<todo, disk, tmp, live, traj, collected, corpus, made, finished>>

\* _bank_note: the oldest half goes when the stretch overflows.
LiveToken ==
    /\ proc = "live" /\ Idle /\ made < MaxFrames
    /\ LET s == Extended(live) IN
       live' = IF Length(s) > MemMax THEN [s EXCEPT !.from = s.to - MemKeep + 1] ELSE s
    /\ made' = made + 1
    /\ UNCHANGED <<proc, todo, disk, tmp, traj, collected, weights, corpus, sessions, finished>>

\* Between turns (relieve_pressure) and every SAVE_EVERY tokens.
LivePersist ==
    /\ proc = "live" /\ Idle
    /\ todo' = Persist
    /\ live' = IF Length(live) < 2 THEN Empty ELSE live
    /\ UNCHANGED <<proc, disk, tmp, traj, collected, weights, corpus, made, sessions, finished>>

(* ------------------------------------------------------------- pretraining *)

\* _load_progress: a file that cannot be parsed is no progress.
Progress == IF disk.progress \in {Torn, None} THEN 0 ELSE disk.progress

\* main(): with --fresh the slot's file and the progress are removed, and
\* sidecar.slot is replaced by a new slot.  The head keeps its own: weights is
\* wrap.slot, which is what is trained and saved.
Pretrain(fresh, end) ==
    LET wipe  == fresh /\ disk.slot # None
        start == IF fresh THEN 0 ELSE Progress
    IN  /\ Starts
        /\ start < end
        /\ proc' = "between"
        /\ disk' = IF wipe THEN [disk EXCEPT !.slot = None, !.progress = None] ELSE disk
        /\ corpus' = [idx |-> start, end |-> end, next |-> 0, stop |-> FALSE, fresh |-> wipe]
        /\ UNCHANGED <<todo, tmp, live, traj, collected, made, finished>>

Interrupt ==
    /\ proc \in {"between", "prompt", "ended", "fit", "fitted"} /\ corpus.end > 0 /\ ~corpus.stop
    /\ corpus' = [corpus EXCEPT !.stop = TRUE]
    /\ UNCHANGED <<proc, todo, disk, tmp, live, traj, collected, weights, made, sessions, finished>>

More == proc = "between" /\ Idle /\ ~corpus.stop /\ corpus.idx < corpus.end

PromptStarts ==
    /\ More
    /\ proc' = "prompt"
    /\ UNCHANGED <<todo, disk, tmp, live, traj, collected, weights, corpus, made, sessions, finished>>

\* A prompt that is empty after trimming counts as done.
PromptSkipped ==
    /\ More
    /\ corpus' = [corpus EXCEPT !.next = corpus.idx + 1, !.idx = @ + 1]
    /\ todo' = Save("progress")
    /\ finished' = finished \cup {corpus.idx}
    /\ UNCHANGED <<proc, disk, tmp, live, traj, collected, weights, made, sessions>>

\* _collect_pretrain.  The loop tests the flag after a token, so one or another
\* may follow the interrupt.
PromptToken ==
    /\ proc = "prompt" /\ made < MaxFrames
    /\ traj' = Extended(traj)
    /\ made' = made + 1
    /\ UNCHANGED <<proc, todo, disk, tmp, live, collected, weights, corpus, sessions, finished>>

\* The decode ends, is interrupted or fails; relieve_pressure saves, then
\* end_pretrain_prompt closes the trajectory.
PromptEnds ==
    /\ proc = "prompt"
    /\ proc' = "ended"
    /\ todo' = Persist
    /\ collected' = IF Length(traj) >= 2 THEN Append(collected, traj) ELSE collected
    /\ traj' = Empty
    /\ finished' = IF corpus.stop THEN finished ELSE finished \cup {corpus.idx}
    /\ UNCHANGED <<disk, tmp, live, weights, corpus, made, sessions>>

\* Mutant: an interrupted prompt counts as done.
ResumeAfter(c) == c.idx + 1

\* An interrupted prompt is done again.
ResumeAt(c) == IF c.stop THEN c.idx ELSE c.idx + 1

PromptRecorded ==
    /\ proc = "ended" /\ Idle
    /\ corpus' = [corpus EXCEPT !.next = ResumeAt(corpus), !.idx = @ + 1]
    /\ proc' = "between"
    /\ todo' = Save("progress")
    /\ UNCHANGED <<disk, tmp, live, traj, collected, weights, made, sessions, finished>>

\* What is learned while collecting (_pretrain_samples): from frame to frame.
Pairs(ts) == FoldSeq(LAMBDA t, n : n + Length(t) - 1, 0, ts)

CollectEnds == proc = "between" /\ Idle /\ (corpus.stop \/ corpus.idx = corpus.end)

\* Too few samples: the online weights are saved, the trajectories are not.
TooFew ==
    /\ CollectEnds /\ Pairs(collected) < MinSamples
    /\ proc' = "closing"
    /\ todo' = Persist
    /\ UNCHANGED <<disk, tmp, live, traj, collected, weights, corpus, made, sessions, finished>>

\* Mutant: the fit starts without saving the bank.
FitFirst == <<>>

\* fit_pretrain banks what was collected before it trains.
BeforeFit == Save("bank")

FitStarts ==
    /\ CollectEnds /\ Pairs(collected) >= MinSamples
    /\ proc' = "fit"
    /\ todo' = BeforeFit
    /\ UNCHANGED <<disk, tmp, live, traj, collected, weights, corpus, made, sessions, finished>>

\* expand_trajectories: every frame after the first, from each window before it.
Samples(ts) == Scales * Pairs(ts)

\* from_bank: a bank that can be read and has enough is one to fit from.
BankToFit == disk.bank # Torn /\ Samples(disk.bank) >= MinSamples

\* --fit-only: a sidecar over the bank, no corpus; the bank is saved as it was.
FitOnly ==
    /\ Starts
    /\ BankToFit
    /\ proc' = "fit"
    /\ todo' = BeforeFit
    /\ UNCHANGED <<disk, tmp, live, traj, collected, corpus, made, finished>>

\* The dense fit, on what was collected, or on the bank if nothing was.
FitTrains ==
    /\ proc = "fit" /\ Idle
    /\ LET data == IF collected = <<>> THEN disk.bank ELSE collected IN
       weights' = [weights EXCEPT !.upto = IF data # <<>> /\ Last(data).to > @ THEN Last(data).to ELSE @]
    /\ collected' = <<>>
    /\ proc' = "fitted"
    /\ todo' = Persist
    /\ UNCHANGED <<disk, tmp, live, traj, corpus, made, sessions, finished>>

\* Progress is cleared when the corpus is finished; then close() saves again.
FitEnds ==
    /\ proc = "fitted" /\ Idle
    /\ disk' = IF corpus.end > 0 /\ ~corpus.stop /\ Progress >= Prompts
               THEN [disk EXCEPT !.progress = None] ELSE disk
    /\ proc' = "closing"
    /\ todo' = Persist
    /\ UNCHANGED <<tmp, live, traj, collected, weights, corpus, made, sessions, finished>>

Closed ==
    /\ proc = "closing" /\ Idle
    /\ proc' = "down"
    /\ collected' = <<>>
    /\ weights' = [born |-> 0, upto |-> 0]
    /\ corpus' = [idx |-> 0, end |-> 0, next |-> 0, stop |-> FALSE, fresh |-> FALSE]
    /\ UNCHANGED <<todo, disk, tmp, live, traj, made, sessions, finished>>

Next ==
    \/ OpenFile \/ FillFile \/ SwapFile \/ SaveFails
    \/ Kill \/ Serve \/ LiveToken \/ LivePersist
    \/ \E fresh \in BOOLEAN, end \in 1..Prompts : Pretrain(fresh, end)
    \/ Interrupt \/ PromptStarts \/ PromptSkipped \/ PromptToken \/ PromptEnds \/ PromptRecorded
    \/ TooFew \/ FitStarts \/ FitOnly \/ FitTrains \/ FitEnds \/ Closed

Spec == Init /\ [][Next]_vars

(* --------------------------------------------------------------- properties *)

\* The bank and the wrap slot on disk are whole at every moment a process can
\* be killed: a reader finds the old file or the new one (save_bank, save).
FilesWhole == disk.bank # Torn /\ disk.slot # Torn

\* No frame is banked twice or out of order, over any sequence of sessions,
\* kills and failed saves: the bank's trajectories follow each other in time,
\* and what is in memory follows the bank (until the fit has saved it).
BankInOrder ==
    disk.bank # Torn =>
        LET held == (IF proc = "fit" THEN <<>> ELSE collected)
                    \o (IF Length(live) = 0 THEN <<>> ELSE <<live>>)
            all  == disk.bank \o held
        IN  \A i \in 1..Len(all) : all[i].from <= all[i].to /\ (i > 1 => all[i - 1].to < all[i].from)

\* A prompt behind the progress mark was decoded to its end in some session (or
\* failed, or was empty): an interrupt does not skip the prompt it cut short.
\* (--start-at, which skips prompts on purpose, and --no-resume, which forgets
\* the mark, are not modelled.)
ProgressFinished == \A p \in 0..(Progress - 1) : p \in finished

\* Weights never hold a dense fit of a frame newer than the bank has: a kill in
\* the fit leaves the newest data for --fit-only.  (Of a collection longer than
\* the bank, the oldest is trained on and not banked.)
TrainedIsBanked ==
    \A w \in {weights} \cup ({disk.slot} \ {Torn, None}) :
        w.upto > 0 => disk.bank \notin {Torn, <<>>} /\ w.upto <= Last(disk.bank).to

\* README.md:363: "--fresh / --force wipes slot weights + progress and starts
\* over": after a --fresh run no slot older than that run is saved.
FreshStartsOver == corpus.fresh /\ disk.slot # None => disk.slot.born = sessions

TypeOK ==
    /\ proc \in {"down", "live", "between", "prompt", "ended", "fit", "fitted", "closing"}
    /\ disk.bank \in Seq(Traj) \cup {Torn}
    /\ Len(todo) <= 8
    /\ disk.slot \in Weights \cup {None, Torn}
    /\ disk.progress \in 0..Prompts \cup {None, Torn}
    /\ live.to <= made /\ traj.to <= made /\ made <= MaxFrames
    /\ weights \in Weights
=============================================================================
