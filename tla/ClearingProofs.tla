--------------------------- MODULE ClearingProofs ---------------------------
(***************************************************************************)
(* The locks and re-reads of clear_events and public.clawback are enough,  *)
(* for any number of windows, sessions and clawbacks: no event is booked   *)
(* twice, no click is paid without its impression, nothing is paid while   *)
(* its review stands, a clawback reverses all there is, and deadlocks need *)
(* the publisher's row.                                                    *)
(***************************************************************************)
EXTENDS Clearing, TLAPS

\* A source that has been taken from the clawback's window.
Gone(t, s) == s \in undo[t].rows \/ state[s] \notin Billable

\* A clawback touches its window only, and when it commits it has both sources.
UndoOwnsWindow ==
  \A t \in Clawers :
    /\ undo[t].pc # "start" => undo[t].window \in Windows
    /\ undo[t].rows \subseteq SourcesOf(undo[t].window)
    /\ undo[t].reversed \subseteq SourcesOf(undo[t].window)
    /\ undo[t].pc \in {"click", "commit"} => Gone(t, Impression(undo[t].window))
    /\ undo[t].pc = "commit" => Gone(t, Click(undo[t].window))

\* The legs follow the state, and what a clawback reverses nobody else does.
LegsFollow == \A s \in Sources : legs[s] = "cleared" => state[s] \in {"cleared", "clawed_back"}
ReversedByOne ==
  \A t \in Clawers : \A s \in undo[t].reversed :
    legs[s] = "cleared" /\ \A u \in Clawers \ {t} : s \notin undo[u].reversed

\* What a run has selected is old, free of flags, and no click without its
\* impression, unless somebody else has changed it since.
SelectionStands ==
  \A c \in Clearers : \A s \in run[c].seen \cup run[c].held :
    state[s] = "provisional" =>
      /\ age[s] = "aged"
      /\ ~FlagStands(s[1])
      /\ s[2] = "click" =>
           state[Impression(s[1])] = "cleared" \/ Impression(s[1]) \in run[c].held

\* The two events of a window age together, and only old ones are cleared.
AgeTogether ==
  \A s \in Sources : age[s] = "aged" => \A other \in SourcesOf(s[1]) : age[other] # "recent"
ClearedAged == \A s \in Sources : state[s] = "cleared" => age[s] = "aged"

IInv ==
  /\ TypeOK /\ UndoOwnsWindow /\ LegsFollow /\ ReversedByOne /\ SelectionStands
  /\ AgeTogether /\ ClearedAged
  /\ NoDoubleAccrual /\ BookedMatchesState /\ PairStandsTogether /\ WithheldUnderReview

-----------------------------------------------------------------------------
RunRecord == [phase : {"idle", "impression", "click"},
              seen : SUBSET Sources, held : SUBSET Sources, share : BOOLEAN]
UndoRecord ==
  [origin : {"none", "approve", "admin", "scan"},
   pc : {"start", "publisher", "reverse", "impression", "click", "commit", "done"},
   window : Windows \cup {"none"}, reversed : SUBSET Sources, rows : SUBSET Sources]

LEMMA SourceFacts ==
  /\ \A w \in Windows : /\ Impression(w) \in Sources /\ Click(w) \in Sources
                        /\ SourcesOf(w) = {Impression(w), Click(w)}
                        /\ SourcesOf(w) \subseteq Sources
                        /\ Impression(w)[1] = w /\ Click(w)[1] = w
                        /\ Impression(w)[2] = "impression" /\ Click(w)[2] = "click"
  /\ \A s \in Sources : /\ s[1] \in Windows /\ s \in SourcesOf(s[1])
                        /\ s = Impression(s[1]) \/ s = Click(s[1])
  /\ \A s \in Sources : \A w : s \in SourcesOf(w) => s[1] = w
  /\ \A s \in Sources : s[2] = "click" => s = Click(s[1])
PROOF
  BY DEF Impression, Click, Sources, SourcesOf, Kinds

LEMMA InitHolds == ASSUME Init PROVE IInv
PROOF
  <1> USE DEF Init, Idle, Unstarted
  <1>1. TypeOK
    BY ClearingAssumption DEF TypeOK
  <1>2. UndoOwnsWindow /\ LegsFollow /\ ReversedByOne
    BY DEF UndoOwnsWindow, LegsFollow, ReversedByOne
  <1>3. SelectionStands /\ AgeTogether /\ ClearedAged
    BY DEF SelectionStands, AgeTogether, ClearedAged
  <1>4. NoDoubleAccrual /\ BookedMatchesState
    BY DEF NoDoubleAccrual, BookedMatchesState
  <1>5. PairStandsTogether /\ WithheldUnderReview
    BY SourceFacts DEF PairStandsTogether, WithheldUnderReview
  <1> QED BY <1>1, <1>2, <1>3, <1>4, <1>5 DEF IInv

-----------------------------------------------------------------------------
(* The steps of a run before it commits change nothing but its own record. *)

\* A record that a run may take: what it has accrued is its own, what it has
\* selected stands.
AccruedAlone(c, S) ==
  \A s \in S :
    /\ state[s] = "provisional" /\ legs[s] = "none"
    /\ \A d \in Clearers \ {c} : s \notin run[d].held
    /\ \A t \in Clawers : s \notin undo[t].rows
Stands(S, held) ==
  \A s \in S :
    state[s] = "provisional" =>
      /\ age[s] = "aged"
      /\ ~FlagStands(s[1])
      /\ s[2] = "click" =>
           state[Impression(s[1])] = "cleared" \/ Impression(s[1]) \in held
RunFits(c, x) ==
  /\ x \in RunRecord
  /\ x.phase = "idle" => x = Idle
  /\ AccruedAlone(c, x.held)
  /\ Stands(x.seen \cup x.held, x.held)

LEMMA OnlyRun ==
  ASSUME IInv, NEW c \in Clearers, NEW x, run' = [run EXCEPT ![c] = x], RunFits(c, x),
         UNCHANGED <<state, legs, age, review, undo>>, crashes' \in Nat
  PROVE  IInv'
PROOF
  <1>1. run \in [Clearers -> RunRecord]
    BY DEF IInv, TypeOK, RunRecord
  <1>2. run'[c] = x /\ \A d \in Clearers \ {c} : run'[d] = run[d]
    BY <1>1
  <1>3. TypeOK'
    BY <1>1, <1>2 DEF IInv, TypeOK, RunRecord, RunFits
  <1>4. NoDoubleAccrual'
    BY <1>2 DEF IInv, NoDoubleAccrual, RunFits, AccruedAlone
  <1>5. SelectionStands'
    BY <1>2 DEF IInv, SelectionStands, FlagStands, RunFits, Stands
  <1>6. (UndoOwnsWindow /\ LegsFollow /\ ReversedByOne)'
    BY DEF IInv, UndoOwnsWindow, Gone, LegsFollow, ReversedByOne
  <1>7. (AgeTogether /\ ClearedAged /\ BookedMatchesState /\ PairStandsTogether)'
    BY DEF IInv, AgeTogether, ClearedAged, BookedMatchesState, PairStandsTogether
  <1>8. WithheldUnderReview'
    BY DEF IInv, WithheldUnderReview, FlagStands
  <1> QED BY <1>3, <1>4, <1>5, <1>6, <1>7, <1>8 DEF IInv

LEMMA SelectedStands ==
  ASSUME NEW c \in Clearers, NEW kind \in Kinds, NEW s \in Selected(c, kind)
  PROVE  /\ s \in Sources /\ s[2] = kind /\ age[s] = "aged" /\ ~FlagStands(s[1])
         /\ kind = "click" =>
              state[Impression(s[1])] = "cleared" \/ Impression(s[1]) \in run[c].held
PROOF
  <1>1. s \in Sources /\ s[2] = kind /\ age[s] = "aged" /\ ~Blocked(s[1])
    BY DEF Selected
  <1>2. ~FlagStands(s[1])
    BY <1>1 DEF Blocked, FlagStands, SourcesOf
  <1> QED BY <1>1, <1>2 DEF Selected, EligibleClick

LEMMA RunSteps ==
  ASSUME IInv, NEW c \in Clearers,
         \/ OpenImpressions(c) \/ Accrue(c) \/ OpenClicks(c) \/ AbortClear(c)
         \/ \E s \in Sources : Fetch(c, s)
  PROVE  IInv'
PROOF
  <1>1. run \in [Clearers -> RunRecord] /\ run[c] \in RunRecord /\ crashes \in Nat
    BY DEF IInv, TypeOK, RunRecord
  <1>0. run[c].phase = "idle" => run[c].seen = {} /\ run[c].held = {}
    <2>1. run[c].phase = "idle" => run[c] = Idle
      BY DEF IInv, TypeOK
    <2> QED BY <2>1 DEF Idle
  <1>2. AccruedAlone(c, run[c].held)
    BY DEF IInv, NoDoubleAccrual, AccruedAlone
  <1>3. Stands(run[c].seen \cup run[c].held, run[c].held)
    BY DEF IInv, SelectionStands, Stands
  <1>4. CASE OpenImpressions(c)
    <2> DEFINE x == [run[c] EXCEPT !.phase = "impression", !.seen = Selected(c, "impression")]
    <2>1. x \in RunRecord /\ x.phase # "idle" /\ x.held = {} /\ x.seen = Selected(c, "impression")
      <3>1. run[c].held = {} /\ Selected(c, "impression") \in SUBSET Sources
        BY <1>0, <1>4 DEF OpenImpressions, Selected
      <3> QED BY <1>1, <3>1 DEF RunRecord
    <2>2. run' = [run EXCEPT ![c] = x]
      BY <1>1, <1>4 DEF OpenImpressions
    <2>3. UNCHANGED <<state, legs, age, review, undo>> /\ crashes' \in Nat
      BY <1>1, <1>4 DEF OpenImpressions
    <2> HIDE DEF x
    <2>4. RunFits(c, x)
      BY <2>1, SelectedStands DEF Kinds, RunFits, AccruedAlone, Stands
    <2> QED BY <2>2, <2>3, <2>4, OnlyRun
  <1>5. CASE OpenClicks(c)
    <2> DEFINE x == [run[c] EXCEPT !.phase = "click", !.seen = Selected(c, "click")]
    <2>1. /\ x \in RunRecord /\ x.phase # "idle" /\ x.held = run[c].held
          /\ x.seen = Selected(c, "click")
      BY <1>1 DEF RunRecord, Selected
    <2>2. run' = [run EXCEPT ![c] = x]
      BY <1>1, <1>5 DEF OpenClicks
    <2>3. UNCHANGED <<state, legs, age, review, undo>> /\ crashes' \in Nat
      BY <1>1, <1>5 DEF OpenClicks
    <2> HIDE DEF x
    <2>4. Stands(x.seen \cup x.held, x.held)
      <3>1. ASSUME NEW s \in Selected(c, "click")
            PROVE  /\ age[s] = "aged" /\ ~FlagStands(s[1])
                   /\ state[Impression(s[1])] = "cleared" \/ Impression(s[1]) \in run[c].held
        BY SelectedStands DEF Kinds
      <3> QED BY <1>3, <2>1, <3>1 DEF Stands
    <2> QED BY <1>2, <2>1, <2>2, <2>3, <2>4, OnlyRun DEF RunFits
  <1>6. CASE AbortClear(c)
    <2>1. Idle \in RunRecord /\ Idle.seen = {} /\ Idle.held = {}
      BY DEF Idle, RunRecord
    <2>2. /\ run' = [run EXCEPT ![c] = Idle]
          /\ UNCHANGED <<state, legs, age, review, undo>> /\ crashes' \in Nat
      BY <1>1, <1>6 DEF AbortClear
    <2>3. RunFits(c, Idle)
      BY <2>1 DEF RunFits, AccruedAlone, Stands
    <2> QED BY <2>2, <2>3, OnlyRun
  <1>7. ASSUME NEW s \in Sources, Fetch(c, s) PROVE IInv'
    <2> DEFINE taken == ~Locked(c, "none", s) /\ state[s] = "provisional"
               x == [run[c] EXCEPT !.seen = @ \ {s},
                                   !.held = IF taken THEN @ \cup {s} ELSE @]
    <2>1. /\ x \in RunRecord /\ x.phase = run[c].phase /\ x.seen \subseteq run[c].seen
          /\ x.held = IF taken THEN run[c].held \cup {s} ELSE run[c].held
      BY <1>1 DEF RunRecord
    <2>2. run' = [run EXCEPT ![c] = x]
      BY <1>1, <1>7 DEF Fetch
    <2>3. UNCHANGED <<state, legs, age, review, undo>> /\ crashes' \in Nat
      BY <1>1, <1>7 DEF Fetch
    <2>4. s \in run[c].seen /\ run[c].phase # "idle"
      BY <1>0, <1>7 DEF Fetch
    <2>5. taken => /\ state[s] = "provisional"
                   /\ \A d \in Clearers \ {c} : s \notin run[d].held
                   /\ \A t \in Clawers : s \notin undo[t].rows
      BY ClearingAssumption DEF Locked
    <2>6. state[s] = "provisional" => legs[s] = "none"
      BY DEF IInv, TypeOK, LegsFollow, BookedMatchesState
    <2> HIDE DEF x, taken
    <2>7. AccruedAlone(c, x.held)
      BY <1>2, <2>1, <2>5, <2>6 DEF AccruedAlone
    <2>8. Stands(x.seen \cup x.held, x.held)
      BY <1>3, <2>1, <2>4 DEF Stands
    <2>9. RunFits(c, x)
      BY <2>1, <2>4, <2>7, <2>8 DEF RunFits
    <2> QED BY <2>2, <2>3, <2>9, OnlyRun
  <1>8. CASE Accrue(c)
    <2> DEFINE x == [run[c] EXCEPT !.share = TRUE]
    <2>1. /\ x \in RunRecord /\ x.phase = run[c].phase /\ x.held = run[c].held
          /\ x.seen = run[c].seen
      BY <1>1 DEF RunRecord
    <2>2. /\ run' = [run EXCEPT ![c] = x]
          /\ UNCHANGED <<state, legs, age, review, undo>> /\ crashes' \in Nat
      BY <1>1, <1>8 DEF Accrue
    <2>3. x.phase # "idle"
      BY <1>0, <1>8, <2>1 DEF Accrue, WantsShare
    <2> HIDE DEF x
    <2>4. RunFits(c, x)
      BY <1>2, <1>3, <2>1, <2>3 DEF RunFits
    <2> QED BY <2>2, <2>4, OnlyRun
  <1> QED BY <1>4, <1>5, <1>6, <1>7, <1>8

LEMMA CommitClearStep == ASSUME IInv, NEW c \in Clearers, CommitClear(c) PROVE IInv'
PROOF
  <1> DEFINE H == run[c].held
  <1>1. /\ state' = [s \in Sources |-> IF s \in H THEN "cleared" ELSE state[s]]
        /\ legs' = [s \in Sources |-> IF s \in H THEN "cleared" ELSE legs[s]]
        /\ run' = [run EXCEPT ![c] = Idle] /\ UNCHANGED <<age, review, undo, crashes>>
    BY DEF CommitClear
  <1>2. run \in [Clearers -> RunRecord] /\ H \subseteq Sources
    BY DEF IInv, TypeOK, RunRecord
  <1>3. Idle \in RunRecord /\ Idle.seen = {} /\ Idle.held = {}
    BY DEF Idle, RunRecord
  <1>4. run'[c] = Idle /\ \A d \in Clearers \ {c} : run'[d] = run[d]
    BY <1>1, <1>2
  <1>5. \A s \in H :
           /\ state[s] = "provisional" /\ legs[s] = "none" /\ age[s] = "aged" /\ ~FlagStands(s[1])
           /\ \A d \in Clearers \ {c} : s \notin run[d].held
           /\ \A t \in Clawers : s \notin undo[t].rows
           /\ s[2] = "click" =>
                state[Impression(s[1])] = "cleared" \/ Impression(s[1]) \in H
    BY DEF IInv, NoDoubleAccrual, SelectionStands
  <1> HIDE DEF H
  <1>6. TypeOK'
    <2>1. (/\ state \in [Sources -> {"none", "provisional", "cleared", "clawed_back"}]
           /\ legs \in [Sources -> {"none", "cleared", "reversed"}])'
      BY <1>1, <1>2 DEF IInv, TypeOK
    <2>2. (/\ run \in [Clearers -> RunRecord]
           /\ \A d \in Clearers : run[d].phase = "idle" => run[d] = Idle)'
      BY <1>1, <1>2, <1>3, <1>4 DEF IInv, TypeOK
    <2> QED BY <1>1, <2>1, <2>2 DEF IInv, TypeOK, RunRecord
  <1>7. UndoOwnsWindow'
    BY <1>1, <1>5, SourceFacts DEF IInv, TypeOK, UndoOwnsWindow, Gone, Billable
  <1>8. LegsFollow' /\ ReversedByOne'
    BY <1>1, <1>5 DEF IInv, TypeOK, LegsFollow, ReversedByOne
  <1>9. SelectionStands'
    <2>1. SUFFICES ASSUME NEW d \in Clearers, NEW s \in run'[d].seen \cup run'[d].held,
                          state'[s] = "provisional"
                   PROVE  /\ age[s] = "aged"
                          /\ ~FlagStands(s[1])
                          /\ s[2] = "click" => \/ state'[Impression(s[1])] = "cleared"
                                               \/ Impression(s[1]) \in run'[d].held
      BY <1>1 DEF SelectionStands, FlagStands
    <2>2. d # c /\ run'[d] = run[d] /\ s \in Sources /\ state[s] = "provisional"
      BY <1>1, <1>2, <1>3, <1>4, <2>1 DEF RunRecord
    <2> QED BY <1>1, <2>1, <2>2, SourceFacts DEF IInv, SelectionStands
  <1>10. AgeTogether' /\ ClearedAged'
    BY <1>1, <1>5 DEF IInv, AgeTogether, ClearedAged
  <1>11. NoDoubleAccrual'
    <2>1. SUFFICES ASSUME NEW d \in Clearers, NEW s \in run'[d].held
                   PROVE  /\ state'[s] = "provisional" /\ legs'[s] = "none"
                          /\ \A e \in Clearers \ {d} : s \notin run'[e].held
                          /\ \A t \in Clawers : s \notin undo'[t].rows
      BY DEF NoDoubleAccrual
    <2>2. d # c /\ s \in run[d].held /\ s \notin H
      BY <1>3, <1>4, <1>5, <2>1
    <2>3. /\ s \in Sources /\ state[s] = "provisional" /\ legs[s] = "none"
          /\ \A e \in Clearers \ {d} : s \notin run[e].held
          /\ \A t \in Clawers : s \notin undo[t].rows
      BY <1>2, <2>2 DEF IInv, NoDoubleAccrual, RunRecord
    <2> QED BY <1>1, <1>3, <1>4, <2>2, <2>3
  <1>12. BookedMatchesState' /\ PairStandsTogether'
    <2>1. BookedMatchesState'
      BY <1>1, <1>5 DEF IInv, BookedMatchesState
    <2>2. PairStandsTogether'
      BY <1>1, <1>5, SourceFacts DEF IInv, PairStandsTogether
    <2> QED BY <2>1, <2>2
  <1>13. WithheldUnderReview'
    BY <1>1, <1>5, SourceFacts DEF IInv, WithheldUnderReview, FlagStands
  <1> QED BY <1>6, <1>7, <1>8, <1>9, <1>10, <1>11, <1>12, <1>13 DEF IInv

-----------------------------------------------------------------------------
(* The steps of a clawback before it commits.                              *)

\* A record that a clawback may take: it stays with its window, reverses what
\* nobody else reverses and holds rows that no run holds.
UndoFits(t, x) ==
  /\ x \in UndoRecord
  /\ x.pc \in {"start", "done"} => x.rows = {}
  /\ x.pc # "start" => x.window \in Windows
  /\ x.rows \subseteq SourcesOf(x.window) /\ x.reversed \subseteq SourcesOf(x.window)
  /\ x.pc \in {"click", "commit"} =>
       Impression(x.window) \in x.rows \/ state[Impression(x.window)] \notin Billable
  /\ x.pc = "commit" => Click(x.window) \in x.rows \/ state[Click(x.window)] \notin Billable
  /\ \A s \in x.reversed :
       legs[s] = "cleared" /\ \A u \in Clawers \ {t} : s \notin undo[u].reversed
  /\ \A s \in x.rows : \A c \in Clearers : s \notin run[c].held

LEMMA OnlyUndo ==
  ASSUME IInv, NEW t \in Clawers, NEW x, undo' = [undo EXCEPT ![t] = x], UndoFits(t, x),
         UNCHANGED <<state, legs, age, review, run, crashes>>
  PROVE  IInv'
PROOF
  <1>1. undo \in [Clawers -> UndoRecord]
    BY DEF IInv, TypeOK, UndoRecord
  <1>2. undo'[t] = x /\ \A u \in Clawers \ {t} : undo'[u] = undo[u]
    BY <1>1
  <1>3. TypeOK'
    BY <1>1, <1>2 DEF IInv, TypeOK, UndoRecord, UndoFits
  <1>4. UndoOwnsWindow'
    BY <1>2 DEF IInv, UndoOwnsWindow, Gone, UndoFits
  <1>5. LegsFollow' /\ ReversedByOne'
    BY <1>2 DEF IInv, LegsFollow, ReversedByOne, UndoFits
  <1>6. NoDoubleAccrual'
    BY <1>2 DEF IInv, NoDoubleAccrual, UndoFits
  <1>7. SelectionStands'
    BY DEF IInv, SelectionStands, FlagStands
  <1>8. (AgeTogether /\ ClearedAged /\ BookedMatchesState /\ PairStandsTogether)'
    BY DEF IInv, AgeTogether, ClearedAged, BookedMatchesState, PairStandsTogether
  <1>9. WithheldUnderReview'
    BY DEF IInv, WithheldUnderReview, FlagStands
  <1> QED BY <1>3, <1>4, <1>5, <1>6, <1>7, <1>8, <1>9 DEF IInv

LEMMA BeginSteps ==
  ASSUME IInv, NEW t \in Clawers, NEW w \in Windows,
         BeginApprove(t, w) \/ BeginAdmin(t, w) \/ BeginScan(t, w)
  PROVE  IInv'
PROOF
  <1>1. ASSUME NEW origin \in Origins, NEW pc \in {"reverse", "publisher"},
               NEW rows \in SUBSET {Impression(w)}, Begin(t, w, origin, pc, rows),
               \A s \in rows : \A c \in Clearers : s \notin run[c].held
        PROVE  IInv'
    <2> DEFINE x == [origin |-> origin, pc |-> pc, window |-> w, reversed |-> {}, rows |-> rows]
    <2>1. x \in UndoRecord
      BY ClearingAssumption, SourceFacts DEF UndoRecord
    <2>2. x.pc = pc /\ x.window = w /\ x.reversed = {} /\ x.rows = rows
      OBVIOUS
    <2>3. /\ undo' = [undo EXCEPT ![t] = x]
          /\ UNCHANGED <<state, legs, age, review, run, crashes>>
      BY <1>1 DEF Begin
    <2> HIDE DEF x
    <2>4. UndoFits(t, x)
      BY <1>1, <2>1, <2>2, SourceFacts DEF UndoFits
    <2> QED BY <2>3, <2>4, OnlyUndo
  <1>2. CASE BeginApprove(t, w)
    <2>1. Begin(t, w, "approve", "reverse", {}) /\ "approve" \in Origins
      BY <1>2 DEF BeginApprove, Begin
    <2> QED BY <1>1, <2>1
  <1>3. CASE BeginScan(t, w)
    <2>1. Begin(t, w, "scan", "publisher", {}) /\ "scan" \in Origins
      BY <1>3 DEF BeginScan, Begin
    <2> QED BY <1>1, <2>1
  <1>4. CASE BeginAdmin(t, w)
    <2>1. Begin(t, w, "admin", "publisher", {Impression(w)}) /\ "admin" \in Origins
      BY <1>4 DEF BeginAdmin, Begin
    <2>2. \A c \in Clearers : Impression(w) \notin run[c].held
      BY <1>4, ClearingAssumption DEF BeginAdmin, Locked
    <2> QED BY <1>1, <2>1, <2>2
  <1> QED BY <1>2, <1>3, <1>4

LEMMA UndoSteps ==
  ASSUME IInv, NEW t \in Clawers,
         \/ TakePublisher(t) \/ Reverse(t) \/ MarkImpression(t) \/ MarkClick(t)
         \/ AbortClawback(t)
  PROVE  IInv'
PROOF
  <1> DEFINE w == undo[t].window
  <1>1. /\ undo \in [Clawers -> UndoRecord] /\ undo[t] \in UndoRecord
        /\ undo[t].pc \in {"start", "done"} => undo[t].rows = {}
        /\ undo[t].pc # "start" => w \in Windows
        /\ undo[t].rows \subseteq SourcesOf(w) /\ undo[t].reversed \subseteq SourcesOf(w)
        /\ undo[t].pc \in {"click", "commit"} =>
             Impression(w) \in undo[t].rows \/ state[Impression(w)] \notin Billable
    BY DEF IInv, TypeOK, UndoRecord, UndoOwnsWindow, Gone
  <1>2. /\ \A s \in undo[t].reversed :
             legs[s] = "cleared" /\ \A u \in Clawers \ {t} : s \notin undo[u].reversed
        /\ \A s \in undo[t].rows : \A c \in Clearers : s \notin run[c].held
    BY DEF IInv, ReversedByOne, NoDoubleAccrual
  <1>3. ASSUME NEW x \in UndoRecord, undo' = [undo EXCEPT ![t] = x],
               UNCHANGED <<state, legs, age, review, run, crashes>>,
               x.pc = "done", x.window = w, x.rows = {}, x.reversed \subseteq undo[t].reversed,
               undo[t].pc # "start"
        PROVE  IInv'
    <2>1. UndoFits(t, x)
      BY <1>1, <1>2, <1>3 DEF UndoFits
    <2> QED BY <1>3, <2>1, OnlyUndo
  <1>4. CASE TakePublisher(t)
    <2>1. /\ undo[t].pc = "publisher" /\ UNCHANGED <<state, legs, age, review, run, crashes>>
          /\ \/ undo' = [undo EXCEPT ![t] = [undo[t] EXCEPT !.pc = "done", !.rows = {}]]
             \/ undo' = [undo EXCEPT ![t] = [undo[t] EXCEPT !.pc = "reverse"]]
      BY <1>1, <1>4 DEF TakePublisher
    <2>2. CASE undo' = [undo EXCEPT ![t] = [undo[t] EXCEPT !.pc = "done", !.rows = {}]]
      <3> DEFINE x == [undo[t] EXCEPT !.pc = "done", !.rows = {}]
      <3>1. /\ x \in UndoRecord /\ x.pc = "done" /\ x.window = w /\ x.rows = {}
            /\ x.reversed = undo[t].reversed
        BY <1>1 DEF UndoRecord
      <3> HIDE DEF x
      <3> QED BY <1>3, <2>1, <2>2, <3>1 DEF x
    <2>3. CASE undo' = [undo EXCEPT ![t] = [undo[t] EXCEPT !.pc = "reverse"]]
      <3> DEFINE x == [undo[t] EXCEPT !.pc = "reverse"]
      <3>1. /\ x \in UndoRecord /\ x.pc = "reverse" /\ x.window = w
            /\ x.rows = undo[t].rows /\ x.reversed = undo[t].reversed
        BY <1>1 DEF UndoRecord
      <3>2. undo' = [undo EXCEPT ![t] = x]
        BY <2>3
      <3> HIDE DEF x
      <3>3. UndoFits(t, x)
        BY <1>1, <1>2, <2>1, <3>1 DEF UndoFits
      <3> QED BY <2>1, <3>2, <3>3, OnlyUndo
    <2> QED BY <2>1, <2>2, <2>3
  <1>5. CASE Reverse(t)
    <2> DEFINE R == {s \in SourcesOf(w) : legs[s] = "cleared"}
               x == [undo[t] EXCEPT !.pc = "impression", !.reversed = R]
    <2>1. /\ undo[t].pc = "reverse" /\ UNCHANGED <<state, legs, age, review, run, crashes>>
          /\ undo' = [undo EXCEPT ![t] = x]
      BY <1>1, <1>5 DEF Reverse
    <2>2. \A u \in Clawers \ {t} : undo[u].reversed \cap SourcesOf(w) = {}
      BY <1>5 DEF Reverse, WaitsFor, Transactions
    <2>3. R \subseteq Sources
      BY <1>1, <2>1, SourceFacts
    <2>4. /\ x \in UndoRecord /\ x.pc = "impression" /\ x.window = w
          /\ x.rows = undo[t].rows /\ x.reversed = R
      BY <1>1, <2>3 DEF UndoRecord
    <2>5. \A s \in R :
             legs[s] = "cleared" /\ \A u \in Clawers \ {t} : s \notin undo[u].reversed
      BY <2>2
    <2>6. R \subseteq SourcesOf(w)
      OBVIOUS
    <2> HIDE DEF x, R
    <2>7. UndoFits(t, x)
      BY <1>1, <1>2, <2>1, <2>4, <2>5, <2>6 DEF UndoFits
    <2> QED BY <2>1, <2>7, OnlyUndo
  <1>6. ASSUME NEW s \in SourcesOf(w), NEW next \in {"click", "commit"}, NEW pc,
               Mark(t, pc, next), NextRow(t) = s, pc \in {"impression", "click"},
               next = "click" => s = Impression(w),
               next = "commit" => s = Click(w) /\ pc = "click"
        PROVE  IInv'
    <2> DEFINE billable == state[s] \in Billable
               x == [undo[t] EXCEPT !.pc = next, !.rows = IF billable THEN @ \cup {s} ELSE @]
    <2>1. /\ undo[t].pc = pc /\ UNCHANGED <<state, legs, age, review, run, crashes>>
          /\ undo' = [undo EXCEPT ![t] = x]
      BY <1>1, <1>6 DEF Mark
    <2>2. \A c \in Clearers : s \notin run[c].held
      BY <1>6, ClearingAssumption DEF Mark, Locked
    <2>3. s \in Sources /\ w \in Windows
      BY <1>1, <1>6, <2>1, SourceFacts
    <2>4. /\ x \in UndoRecord /\ x.pc = next /\ x.window = w /\ x.reversed = undo[t].reversed
          /\ x.rows = IF billable THEN undo[t].rows \cup {s} ELSE undo[t].rows
      BY <1>1, <2>3 DEF UndoRecord
    <2>5. billable \/ state[s] \notin Billable
      OBVIOUS
    <2> HIDE DEF x, billable
    <2>6. /\ x.rows \subseteq SourcesOf(x.window)
          /\ x.pc \in {"click", "commit"} =>
               Impression(x.window) \in x.rows \/ state[Impression(x.window)] \notin Billable
          /\ x.pc = "commit" =>
               Click(x.window) \in x.rows \/ state[Click(x.window)] \notin Billable
      BY <1>1, <1>6, <2>1, <2>4, <2>5
    <2>7. \A q \in x.rows : \A c \in Clearers : q \notin run[c].held
      BY <1>2, <2>2, <2>4
    <2>8. UndoFits(t, x)
      BY <1>1, <1>2, <2>3, <2>4, <2>6, <2>7 DEF UndoFits
    <2> QED BY <2>1, <2>8, OnlyUndo
  <1>7. CASE MarkImpression(t)
    <2>1. undo[t].pc = "impression" /\ w \in Windows
      BY <1>1, <1>7 DEF MarkImpression, Mark
    <2>2. NextRow(t) = Impression(w)
      BY <2>1 DEF NextRow
    <2> QED BY <1>6, <1>7, <2>1, <2>2, SourceFacts DEF MarkImpression
  <1>8. CASE MarkClick(t)
    <2>1. undo[t].pc = "click" /\ w \in Windows
      BY <1>1, <1>8 DEF MarkClick, Mark
    <2>2. NextRow(t) = Click(w)
      BY <2>1 DEF NextRow
    <2> QED BY <1>6, <1>8, <2>1, <2>2, SourceFacts DEF MarkClick
  <1>9. CASE AbortClawback(t)
    <2> DEFINE x == [undo[t] EXCEPT !.pc = "done", !.rows = {}, !.reversed = {}]
    <2>1. /\ undo[t].pc # "start" /\ UNCHANGED <<state, legs, age, review, run, crashes>>
          /\ undo' = [undo EXCEPT ![t] = x]
      BY <1>1, <1>9 DEF AbortClawback
    <2>2. x \in UndoRecord /\ x.pc = "done" /\ x.window = w /\ x.rows = {} /\ x.reversed = {}
      BY <1>1 DEF UndoRecord
    <2> HIDE DEF x
    <2> QED BY <1>3, <2>1, <2>2
  <1> QED BY <1>4, <1>5, <1>7, <1>8, <1>9

LEMMA CommitClawbackStep ==
  ASSUME IInv, NEW t \in Clawers, CommitClawback(t) PROVE IInv'
PROOF
  <1> DEFINE w == undo[t].window
             R == undo[t].rows
             V == undo[t].reversed
             x == [undo[t] EXCEPT !.pc = "done", !.rows = {}, !.reversed = {}]
  <1>1. /\ undo \in [Clawers -> UndoRecord] /\ undo[t] \in UndoRecord
        /\ undo[t].pc = "commit" /\ w \in Windows /\ R \subseteq SourcesOf(w)
        /\ V \subseteq SourcesOf(w)
        /\ \A s \in SourcesOf(w) : s \in R \/ state[s] \notin Billable
    <2>1. undo[t].pc = "commit"
      BY DEF CommitClawback
    <2>2. undo \in [Clawers -> UndoRecord] /\ undo[t] \in UndoRecord
      BY DEF IInv, TypeOK, UndoRecord
    <2>3. /\ w \in Windows /\ R \subseteq SourcesOf(w) /\ V \subseteq SourcesOf(w)
          /\ Gone(t, Impression(w)) /\ Gone(t, Click(w))
      BY <2>1 DEF IInv, UndoOwnsWindow
    <2>4. SourcesOf(w) = {Impression(w), Click(w)}
      BY <2>3, SourceFacts
    <2> QED BY <2>1, <2>2, <2>3, <2>4 DEF Gone
  <1>2. /\ state' = [s \in Sources |-> IF s \in R THEN "clawed_back" ELSE state[s]]
        /\ legs' = [s \in Sources |-> IF s \in V THEN "reversed" ELSE legs[s]]
        /\ undo' = [undo EXCEPT ![t] = x] /\ UNCHANGED <<age, run, crashes>>
    BY <1>1 DEF CommitClawback
  <1>3. /\ \A q \in Sources : q # Impression(w) => review'[q] = review[q]
        /\ review'[Impression(w)] \in {review[Impression(w)], "approved"}
        /\ review' \in [Sources -> {"none", "pending", "rejected", "approved"}]
    BY <1>1, SourceFacts DEF CommitClawback, IInv, TypeOK
  <1>4. x \in UndoRecord /\ x.pc = "done" /\ x.window = w /\ x.rows = {} /\ x.reversed = {}
    BY <1>1 DEF UndoRecord
  <1>5. undo'[t] = x /\ \A u \in Clawers \ {t} : undo'[u] = undo[u]
    BY <1>1, <1>2
  <1>6. /\ state \in [Sources -> {"none", "provisional", "cleared", "clawed_back"}]
        /\ legs \in [Sources -> {"none", "cleared", "reversed"}]
    BY DEF IInv, TypeOK
  <1>7. /\ \A s \in V : legs[s] = "cleared" /\ \A u \in Clawers \ {t} : s \notin undo[u].reversed
        /\ \A c \in Clearers : \A s \in run[c].held : s \notin R /\ legs[s] = "none"
    BY DEF IInv, ReversedByOne, NoDoubleAccrual
  \* After the commit nothing of the window is billable; the other windows are
  \* as they were.
  <1>8. /\ \A s \in SourcesOf(w) : state'[s] \in {"none", "clawed_back"}
        /\ \A s \in Sources : s[1] # w => state'[s] = state[s]
    BY <1>1, <1>2, <1>6, SourceFacts DEF Billable
  <1>9. \A v \in Windows \ {w} : FlagStands(v)' <=> FlagStands(v)
    BY <1>1, <1>3, SourceFacts DEF FlagStands
  <1>10. SourcesOf(w) \subseteq Sources /\ \A s \in Sources : s[1] = w => s \in SourcesOf(w)
    BY <1>1, SourceFacts
  <1> HIDE DEF w, R, V, x
  <1>11. TypeOK'
    <2>1. (/\ state \in [Sources -> {"none", "provisional", "cleared", "clawed_back"}]
           /\ legs \in [Sources -> {"none", "cleared", "reversed"}])'
      BY <1>2, <1>6
    <2>2. (/\ undo \in [Clawers -> UndoRecord]
           /\ \A u \in Clawers : undo[u].pc \in {"start", "done"} => undo[u].rows = {})'
      BY <1>1, <1>2, <1>4, <1>5 DEF IInv, TypeOK
    <2> QED BY <1>2, <1>3, <2>1, <2>2 DEF IInv, TypeOK, UndoRecord
  <1>12. UndoOwnsWindow'
    <2>1. SUFFICES ASSUME NEW u \in Clawers
                   PROVE  /\ undo'[u].pc # "start" => undo'[u].window \in Windows
                          /\ undo'[u].rows \subseteq SourcesOf(undo'[u].window)
                          /\ undo'[u].reversed \subseteq SourcesOf(undo'[u].window)
                          /\ undo'[u].pc \in {"click", "commit"} =>
                               Gone(u, Impression(undo[u].window))'
                          /\ undo'[u].pc = "commit" => Gone(u, Click(undo[u].window))'
      BY DEF UndoOwnsWindow
    <2>2. CASE u = t
      BY <1>1, <1>4, <1>5, <2>2
    <2>3. CASE u # t
      <3>1. undo'[u] = undo[u]
        BY <1>5, <2>3
      <3>2. \A s \in Sources :
              s \in undo[u].rows \/ state[s] \notin Billable =>
                s \in undo[u].rows \/ state'[s] \notin Billable
        BY <1>2, <3>1 DEF Billable
      <3>3. undo[u].pc \in {"click", "commit"} =>
              /\ Impression(undo[u].window) \in Sources
              /\ Click(undo[u].window) \in Sources
        BY SourceFacts DEF IInv, UndoOwnsWindow
      <3> QED BY <3>1, <3>2, <3>3 DEF IInv, UndoOwnsWindow, Gone
    <2> QED BY <2>2, <2>3
  <1>13. LegsFollow'
    BY <1>2, <1>6 DEF IInv, LegsFollow
  <1>14. ReversedByOne'
    <2>1. SUFFICES ASSUME NEW u \in Clawers, NEW s \in undo'[u].reversed
                   PROVE  /\ legs'[s] = "cleared"
                          /\ \A v \in Clawers \ {u} : s \notin undo'[v].reversed
      BY DEF ReversedByOne
    <2>2. u # t /\ s \in undo[u].reversed
      BY <1>4, <1>5, <2>1
    <2>3. /\ legs[s] = "cleared" /\ s \notin V
          /\ \A v \in Clawers \ {u} : s \notin undo[v].reversed
      BY <1>7, <2>2 DEF IInv, ReversedByOne
    <2>4. s \in Sources
      BY <2>2 DEF IInv, TypeOK
    <2> QED BY <1>2, <1>4, <1>5, <2>2, <2>3, <2>4
  <1>15. SelectionStands'
    <2>1. SUFFICES ASSUME NEW c \in Clearers, NEW s \in run[c].seen \cup run[c].held,
                          state'[s] = "provisional"
                   PROVE  /\ age[s] = "aged"
                          /\ ~FlagStands(s[1])'
                          /\ s[2] = "click" => \/ state'[Impression(s[1])] = "cleared"
                                               \/ Impression(s[1]) \in run[c].held
      BY <1>2 DEF SelectionStands
    <2>2. s \in Sources
      BY <2>1 DEF IInv, TypeOK
    <2>3. s[1] # w
      BY <1>8, <1>10, <2>1, <2>2
    <2>4. state[s] = "provisional"
      BY <1>8, <2>1, <2>2, <2>3
    <2>5. s[1] \in Windows /\ Impression(s[1]) \in Sources /\ Impression(s[1])[1] = s[1]
      BY <2>2, SourceFacts
    <2> QED BY <1>8, <1>9, <2>1, <2>3, <2>4, <2>5 DEF IInv, SelectionStands
  <1>16. AgeTogether' /\ ClearedAged'
    BY <1>2, <1>6 DEF IInv, AgeTogether, ClearedAged
  <1>17. NoDoubleAccrual'
    <2>1. SUFFICES ASSUME NEW c \in Clearers, NEW s \in run[c].held
                   PROVE  /\ state'[s] = "provisional" /\ legs'[s] = "none"
                          /\ \A d \in Clearers \ {c} : s \notin run[d].held
                          /\ \A u \in Clawers : s \notin undo'[u].rows
      BY <1>2 DEF NoDoubleAccrual
    <2>2. /\ s \in Sources /\ state[s] = "provisional" /\ legs[s] = "none"
          /\ \A d \in Clearers \ {c} : s \notin run[d].held
          /\ \A u \in Clawers : s \notin undo[u].rows
      BY <2>1 DEF IInv, TypeOK, NoDoubleAccrual
    <2> QED BY <1>2, <1>4, <1>5, <1>7, <2>1, <2>2
  <1>18. BookedMatchesState'
    <2>1. SUFFICES ASSUME NEW s \in Sources
                   PROVE  /\ state'[s] = "cleared" => legs'[s] = "cleared"
                          /\ legs'[s] = "reversed" => state'[s] = "clawed_back"
      BY DEF BookedMatchesState
    <2>2. CASE s[1] = w
      <3>1. state'[s] \in {"none", "clawed_back"}
        BY <1>8, <1>10, <2>2
      <3>2. legs'[s] = "reversed" => state[s] \in {"cleared", "clawed_back"}
        BY <1>2, <1>7 DEF IInv, LegsFollow, BookedMatchesState
      <3> QED BY <1>2, <3>1, <3>2
    <2>3. CASE s[1] # w
      <3>1. s \notin V
        BY <1>1, <2>3, SourceFacts
      <3> QED BY <1>2, <1>8, <2>3, <3>1 DEF IInv, BookedMatchesState
    <2> QED BY <2>2, <2>3
  <1>19. PairStandsTogether'
    <2>1. SUFFICES ASSUME NEW v \in Windows, state'[Click(v)] = "cleared"
                   PROVE  state'[Impression(v)] = "cleared"
      BY DEF PairStandsTogether
    <2>2. v # w
      BY <1>1, <1>8, <2>1, SourceFacts
    <2> QED BY <1>8, <2>1, <2>2, SourceFacts DEF IInv, PairStandsTogether
  <1>20. WithheldUnderReview'
    <2>1. SUFFICES ASSUME NEW v \in Windows, FlagStands(v)', NEW s \in SourcesOf(v)
                   PROVE  state'[s] # "cleared"
      BY DEF WithheldUnderReview
    <2>2. CASE v = w
      BY <1>8, <2>1, <2>2
    <2>3. CASE v # w
      <3>1. s \in Sources /\ s[1] = v
        BY SourceFacts
      <3> QED BY <1>8, <1>9, <2>1, <2>3, <3>1 DEF IInv, WithheldUnderReview
    <2> QED BY <2>2, <2>3
  <1> QED BY <1>11, <1>12, <1>13, <1>14, <1>15, <1>16, <1>17, <1>18, <1>19, <1>20 DEF IInv

-----------------------------------------------------------------------------
(* Reviews and time.                                                       *)

\* A step of the reviews that raises a flag on a window only while nothing of
\* it is cleared or aged, or on a window that has one.
LEMMA OnlyReview ==
  ASSUME IInv, UNCHANGED <<state, legs, age, run, undo, crashes>>,
         review' \in [Sources -> {"none", "pending", "rejected", "approved"}],
         \A w \in Windows :
           FlagStands(w)' => FlagStands(w) \/ \E s \in SourcesOf(w) : age[s] = "recent"
  PROVE  IInv'
PROOF
  <1>1. TypeOK'
    BY DEF IInv, TypeOK
  <1>2. (UndoOwnsWindow /\ LegsFollow /\ ReversedByOne /\ NoDoubleAccrual)'
    BY DEF IInv, UndoOwnsWindow, Gone, LegsFollow, ReversedByOne, NoDoubleAccrual
  <1>3. (AgeTogether /\ ClearedAged /\ BookedMatchesState /\ PairStandsTogether)'
    BY DEF IInv, AgeTogether, ClearedAged, BookedMatchesState, PairStandsTogether
  <1>4. ASSUME NEW s \in Sources, age[s] = "aged", FlagStands(s[1])'
        PROVE  FlagStands(s[1])
    BY <1>4, SourceFacts DEF IInv, AgeTogether
  <1>5. SelectionStands'
    <2>1. SUFFICES ASSUME NEW c \in Clearers, NEW s \in run[c].seen \cup run[c].held,
                          state[s] = "provisional"
                   PROVE  /\ age[s] = "aged"
                          /\ ~FlagStands(s[1])'
                          /\ s[2] = "click" => \/ state[Impression(s[1])] = "cleared"
                                               \/ Impression(s[1]) \in run[c].held
      BY DEF SelectionStands
    <2>2. s \in Sources
      BY <2>1 DEF IInv, TypeOK
    <2> QED BY <1>4, <2>1, <2>2 DEF IInv, SelectionStands
  <1>6. WithheldUnderReview'
    <2>1. SUFFICES ASSUME NEW w \in Windows, FlagStands(w)', NEW s \in SourcesOf(w),
                          state[s] = "cleared"
                   PROVE  FALSE
      BY DEF WithheldUnderReview
    <2>2. s \in Sources /\ s[1] = w
      BY SourceFacts
    <2>3. age[s] = "aged"
      BY <2>1, <2>2 DEF IInv, ClearedAged
    <2> QED BY <1>4, <2>1, <2>2, <2>3 DEF IInv, WithheldUnderReview
  <1> QED BY <1>1, <1>2, <1>3, <1>5, <1>6 DEF IInv

LEMMA ReviewSteps ==
  ASSUME IInv,
         \/ \E s \in Sources : Scan(s) \/ Reject(s)
         \/ \E w \in Windows : ApproveClickReview(w)
  PROVE  IInv'
PROOF
  <1>1. review \in [Sources -> {"none", "pending", "rejected", "approved"}]
    BY DEF IInv, TypeOK
  <1>2. ASSUME NEW s \in Sources, Scan(s) PROVE IInv'
    <2>1. /\ review' = [review EXCEPT ![s] = "pending"] /\ age[s] = "recent"
          /\ UNCHANGED <<state, legs, age, run, undo, crashes>>
      BY <1>2 DEF Scan
    <2>2. ASSUME NEW w \in Windows, FlagStands(w)'
          PROVE  FlagStands(w) \/ \E q \in SourcesOf(w) : age[q] = "recent"
      BY <1>1, <2>1, <2>2, SourceFacts DEF FlagStands
    <2> QED BY <1>1, <2>1, <2>2, OnlyReview
  <1>3. ASSUME NEW s \in Sources, Reject(s) PROVE IInv'
    <2>1. /\ review' = [review EXCEPT ![s] = "rejected"]
          /\ UNCHANGED <<state, legs, age, run, undo, crashes>>
      BY <1>3 DEF Reject
    <2>2. ASSUME NEW w \in Windows, FlagStands(w)' PROVE FlagStands(w)
      BY <1>1, <2>1, <2>2, SourceFacts DEF FlagStands
    <2> QED BY <1>1, <2>1, <2>2, OnlyReview
  <1>4. ASSUME NEW v \in Windows, ApproveClickReview(v) PROVE IInv'
    <2>1. /\ review' = [review EXCEPT ![Click(v)] = "approved"] /\ review[Click(v)] = "pending"
          /\ UNCHANGED <<state, legs, age, run, undo, crashes>>
      BY <1>4 DEF ApproveClickReview
    <2>2. ASSUME NEW w \in Windows, FlagStands(w)' PROVE FlagStands(w)
      BY <1>1, <2>1, <2>2, SourceFacts DEF FlagStands
    <2> QED BY <1>1, <2>1, <2>2, OnlyReview
  <1> QED BY <1>2, <1>3, <1>4

LEMMA AgeStep == ASSUME IInv, NEW s \in Sources, Age(s) PROVE IInv'
PROOF
  <1>1. /\ age \in [Sources -> {"recent", "held", "aged"}]
        /\ UNCHANGED <<state, legs, review, run, undo, crashes>>
    BY DEF Age, IInv, TypeOK
  <1>2. \/ age[s] = "recent" /\ age' = [age EXCEPT ![s] = "held"]
        \/ /\ age[s] = "held" /\ age' = [age EXCEPT ![s] = "aged"]
           /\ \A other \in SourcesOf(s[1]) : age[other] # "recent"
    BY DEF Age
  <1>3. age' \in [Sources -> {"recent", "held", "aged"}] /\ \A q \in Sources :
          /\ age[q] = "aged" => age'[q] = "aged"
          /\ age[q] # "recent" => age'[q] # "recent"
          /\ q # s => age'[q] = age[q]
    BY <1>1, <1>2
  <1>4. TypeOK'
    BY <1>1, <1>3 DEF IInv, TypeOK
  <1>5. AgeTogether'
    <2>1. SUFFICES ASSUME NEW q \in Sources, age'[q] = "aged", NEW other \in SourcesOf(q[1])
                   PROVE  age'[other] # "recent"
      BY DEF AgeTogether
    <2>2. other \in Sources
      BY SourceFacts
    <2>3. CASE age[q] = "aged"
      BY <1>3, <2>2, <2>3 DEF IInv, AgeTogether
    <2>4. CASE age[q] # "aged"
      BY <1>1, <1>2, <1>3, <2>1, <2>2, <2>4
    <2> QED BY <2>3, <2>4
  <1>6. ClearedAged'
    BY <1>1, <1>3 DEF IInv, ClearedAged
  <1>7. SelectionStands'
    <2>1. SUFFICES ASSUME NEW c \in Clearers, NEW q \in run[c].seen \cup run[c].held,
                          state[q] = "provisional"
                   PROVE  /\ age'[q] = "aged"
                          /\ ~FlagStands(q[1])
                          /\ q[2] = "click" => \/ state[Impression(q[1])] = "cleared"
                                               \/ Impression(q[1]) \in run[c].held
      BY <1>1 DEF SelectionStands, FlagStands
    <2>2. q \in Sources
      BY <2>1 DEF IInv, TypeOK
    <2> QED BY <1>3, <2>1, <2>2 DEF IInv, SelectionStands
  <1>8. (UndoOwnsWindow /\ LegsFollow /\ ReversedByOne /\ NoDoubleAccrual)'
    BY <1>1 DEF IInv, UndoOwnsWindow, Gone, LegsFollow, ReversedByOne, NoDoubleAccrual
  <1>9. (BookedMatchesState /\ PairStandsTogether)'
    BY <1>1 DEF IInv, BookedMatchesState, PairStandsTogether
  <1>10. WithheldUnderReview'
    BY <1>1 DEF IInv, WithheldUnderReview, FlagStands
  <1> QED BY <1>4, <1>5, <1>6, <1>7, <1>8, <1>9, <1>10 DEF IInv

-----------------------------------------------------------------------------
LEMMA StepHolds == ASSUME IInv, [Next]_vars PROVE IInv'
PROOF
  <1>1. CASE UNCHANGED vars
    <2>1. (TypeOK /\ UndoOwnsWindow /\ LegsFollow /\ ReversedByOne)'
      BY <1>1 DEF vars, IInv, TypeOK, UndoOwnsWindow, Gone, LegsFollow, ReversedByOne
    <2>2. (SelectionStands /\ AgeTogether /\ ClearedAged /\ NoDoubleAccrual)'
      BY <1>1 DEF vars, IInv, SelectionStands, FlagStands, AgeTogether, ClearedAged,
                  NoDoubleAccrual
    <2>3. (BookedMatchesState /\ PairStandsTogether /\ WithheldUnderReview)'
      BY <1>1 DEF vars, IInv, BookedMatchesState, PairStandsTogether, WithheldUnderReview,
                  FlagStands
    <2> QED BY <2>1, <2>2, <2>3 DEF IInv
  <1>2. CASE ReviewStep
    BY <1>2, ReviewSteps, AgeStep DEF ReviewStep
  <1>3. ASSUME NEW c \in Clearers, ClearStep(c) \/ AbortClear(c) PROVE IInv'
    BY <1>3, RunSteps, CommitClearStep DEF ClearStep
  <1>4. ASSUME NEW t \in Clawers, BeginStep(t) \/ ClawbackStep(t) \/ AbortClawback(t)
        PROVE  IInv'
    BY <1>4, BeginSteps, UndoSteps, CommitClawbackStep DEF BeginStep, ClawbackStep
  <1> QED BY <1>1, <1>2, <1>3, <1>4 DEF Next

THEOREM InvariantHolds == Spec => []IInv
PROOF
  <1>1. Init => IInv
    BY InitHolds
  <1>2. IInv /\ [Next]_vars => IInv'
    BY StepHolds
  <1> QED BY <1>1, <1>2, PTL DEF Spec

\* The variables of the sessions and of the clawbacks keep their types, and a
\* transaction that has ended holds no row.
THEOREM TypeCorrect == Spec => []TypeOK
PROOF
  <1>1. IInv => TypeOK
    BY DEF IInv
  <1> QED BY <1>1, InvariantHolds, PTL

\* SKIP LOCKED, the re-read and the locks of the clawback keep any number of
\* overlapping runs and clawbacks from booking an event twice.
THEOREM NeverAccruedTwice == Spec => []NoDoubleAccrual
PROOF
  <1>1. IInv => NoDoubleAccrual
    BY DEF IInv
  <1> QED BY <1>1, InvariantHolds, PTL

\* No interleaving pays a click whose impression is not paid.
THEOREM PairsStandTogether == Spec => []PairStandsTogether
PROOF
  <1>1. IInv => PairStandsTogether
    BY DEF IInv
  <1> QED BY <1>1, InvariantHolds, PTL

\* What the ledger books and what it reverses agrees with the events.
THEOREM BooksMatchState == Spec => []BookedMatchesState
PROOF
  <1>1. IInv => BookedMatchesState
    BY DEF IInv
  <1> QED BY <1>1, InvariantHolds, PTL

\* An event is not cleared while a flag of its window waits for its review or
\* has been confirmed.
THEOREM ReviewsWithhold == Spec => []WithheldUnderReview
PROOF
  <1>1. IInv => WithheldUnderReview
    BY DEF IInv
  <1> QED BY <1>1, InvariantHolds, PTL

-----------------------------------------------------------------------------
(* What a clawback reverses is all there is: from its first statement to    *)
(* its commit nobody books the window.                                      *)

InProgress(t) == undo[t].pc \notin {"start", "done"}

\* The two forms of the publisher's lock exclude each other.
LocksExclude == \A t \in Clawers : HoldsPublisher(t) => \A c \in Clearers : ~run[c].share

\* A clawback that does not lock the publisher is the approval of a flag.
ApprovesFlag ==
  \A t \in Clawers : InProgress(t) =>
    /\ undo[t].origin # "none"
    /\ undo[t].origin = "approve" =>
         review[Impression(undo[t].window)] \in {"pending", "approved"}

ReversesAll ==
  \A t \in Clawers : undo[t].pc \in {"impression", "click", "commit"} =>
    \A s \in SourcesOf(undo[t].window) : legs[s] = "cleared" => s \in undo[t].reversed

ReversedLate ==
  \A t \in Clawers : undo[t].reversed # {} => undo[t].pc \in {"impression", "click", "commit"}

RInv == LocksExclude /\ ApprovesFlag /\ ReversesAll /\ ReversedLate /\ ClawedBackReversed

\* A clearing books no source of a window that is being reversed.
LEMMA BooksOthers ==
  ASSUME IInv, RInv, NEW c \in Clearers, run[c].share,
         NEW t \in Clawers, undo[t].pc \in {"impression", "click", "commit"},
         NEW s \in SourcesOf(undo[t].window)
  PROVE  s \notin run[c].held
PROOF
  <1>1. undo[t].window \in Windows /\ InProgress(t)
    BY DEF IInv, UndoOwnsWindow, InProgress
  <1>2. ~HoldsPublisher(t)
    BY DEF RInv, LocksExclude
  <1>3. undo[t].origin = "approve"
    BY <1>1, <1>2 DEF RInv, ApprovesFlag, InProgress, HoldsPublisher, IInv, TypeOK
  <1>4. FlagStands(undo[t].window) /\ s[1] = undo[t].window
    BY <1>1, <1>3, SourceFacts DEF RInv, ApprovesFlag, FlagStands
  <1>5. s \in run[c].held => state[s] = "provisional" /\ ~FlagStands(s[1])
    BY DEF IInv, NoDoubleAccrual, SelectionStands
  <1> QED BY <1>4, <1>5

LEMMA RClearSteps ==
  ASSUME IInv, RInv, NEW c \in Clearers, ClearStep(c) \/ AbortClear(c)
  PROVE  RInv'
PROOF
  <1>1. run \in [Clearers -> RunRecord] /\ run[c] \in RunRecord
    BY DEF IInv, TypeOK, RunRecord
  <1>2. /\ UNCHANGED <<review, undo>>
        /\ \A d \in Clearers \ {c} : run'[d] = run[d]
    BY <1>1 DEF ClearStep, OpenImpressions, Accrue, OpenClicks, CommitClear, Fetch, AbortClear
  <1>3. run'[c].share => run[c].share \/ Accrue(c)
    <2>1. CASE OpenImpressions(c) \/ OpenClicks(c) \/ \E s \in Sources : Fetch(c, s)
      <3>1. ASSUME NEW s \in Sources, Fetch(c, s) PROVE run'[c].share = run[c].share
        BY <1>1, <3>1 DEF Fetch, RunRecord
      <3>2. OpenImpressions(c) \/ OpenClicks(c) => run'[c].share = run[c].share
        BY <1>1 DEF OpenImpressions, OpenClicks, RunRecord
      <3> QED BY <2>1, <3>1, <3>2
    <2>2. CASE CommitClear(c) \/ AbortClear(c)
      <3>1. run'[c] = Idle
        BY <1>1, <2>2 DEF CommitClear, AbortClear
      <3> QED BY <3>1 DEF Idle
    <2> QED BY <2>1, <2>2 DEF ClearStep
  <1>4. LocksExclude'
    BY <1>2, <1>3 DEF RInv, LocksExclude, HoldsPublisher, Accrue
  <1>5. ApprovesFlag'
    BY <1>2 DEF RInv, ApprovesFlag, InProgress
  <1>6. CASE ~CommitClear(c)
    <2>1. UNCHANGED <<state, legs>>
      BY <1>6 DEF ClearStep, OpenImpressions, Accrue, OpenClicks, Fetch, AbortClear
    <2> QED BY <1>2, <1>4, <1>5, <2>1 DEF RInv, ReversesAll, ReversedLate, ClawedBackReversed
  <1>7. CASE CommitClear(c)
    <2>1. /\ \A s \in Sources : s \notin run[c].held =>
                state'[s] = state[s] /\ legs'[s] = legs[s]
          /\ \A s \in Sources : s \in run[c].held => state'[s] = "cleared"
          /\ run[c].held = {} \/ run[c].share
      BY <1>7 DEF CommitClear, WantsShare
    <2>2. ReversesAll'
      <3>1. SUFFICES ASSUME NEW t \in Clawers, undo[t].pc \in {"impression", "click", "commit"},
                            NEW s \in SourcesOf(undo[t].window), legs'[s] = "cleared"
                     PROVE  s \in undo[t].reversed
        BY <1>2 DEF ReversesAll
      <3>2. s \notin run[c].held
        BY <2>1, <3>1, BooksOthers
      <3>3. s \in Sources
        BY <3>1, SourceFacts DEF IInv, UndoOwnsWindow
      <3> QED BY <2>1, <3>1, <3>2, <3>3 DEF RInv, ReversesAll
    <2>3. ClawedBackReversed'
      BY <2>1 DEF RInv, ClawedBackReversed
    <2> QED BY <1>2, <1>4, <1>5, <2>2, <2>3 DEF RInv, ReversedLate
  <1> QED BY <1>6, <1>7

LEMMA RReviewSteps == ASSUME IInv, RInv, ReviewStep PROVE RInv'
PROOF
  <1>1. UNCHANGED <<state, legs, run, undo>>
    BY DEF ReviewStep, Scan, Reject, Age, ApproveClickReview
  <1>2. (LocksExclude /\ ReversesAll /\ ReversedLate /\ ClawedBackReversed)'
    BY <1>1 DEF RInv, LocksExclude, HoldsPublisher, ReversesAll, ReversedLate, ClawedBackReversed
  <1>3. ASSUME NEW t \in Clawers, InProgress(t), undo[t].origin = "approve"
        PROVE  review'[Impression(undo[t].window)] \in {"pending", "approved"}
    <2> DEFINE i == Impression(undo[t].window)
    <2>1. i \in Sources /\ i[2] = "impression" /\ review[i] \in {"pending", "approved"}
      BY <1>3, SourceFacts DEF IInv, UndoOwnsWindow, InProgress, RInv, ApprovesFlag
    <2>2. ReviewLocked(i)
      BY <1>3 DEF ReviewLocked, InProgress
    <2>3. review \in [Sources -> {"none", "pending", "rejected", "approved"}]
      BY DEF IInv, TypeOK
    <2> HIDE DEF i
    <2>4. ASSUME NEW s \in Sources, Scan(s) \/ Reject(s) \/ Age(s)
          PROVE  review'[i] \in {"pending", "approved"}
      BY <2>1, <2>2, <2>3, <2>4 DEF Scan, Reject, Age
    <2>5. ASSUME NEW w \in Windows, ApproveClickReview(w)
          PROVE  review'[i] \in {"pending", "approved"}
      BY <2>1, <2>3, <2>5 DEF ApproveClickReview
    <2>6. review'[i] \in {"pending", "approved"}
      BY <2>4, <2>5 DEF ReviewStep
    <2> QED BY <2>6 DEF i
  <1>4. ApprovesFlag'
    BY <1>1, <1>3 DEF RInv, ApprovesFlag, InProgress
  <1> QED BY <1>2, <1>4 DEF RInv

LEMMA RUndoSteps ==
  ASSUME IInv, RInv, NEW t \in Clawers,
         BeginStep(t) \/ (ClawbackStep(t) /\ ~CommitClawback(t)) \/ AbortClawback(t)
  PROVE  RInv'
PROOF
  <1>1. UNCHANGED <<state, legs, review, run>>
    BY DEF BeginStep, BeginApprove, BeginAdmin, BeginScan, Begin, ClawbackStep,
           TakePublisher, Reverse, MarkImpression, MarkClick, Mark, AbortClawback
  <1>2. undo \in [Clawers -> UndoRecord] /\ undo[t] \in UndoRecord
    BY DEF IInv, TypeOK, UndoRecord
  <1>3. \A u \in Clawers \ {t} : undo'[u] = undo[u]
    BY <1>2 DEF BeginStep, BeginApprove, BeginAdmin, BeginScan, Begin, ClawbackStep,
                TakePublisher, Reverse, MarkImpression, MarkClick, Mark, AbortClawback
  \* It is enough to look at the record of this clawback.
  <1>4. SUFFICES
          /\ HoldsPublisher(t)' => \A c \in Clearers : ~run[c].share
          /\ InProgress(t)' =>
               /\ undo'[t].origin # "none"
               /\ undo'[t].origin = "approve" =>
                    review[Impression(undo'[t].window)] \in {"pending", "approved"}
          /\ undo'[t].pc \in {"impression", "click", "commit"} =>
               \A s \in SourcesOf(undo'[t].window) :
                 legs[s] = "cleared" => s \in undo'[t].reversed
          /\ undo'[t].reversed # {} => undo'[t].pc \in {"impression", "click", "commit"}
    <2>1. LocksExclude'
      BY <1>1, <1>3, <1>4 DEF RInv, LocksExclude, HoldsPublisher
    <2>2. ApprovesFlag'
      BY <1>1, <1>3, <1>4 DEF RInv, ApprovesFlag, InProgress
    <2>3. ReversesAll'
      BY <1>1, <1>3, <1>4 DEF RInv, ReversesAll
    <2>4. ReversedLate'
      BY <1>3, <1>4 DEF RInv, ReversedLate
    <2> QED BY <1>1, <2>1, <2>2, <2>3, <2>4 DEF RInv, ClawedBackReversed
  <1>5. CASE \E w \in Windows : BeginApprove(t, w)
    <2>1. PICK w \in Windows : /\ undo'[t].origin = "approve" /\ undo'[t].pc = "reverse"
                               /\ undo'[t].window = w /\ review[Impression(w)] = "pending"
                               /\ undo'[t].reversed = {}
      BY <1>2, <1>5 DEF BeginApprove, Begin
    <2> QED BY <2>1 DEF HoldsPublisher, InProgress
  <1>6. CASE \E w \in Windows : BeginAdmin(t, w) \/ BeginScan(t, w)
    <2>1. /\ undo'[t].origin \in {"admin", "scan"} /\ undo'[t].pc = "publisher"
          /\ undo'[t].reversed = {}
      BY <1>2, <1>6 DEF BeginAdmin, BeginScan, Begin
    <2> QED BY <2>1 DEF HoldsPublisher, InProgress
  <1>7. CASE TakePublisher(t)
    <2>1. \A c \in Clearers : ~run[c].share
      <3>1. \A c \in Clearers : c # t /\ t \notin Clearers
        BY ClearingAssumption
      <3> QED BY <1>7, <3>1 DEF TakePublisher, Transactions, WaitsFor, WantsPublisher,
                                KeepsPublisher
    <2>2. /\ undo'[t].pc \in {"done", "reverse"} /\ InProgress(t)
          /\ undo[t].pc = "publisher" /\ undo'[t].reversed = undo[t].reversed
          /\ undo'[t].origin = undo[t].origin /\ undo'[t].window = undo[t].window
      BY <1>2, <1>7 DEF TakePublisher, InProgress, UndoRecord
    <2> QED BY <2>1, <2>2 DEF RInv, ApprovesFlag, ReversedLate, InProgress
  <1>8. CASE Reverse(t)
    <2>1. /\ undo[t].pc = "reverse" /\ undo'[t].pc = "impression"
          /\ undo'[t].origin = undo[t].origin /\ undo'[t].window = undo[t].window
          /\ undo'[t].reversed = {s \in SourcesOf(undo[t].window) : legs[s] = "cleared"}
      BY <1>2, <1>8 DEF Reverse, UndoRecord
    <2> QED BY <2>1 DEF RInv, LocksExclude, ApprovesFlag, HoldsPublisher, InProgress
  <1>9. CASE MarkImpression(t) \/ MarkClick(t)
    <2>1. /\ undo[t].pc \in {"impression", "click"} /\ undo'[t].pc \in {"click", "commit"}
          /\ undo'[t].origin = undo[t].origin /\ undo'[t].window = undo[t].window
          /\ undo'[t].reversed = undo[t].reversed
      BY <1>2, <1>9 DEF MarkImpression, MarkClick, Mark, UndoRecord
    <2> QED BY <2>1 DEF RInv, LocksExclude, ApprovesFlag, ReversesAll, HoldsPublisher, InProgress
  <1>10. CASE AbortClawback(t)
    <2>1. undo'[t].pc = "done" /\ undo'[t].reversed = {}
      BY <1>2, <1>10 DEF AbortClawback, UndoRecord
    <2> QED BY <2>1 DEF HoldsPublisher, InProgress
  <1> QED BY <1>5, <1>6, <1>7, <1>8, <1>9, <1>10 DEF BeginStep, ClawbackStep

LEMMA RCommitClawback ==
  ASSUME IInv, RInv, NEW t \in Clawers, CommitClawback(t) PROVE RInv'
PROOF
  <1>1. /\ UNCHANGED run
        /\ undo \in [Clawers -> UndoRecord] /\ undo[t] \in UndoRecord
        /\ legs \in [Sources -> {"none", "cleared", "reversed"}]
        /\ review \in [Sources -> {"none", "pending", "rejected", "approved"}]
        /\ undo[t].pc = "commit"
    BY DEF CommitClawback, IInv, TypeOK, UndoRecord
  <1>2. /\ undo'[t].pc = "done" /\ undo'[t].reversed = {}
        /\ \A u \in Clawers \ {t} : undo'[u] = undo[u]
    BY <1>1 DEF CommitClawback, UndoRecord
  <1>3. \A s \in Sources : /\ legs'[s] = "cleared" => legs[s] = "cleared" /\ s \notin undo[t].reversed
                           /\ s \notin undo[t].rows => state'[s] = state[s]
                           /\ review'[s] = review[s] \/ review'[s] = "approved"
    BY <1>1 DEF CommitClawback
  <1>4. LocksExclude'
    BY <1>1, <1>2 DEF RInv, LocksExclude, HoldsPublisher
  <1>5. ApprovesFlag'
    <2>1. \A u \in Clawers : InProgress(u) => Impression(undo[u].window) \in Sources
      BY SourceFacts DEF InProgress, IInv, UndoOwnsWindow
    <2> QED BY <1>2, <1>3, <2>1 DEF RInv, ApprovesFlag, InProgress
  <1>6. ReversesAll'
    <2>1. SUFFICES ASSUME NEW u \in Clawers, undo'[u].pc \in {"impression", "click", "commit"},
                          NEW s \in SourcesOf(undo'[u].window), legs'[s] = "cleared"
                   PROVE  s \in undo'[u].reversed
      BY DEF ReversesAll
    <2>2. u # t /\ undo'[u] = undo[u]
      BY <1>2, <2>1
    <2>3. s \in Sources
      BY <2>1, <2>2, SourceFacts DEF IInv, UndoOwnsWindow
    <2> QED BY <1>3, <2>1, <2>2, <2>3 DEF RInv, ReversesAll
  <1>7. ClawedBackReversed'
    <2>1. SUFFICES ASSUME NEW s \in Sources, legs'[s] = "cleared"
                   PROVE  state'[s] # "clawed_back"
      BY DEF ClawedBackReversed
    <2>2. legs[s] = "cleared" /\ s \notin undo[t].reversed
      BY <1>3, <2>1
    <2>3. s \notin undo[t].rows
      BY <1>1, <2>2 DEF IInv, UndoOwnsWindow, RInv, ReversesAll
    <2> QED BY <1>3, <2>2, <2>3 DEF RInv, ClawedBackReversed
  <1>8. ReversedLate'
    BY <1>2 DEF RInv, ReversedLate
  <1> QED BY <1>4, <1>5, <1>6, <1>7, <1>8 DEF RInv

LEMMA ReversalHolds == Spec => []RInv
PROOF
  <1>1. Init => RInv
    BY DEF Init, Unstarted, Idle, RInv, LocksExclude, HoldsPublisher, ApprovesFlag, InProgress,
           ReversesAll, ReversedLate, ClawedBackReversed
  <1>2. IInv /\ RInv /\ [Next]_vars => RInv'
    <2> SUFFICES ASSUME IInv, RInv, [Next]_vars PROVE RInv'
      OBVIOUS
    <2>1. CASE UNCHANGED vars
      BY <2>1 DEF vars, RInv, LocksExclude, HoldsPublisher, ApprovesFlag, InProgress,
                  ReversesAll, ReversedLate, ClawedBackReversed
    <2>2. CASE ReviewStep
      BY <2>2, RReviewSteps
    <2>3. ASSUME NEW c \in Clearers, ClearStep(c) \/ AbortClear(c) PROVE RInv'
      BY <2>3, RClearSteps
    <2>4. ASSUME NEW t \in Clawers, BeginStep(t) \/ ClawbackStep(t) \/ AbortClawback(t)
          PROVE  RInv'
      BY <2>4, RUndoSteps, RCommitClawback
    <2> QED BY <2>1, <2>2, <2>3, <2>4 DEF Next
  <1> QED BY <1>1, <1>2, InvariantHolds, PTL DEF Spec

\* Whatever clears while a clawback runs, no accrual of a clawed back event
\* still counts: the publisher's lock and the foreign key of the legs keep
\* clear_events out of the window from the first statement to the commit.
THEOREM ClawbacksReverseAll == Spec => []ClawedBackReversed
PROOF
  <1>1. RInv => ClawedBackReversed
    BY DEF RInv
  <1> QED BY <1>1, ReversalHolds, PTL

-----------------------------------------------------------------------------
(* The lock order.                                                         *)

PublisherByOne ==
  \A t, u \in Clawers : HoldsPublisher(t) /\ HoldsPublisher(u) => t = u
RowsByOne ==
  \A t, u \in Clawers : t # u => undo[t].rows \cap undo[u].rows = {}

\* The click is the last row a clawback takes; before the second statement
\* only an admin has the impression.
RowsInOrder ==
  \A t \in Clawers : \A s \in undo[t].rows :
    /\ s[2] = "click" => undo[t].pc = "commit"
    /\ undo[t].pc \in {"click", "commit"} \/ undo[t].origin = "admin"

LInv == PublisherByOne /\ RowsByOne /\ RowsInOrder

LEMMA LUndoSteps ==
  ASSUME IInv, LInv, NEW t \in Clawers,
         BeginStep(t) \/ ClawbackStep(t) \/ AbortClawback(t)
  PROVE  LInv'
PROOF
  <1>1. undo \in [Clawers -> UndoRecord] /\ undo[t] \in UndoRecord
    BY DEF IInv, TypeOK, UndoRecord
  <1>2. \A u \in Clawers \ {t} : undo'[u] = undo[u]
    BY <1>1 DEF BeginStep, BeginApprove, BeginAdmin, BeginScan, Begin, ClawbackStep,
                TakePublisher, Reverse, MarkImpression, MarkClick, Mark, CommitClawback,
                AbortClawback
  <1>3. SUFFICES
          /\ HoldsPublisher(t)' => \A u \in Clawers \ {t} : ~HoldsPublisher(u)
          /\ \A s \in undo'[t].rows :
               /\ \A u \in Clawers \ {t} : s \notin undo[u].rows
               /\ s[2] = "click" => undo'[t].pc = "commit"
               /\ undo'[t].pc \in {"click", "commit"} \/ undo'[t].origin = "admin"
    BY <1>2, <1>3 DEF LInv, PublisherByOne, RowsByOne, RowsInOrder, HoldsPublisher
  <1>4. CASE \E w \in Windows : BeginApprove(t, w)
    <2>1. undo'[t].origin = "approve" /\ undo'[t].rows = {}
      BY <1>1, <1>4 DEF BeginApprove, Begin
    <2> QED BY <2>1 DEF HoldsPublisher
  <1>5. CASE \E w \in Windows : BeginScan(t, w)
    <2>1. undo'[t].pc = "publisher" /\ undo'[t].rows = {}
      BY <1>1, <1>5 DEF BeginScan, Begin
    <2> QED BY <2>1 DEF HoldsPublisher
  <1>6. CASE \E w \in Windows : BeginAdmin(t, w)
    <2>1. PICK w \in Windows : /\ undo'[t].pc = "publisher" /\ undo'[t].origin = "admin"
                               /\ undo'[t].rows = {Impression(w)}
                               /\ ~Locked("none", t, Impression(w))
      BY <1>1, <1>6 DEF BeginAdmin, Begin
    <2>2. \A u \in Clawers \ {t} : Impression(w) \notin undo[u].rows
      BY <2>1 DEF Locked
    <2> QED BY <2>1, <2>2, SourceFacts DEF HoldsPublisher
  <1>7. CASE TakePublisher(t)
    <2>1. \A u \in Clawers \ {t} : ~HoldsPublisher(u)
      BY <1>7, ClearingAssumption DEF TakePublisher, Transactions, WaitsFor, WantsPublisher,
                                      KeepsPublisher
    <2>2. \/ undo'[t].rows = {}
          \/ /\ undo'[t].rows = undo[t].rows /\ undo'[t].origin = undo[t].origin
             /\ undo[t].pc = "publisher"
      BY <1>1, <1>7 DEF TakePublisher, UndoRecord
    <2> QED BY <2>1, <2>2 DEF LInv, RowsByOne, RowsInOrder
  <1>8. CASE Reverse(t)
    <2>1. /\ undo[t].pc = "reverse" /\ undo'[t].pc = "impression"
          /\ undo'[t].rows = undo[t].rows /\ undo'[t].origin = undo[t].origin
      BY <1>1, <1>8 DEF Reverse, UndoRecord
    <2> QED BY <2>1 DEF LInv, PublisherByOne, RowsByOne, RowsInOrder, HoldsPublisher
  <1>9. CASE MarkImpression(t) \/ MarkClick(t)
    <2>1. PICK s : /\ s = NextRow(t) /\ ~Locked("none", t, s)
                   /\ undo'[t].rows \subseteq undo[t].rows \cup {s}
                   /\ undo'[t].origin = undo[t].origin
                   /\ \/ undo[t].pc = "impression" /\ undo'[t].pc = "click"
                      \/ undo[t].pc = "click" /\ undo'[t].pc = "commit"
      BY <1>1, <1>9 DEF MarkImpression, MarkClick, Mark, UndoRecord
    <2>2. undo[t].window \in Windows
      BY <2>1 DEF IInv, UndoOwnsWindow
    <2>3. s[2] = "click" => undo[t].pc = "click"
      BY <2>1, <2>2, SourceFacts DEF NextRow
    <2>4. \A u \in Clawers \ {t} : s \notin undo[u].rows
      BY <2>1 DEF Locked
    <2>5. HoldsPublisher(t)' => HoldsPublisher(t)
      BY <2>1 DEF HoldsPublisher
    <2> QED BY <2>1, <2>3, <2>4, <2>5 DEF LInv, PublisherByOne, RowsByOne, RowsInOrder
  <1>10. CASE CommitClawback(t) \/ AbortClawback(t)
    <2>1. undo'[t].pc = "done" /\ undo'[t].rows = {}
      BY <1>1, <1>10 DEF CommitClawback, AbortClawback, UndoRecord
    <2> QED BY <2>1 DEF HoldsPublisher
  <1> QED BY <1>4, <1>5, <1>6, <1>7, <1>8, <1>9, <1>10 DEF BeginStep, ClawbackStep

\* Among transactions of which nobody waits for the publisher, one that waits
\* for a leg waits for one that waits for the impression, which an admin
\* holds; but then the two exclude each other.
LEMMA NoCircle ==
  ASSUME IInv, RInv, LInv, NEW S \in SUBSET Transactions, Stuck(S),
         \A a \in S : ~WantsPublisher(a)
  PROVE  FALSE
PROOF
  <1>1. \A a \in S :
          /\ a \in Clawers
          /\ undo[a].pc \in {"reverse", "impression", "click"} /\ undo[a].window \in Windows
    BY DEF Stuck, WaitsFor, IInv, UndoOwnsWindow
  \* What a member at each statement waits for.
  <1>2. ASSUME NEW a \in S, undo[a].pc # "reverse"
        PROVE  \E b \in S : a # b /\ NextRow(a) \in undo[b].rows
    <2>1. PICK b \in S : WaitsFor(a, b)
      BY DEF Stuck
    <2>2. NextRow(a) \in RowsOf(b) /\ a # b /\ b \notin Clearers
      BY <1>1, <1>2, <2>1, ClearingAssumption DEF WaitsFor
    <2> QED BY <2>2 DEF RowsOf
  <1>3. ASSUME NEW a \in S, undo[a].pc = "reverse"
        PROVE  \E b \in S : a # b /\ undo[b].reversed \cap SourcesOf(undo[a].window) # {}
    BY <1>1, <1>3 DEF Stuck, WaitsFor
  <1>4. \A a \in S : undo[a].pc # "click"
    <2>1. SUFFICES ASSUME NEW a \in S, undo[a].pc = "click" PROVE FALSE
      OBVIOUS
    <2>2. PICK b \in S : NextRow(a) \in undo[b].rows
      BY <1>2, <2>1
    <2>3. NextRow(a)[2] = "click"
      BY <1>1, <2>1, SourceFacts DEF NextRow
    <2> QED BY <1>1, <2>2, <2>3 DEF LInv, RowsInOrder
  <1>5. ASSUME NEW a \in S, undo[a].pc = "impression"
        PROVE  \E b \in S : /\ undo[b].pc = "reverse" /\ undo[b].origin = "admin"
                            /\ Impression(undo[a].window) \in undo[b].rows
    <2>1. PICK b \in S : a # b /\ Impression(undo[a].window) \in undo[b].rows
      BY <1>2, <1>5 DEF NextRow
    <2>2. undo[b].origin = "admin"
      BY <1>1, <1>4, <2>1 DEF LInv, RowsInOrder
    <2>3. undo[b].pc # "impression"
      <3>1. SUFFICES ASSUME undo[b].pc = "impression" PROVE FALSE
        OBVIOUS
      <3>2. Impression(undo[a].window)[1] = undo[a].window /\ undo[a].window = undo[b].window
        BY <1>1, <2>1, SourceFacts DEF IInv, UndoOwnsWindow
      <3>3. PICK d \in S : b # d /\ Impression(undo[b].window) \in undo[d].rows
        BY <1>2, <3>1 DEF NextRow
      <3> QED BY <1>1, <2>1, <3>2, <3>3 DEF LInv, RowsByOne
    <2> QED BY <1>1, <1>4, <2>1, <2>2, <2>3
  <1>6. PICK b \in S : undo[b].pc = "reverse" /\ undo[b].origin = "admin"
    <2>1. PICK a \in S : TRUE
      BY DEF Stuck
    <2>2. CASE undo[a].pc = "impression"
      BY <1>5, <2>2
    <2>3. CASE undo[a].pc = "reverse"
      <3>1. PICK d \in S : undo[d].reversed # {}
        BY <1>3, <2>3
      <3>2. undo[d].pc = "impression"
        BY <1>1, <1>4, <3>1 DEF RInv, ReversedLate
      <3> QED BY <1>5, <3>2
    <2> QED BY <1>1, <1>4, <2>2, <2>3
  <1>7. PICK v \in S : undo[v].reversed \cap SourcesOf(undo[b].window) # {}
    BY <1>3, <1>6
  <1>8. undo[v].pc = "impression"
    BY <1>1, <1>4, <1>7 DEF RInv, ReversedLate
  <1>9. undo[v].origin = "approve"
    BY <1>1, <1>6, <1>8 DEF LInv, PublisherByOne, HoldsPublisher, RInv, ApprovesFlag,
                            InProgress, IInv, TypeOK
  <1>10. PICK s \in undo[v].reversed : s \in SourcesOf(undo[v].window)
    BY <1>1, <1>7 DEF IInv, UndoOwnsWindow
  <1>11. legs[s] = "cleared" /\ s \in Sources
    BY <1>1, <1>10, SourceFacts DEF IInv, ReversedByOne
  <1>12. state[s] = "cleared"
    BY <1>11 DEF IInv, LegsFollow, RInv, ClawedBackReversed
  <1>13. FlagStands(undo[v].window)
    BY <1>1, <1>8, <1>9, SourceFacts DEF RInv, ApprovesFlag, InProgress, FlagStands
  <1> QED BY <1>1, <1>10, <1>12, <1>13 DEF IInv, WithheldUnderReview

\* For any number of runs, scans, admins and approvals: whoever deadlocks
\* does so over the publisher's row.
THEOREM DeadlocksOnlyAtPublisher == Spec => []DeadlocksMeetAtPublisher
PROOF
  <1>1. Init => LInv
    BY DEF Init, Unstarted, LInv, PublisherByOne, RowsByOne, RowsInOrder, HoldsPublisher
  <1>2. IInv /\ LInv /\ [Next]_vars => LInv'
    <2> SUFFICES ASSUME IInv, LInv, [Next]_vars PROVE LInv'
      OBVIOUS
    <2>1. CASE UNCHANGED undo
      BY <2>1 DEF LInv, PublisherByOne, RowsByOne, RowsInOrder, HoldsPublisher
    <2>2. ASSUME NEW t \in Clawers, BeginStep(t) \/ ClawbackStep(t) \/ AbortClawback(t)
          PROVE  LInv'
      BY <2>2, LUndoSteps
    <2>3. ReviewStep \/ (\E c \in Clearers : ClearStep(c) \/ AbortClear(c)) => UNCHANGED undo
      BY DEF ReviewStep, Scan, Reject, Age, ApproveClickReview, ClearStep, OpenImpressions,
             Accrue, OpenClicks, CommitClear, Fetch, AbortClear
    <2> QED BY <2>1, <2>2, <2>3 DEF Next, vars
  <1>3. IInv /\ RInv /\ LInv => DeadlocksMeetAtPublisher
    BY NoCircle DEF DeadlocksMeetAtPublisher
  <1> QED BY <1>1, <1>2, <1>3, InvariantHolds, ReversalHolds, PTL DEF Spec

=============================================================================
