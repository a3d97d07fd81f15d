-------------------------- MODULE ClientTickProofs --------------------------
(***************************************************************************)
(* The clock of the client runs behind the one of the server, for any      *)
(* number of overlapping ticks, windows and faults: a window is closed by  *)
(* a client that has shown it long enough for the server, and a credited   *)
(* one was written to the screen once for every beat that it needed.       *)
(***************************************************************************)
EXTENDS ClientTick, FiniteSetTheorems, SequenceTheorems, TLAPS

MaybeWindow == Windows \cup {NoWindow}
Stages == {"idle", "open", "beat", "close", "line"}
ReplyRecord == [got : BOOLEAN, window : MaybeWindow, trusted : BOOLEAN]
TickRecord == [at : Stages, snap : State, work : BOOLEAN, late : Nat, reply : ReplyRecord]
RowRecord == [state : {"none", "open", "credited", "abandoned"},
              owner : {"none", "device", "sentinel"}, chain : Seq(BOOLEAN), age : Nat]

Typed ==
  /\ file \in State
  /\ tick \in [Ticks -> TickRecord]
  /\ row \in [Windows -> RowRecord]
  /\ age \in [Windows -> Nat]
  /\ screen \in Windows \cup {"promo", "base"}

\* A row a client or a request refers to is there.
Known(w) == w \in Windows => row[w].state # "none"
RefersToRows ==
  /\ Known(file.window)
  /\ \A t \in Ticks : Known(tick[t].snap.window) /\ Known(tick[t].reply.window)

\* A trusted ad has a window, and on its way to the client the window is
\* nobody's yet.
Opening(t, w) == tick[t].at = "open" /\ tick[t].reply.window = w
OpeningIsNew ==
  /\ \A t \in Ticks : tick[t].at = "open" /\ tick[t].reply.trusted =>
       tick[t].reply.window \in Windows
  /\ \A t \in Ticks, w \in Windows : Opening(t, w) =>
       /\ file.window # w
       /\ \A u \in Ticks : tick[u].snap.window # w /\ (u # t => ~Opening(u, w))

\* The client's clock starts after the server's, and a close comes after the
\* dwell on the client's.
ClientIsBehind ==
  \A w \in Windows :
    /\ row[w].state = "none" => age[w] = 0
    /\ row[w].state = "open" => age[w] <= row[w].age
ClosesRipe ==
  \A t \in Ticks :
    /\ tick[t].at \in {"beat", "close"} => tick[t].snap.window \in Windows
    /\ tick[t].at = "close" => age[tick[t].snap.window] >= Dwell

IInv == Typed /\ RefersToRows /\ OpeningIsNew /\ ClientIsBehind /\ ClosesRipe

-----------------------------------------------------------------------------
(* Records of the model.                                                   *)

LEMMA Constants ==
  /\ Dwell \in Nat /\ Cooldown \in Nat /\ Stale \in Nat /\ Ttl \in Nat /\ MinBeats \in Nat
  /\ Dwell + Cooldown <= Stale /\ NoWindow \notin Windows
BY ClientAssumption

LEMMA Records ==
  /\ NoState \in State /\ NoReply \in ReplyRecord /\ Idle \in TickRecord /\ NoRow \in RowRecord
  /\ NoState.window = NoWindow /\ NoReply.window = NoWindow
  /\ Idle.at = "idle" /\ Idle.snap = NoState /\ Idle.reply = NoReply
<1>1. NoState \in State /\ NoReply \in ReplyRecord /\ NoRow \in RowRecord
  BY DEF NoState, State, NoReply, ReplyRecord, MaybeWindow, NoRow, RowRecord
<1>2. Idle \in TickRecord
  BY <1>1 DEF Idle, TickRecord, Stages
<1> QED BY <1>1, <1>2 DEF NoState, NoReply, Idle

LEMMA InitInv ==
  ASSUME ClientAssumption, Init
  PROVE  IInv
<1> USE Records, Constants DEF Init
<1>1. Typed
  BY DEF Typed
<1>2. RefersToRows /\ OpeningIsNew /\ ClientIsBehind /\ ClosesRipe
  BY DEF RefersToRows, Known, OpeningIsNew, Opening, ClientIsBehind, ClosesRipe, NoRow
<1> QED BY <1>1, <1>2 DEF IInv

-----------------------------------------------------------------------------
(* The steps of a tick.                                                    *)

\* The tick is over, and the file has the window it had or that of the tick.
LEMMA TickEnds ==
  ASSUME ClientAssumption, IInv, NEW t \in Ticks, tick' = [tick EXCEPT ![t] = Idle],
         file' \in State,
         file'.window \in {file.window, tick[t].snap.window, NoWindow},
         screen' \in Windows \cup {"promo", "base"}, UNCHANGED <<row, age>>
  PROVE  IInv'
<1> USE Records, Constants DEF IInv
<1>1. Typed'
  BY DEF Typed
<1>2. tick'[t] = Idle /\ \A u \in Ticks \ {t} : tick'[u] = tick[u]
  BY DEF Typed
<1>3. RefersToRows'
  BY <1>2 DEF RefersToRows, Known
<1>4. OpeningIsNew'
  BY <1>2 DEF OpeningIsNew, Opening
<1>5. ClientIsBehind' /\ ClosesRipe'
  BY <1>2 DEF ClientIsBehind, ClosesRipe
<1> QED BY <1>1, <1>3, <1>4, <1>5

LEMMA States ==
  ASSUME NEW s \in State, NEW n \in BOOLEAN, NEW c \in BOOLEAN
  PROVE  /\ [s EXCEPT !.moved = n] \in State
         /\ [s EXCEPT !.moved = n].window = s.window
         /\ [s EXCEPT !.reported = TRUE] \in State
         /\ [s EXCEPT !.reported = TRUE].window = s.window
         /\ [s EXCEPT !.chain = Append(@, c)] \in State
         /\ [s EXCEPT !.chain = Append(@, c)].window = s.window
<1>1. s.chain \in Seq(BOOLEAN)
  BY DEF State
<1>2. Append(s.chain, c) \in Seq(BOOLEAN)
  BY <1>1
<1> DEFINE q == Append(s.chain, c)
<1>3. [s EXCEPT !.chain = Append(@, c)] = [s EXCEPT !.chain = q]
  OBVIOUS
<1> HIDE DEF q
<1>4. [s EXCEPT !.chain = q] \in State /\ [s EXCEPT !.chain = q].window = s.window
  BY <1>2 DEF State, q
<1> QED BY <1>3, <1>4 DEF State

LEMMA AnswerInv ==
  ASSUME ClientAssumption, IInv, NEW t \in Ticks,
         Beaten(t) \/ Closed(t) \/ Lined(t) \/ Lost(t) \/ Die(t)
  PROVE  IInv'
<1> DEFINE s == tick[t].snap
<1>1. s \in State /\ tick[t].work \in BOOLEAN /\ tick[t] \in TickRecord
  BY DEF IInv, Typed, TickRecord
<1>2. s.window \in MaybeWindow /\ s.moved \in BOOLEAN /\ file \in State
      /\ screen \in Windows \cup {"promo", "base"}
  BY <1>1 DEF State, MaybeWindow, IInv, Typed
<1>3. CASE Lined(t) \/ Lost(t) \/ Die(t)
  BY <1>2, <1>3, TickEnds DEF Lined, Lost, Die, Show, localVars
<1>4. CASE Closed(t)
  <2> DEFINE r == [s EXCEPT !.reported = TRUE]
  <2>1. r \in State /\ r.window = s.window /\ r.moved \in BOOLEAN
    BY <1>1, States DEF State
  <2> HIDE DEF r
  <2>2. Kept(t, r) \in State /\ Kept(t, r).window = s.window
    BY <1>1, <2>1, States DEF Kept
  <2> HIDE DEF s
  <2> QED BY <1>4, <2>2, TickEnds DEF Closed, Show, r, s
<1>5. CASE Beaten(t)
  <2> DEFINE r == [s EXCEPT !.chain = Append(@, s.moved)]
  <2>0. s.window \in Windows
    BY <1>5 DEF Beaten, IInv, ClosesRipe
  <2>1. r \in State /\ r.window = s.window
    BY <1>1, <1>2, States
  <2> HIDE DEF r
  <2>2. Renewed(t, r) \in State /\ Renewed(t, r).window = s.window
    BY <1>1, <2>1, States DEF Renewed
  <2> QED BY <1>5, <2>0, <2>2, TickEnds DEF Beaten, Show, r
<1> QED BY <1>3, <1>4, <1>5

LEMMA OpenedInv ==
  ASSUME ClientAssumption, IInv, NEW t \in Ticks, Opened(t)
  PROVE  IInv'
<1> USE Records, Constants
<1>1. /\ tick[t] \in TickRecord /\ tick[t].work \in BOOLEAN /\ tick[t].at = "open"
      /\ tick[t].reply.trusted => tick[t].reply.window \in Windows
  BY DEF Opened, IInv, Typed, TickRecord, OpeningIsNew
<1>2. CASE ~tick[t].reply.trusted
  BY <1>2, TickEnds DEF Opened, Show
<1>3. CASE tick[t].reply.trusted
  <2>1. PICK v \in Windows : v = tick[t].reply.window
    BY <1>1, <1>3
  <2>2. /\ file' = Renewed(t, [NoState EXCEPT !.window = v])
        /\ age' = [age EXCEPT ![v] = 0] /\ screen' = v
        /\ tick' = [tick EXCEPT ![t] = Idle] /\ UNCHANGED row
    BY <1>3, <2>1 DEF Opened, Show, StartAge
  <2>3. file' \in State /\ file'.window = v
    <3> DEFINE s == [NoState EXCEPT !.window = v]
    <3>1. s \in State /\ s.window = v
      BY DEF State
    <3> HIDE DEF s
    <3> QED BY <1>1, <2>2, <3>1, States DEF Renewed, s
  <2>4. tick'[t] = Idle /\ \A u \in Ticks \ {t} : tick'[u] = tick[u]
    BY <2>2 DEF IInv, Typed
  <2>5. \A u \in Ticks : tick[u].snap.window # v /\ (u # t => ~Opening(u, v))
    BY <1>1, <2>1 DEF IInv, OpeningIsNew, Opening
  <2>6. age'[v] = 0 /\ \A x \in Windows \ {v} : age'[x] = age[x]
    BY <2>2 DEF IInv, Typed
  <2>7. Typed'
    BY <2>2, <2>3 DEF IInv, Typed
  <2>8. RefersToRows'
    BY <2>1, <2>2, <2>3, <2>4 DEF IInv, RefersToRows, Known
  <2>9. OpeningIsNew'
    BY <2>3, <2>4, <2>5 DEF IInv, OpeningIsNew, Opening
  <2>10. ClientIsBehind'
    <3>1. row[v].age >= 0
      BY <2>1 DEF IInv, Typed, RowRecord
    <3> QED BY <2>2, <2>6, <3>1 DEF IInv, ClientIsBehind
  <2>11. ClosesRipe'
    BY <2>4, <2>5, <2>6 DEF IInv, ClosesRipe
  <2> QED BY <2>7, <2>8, <2>9, <2>10, <2>11 DEF IInv
<1> QED BY <1>2, <1>3

\* A tick that starts with a request, and one that needs none.
LEMMA LaunchInv ==
  ASSUME ClientAssumption, IInv, NEW t \in Ticks, Launch(t)
  PROVE  IInv'
<1> DEFINE stage == IF token THEN Does ELSE "line"
           r == [Idle EXCEPT !.at = stage, !.snap = file]
<1> USE Records, Constants
<1>1. CASE Show(t, IF token THEN "base" ELSE "promo") /\ UNCHANGED <<file, cache, age>>
  BY <1>1, TickEnds DEF Launch, Show, IInv, Typed
<1>2. CASE /\ IF token THEN Does # "rest" ELSE cache >= Ttl
           /\ tick' = [tick EXCEPT ![t] = r]
           /\ UNCHANGED localVars
  <2>1. stage \in Stages
    BY <1>2 DEF Does, Stages
  <2>2. /\ stage \in {"beat", "close"} => file.window \in Windows
        /\ stage = "close" => age[file.window] >= Dwell
    BY DEF Does, IInv, Typed, State
  <2>3. tick' = [tick EXCEPT ![t] = r] /\ UNCHANGED <<file, age, screen, row>>
    BY <1>2 DEF Launch, localVars
  <2> HIDE DEF stage
  <2>4. r \in TickRecord /\ r.at = stage /\ r.snap = file /\ r.reply = NoReply
    BY <2>1 DEF TickRecord, IInv, Typed, Idle
  <2> HIDE DEF r
  <2>5. tick'[t] = r /\ \A u \in Ticks \ {t} : tick'[u] = tick[u]
    BY <2>3 DEF IInv, Typed
  <2>6. Typed'
    BY <2>3, <2>4 DEF IInv, Typed
  <2>7. RefersToRows'
    BY <2>3, <2>4, <2>5 DEF IInv, RefersToRows, Known
  <2>8. OpeningIsNew'
    BY <2>3, <2>4, <2>5 DEF IInv, OpeningIsNew, Opening, NoReply
  <2>9. ClientIsBehind' /\ ClosesRipe'
    BY <2>2, <2>3, <2>4, <2>5 DEF IInv, ClientIsBehind, ClosesRipe
  <2> QED BY <2>6, <2>7, <2>8, <2>9 DEF IInv
<1> QED BY <1>1, <1>2 DEF Launch

-----------------------------------------------------------------------------
(* The steps of the feed.                                                  *)

\* A request is answered: of its window, or of one that is new.
LEMMA Answers ==
  ASSUME IInv, NEW t \in Ticks, NEW w \in MaybeWindow, NEW good \in BOOLEAN, Reply(t, w, good)
  PROVE  /\ tick' \in [Ticks -> TickRecord]
         /\ tick'[t].at = tick[t].at /\ tick'[t].snap = tick[t].snap
         /\ tick'[t].reply.window = w /\ tick'[t].reply.trusted = good
         /\ \A u \in Ticks \ {t} : tick'[u] = tick[u]
<1> DEFINE a == [got |-> TRUE, window |-> w, trusted |-> good]
<1>1. a \in ReplyRecord /\ a.window = w /\ a.trusted = good
  BY DEF ReplyRecord
<1>2. tick' = [tick EXCEPT ![t].reply = a] /\ tick \in [Ticks -> TickRecord]
  BY DEF Reply, IInv, Typed
<1> HIDE DEF a
<1> QED BY <1>1, <1>2 DEF TickRecord

LEMMA ServeOpenInv ==
  ASSUME ClientAssumption, IInv, NEW t \in Ticks, ServeOpen(t)
  PROVE  IInv'
<1> USE Records, Constants
<1>0. UNCHANGED <<file, age, screen>> /\ tick[t].at = "open"
  BY DEF ServeOpen, localVars
<1>1. CASE UNCHANGED row /\ Reply(t, NoWindow, FALSE)
  <2>1. /\ tick' \in [Ticks -> TickRecord]
        /\ tick'[t].at = tick[t].at /\ tick'[t].snap = tick[t].snap
        /\ tick'[t].reply.window = NoWindow /\ tick'[t].reply.trusted = FALSE
        /\ \A u \in Ticks \ {t} : tick'[u] = tick[u]
    BY <1>1, Answers DEF MaybeWindow
  <2>2. Typed' /\ RefersToRows'
    BY <1>0, <1>1, <2>1 DEF IInv, Typed, RefersToRows, Known
  <2>3. OpeningIsNew'
    BY <1>0, <1>1, <2>1 DEF IInv, OpeningIsNew, Opening
  <2>4. ClientIsBehind' /\ ClosesRipe'
    BY <1>0, <1>1, <2>1 DEF IInv, ClientIsBehind, ClosesRipe
  <2> QED BY <2>2, <2>3, <2>4 DEF IInv
<1>2. ASSUME NEW w \in Windows, row[w].state = "none",
             row' = [row EXCEPT ![w] = [NoRow EXCEPT !.state = "open", !.owner = Owner]],
             NEW x \in MaybeWindow, NEW good \in BOOLEAN, Reply(t, x, good),
             x = w \/ (x = NoWindow /\ ~good)
      PROVE  IInv'
  <2>1. /\ tick' \in [Ticks -> TickRecord]
        /\ tick'[t].at = tick[t].at /\ tick'[t].snap = tick[t].snap
        /\ tick'[t].reply.window = x /\ tick'[t].reply.trusted = good
        /\ \A u \in Ticks \ {t} : tick'[u] = tick[u]
    BY <1>2, Answers
  <2> DEFINE new == [NoRow EXCEPT !.state = "open", !.owner = Owner]
  <2>2. new \in RowRecord /\ new.state = "open" /\ new.age = 0
    BY DEF RowRecord, NoRow, Owner
  <2>3. row' = [row EXCEPT ![w] = new]
    BY <1>2
  <2> HIDE DEF new
  <2>4. row' \in [Windows -> RowRecord] /\ row'[w] = new
        /\ \A v \in Windows \ {w} : row'[v] = row[v]
    BY <2>2, <2>3 DEF IInv, Typed
  <2>5. Typed'
    BY <1>0, <2>1, <2>4 DEF IInv, Typed
  <2>6. RefersToRows'
    BY <1>0, <1>2, <2>1, <2>2, <2>4 DEF IInv, RefersToRows, Known
  <2>7. OpeningIsNew'
    BY <1>0, <1>2, <2>1, <2>4 DEF IInv, OpeningIsNew, Opening, RefersToRows, Known
  <2>8. ClientIsBehind'
    <3>1. age[w] = 0 /\ age' = age
      BY <1>0, <1>2 DEF IInv, ClientIsBehind
    <3>2. \A v \in Windows \ {w} : row'[v] = row[v]
      BY <2>4
    <3>3. row'[w].state = "open" /\ row'[w].age = 0
      BY <2>2, <2>4
    <3> QED BY <3>1, <3>2, <3>3 DEF IInv, ClientIsBehind
  <2>9. ClosesRipe'
    BY <1>0, <2>1 DEF IInv, ClosesRipe
  <2> QED BY <2>5, <2>6, <2>7, <2>8, <2>9 DEF IInv
<1>3. Trusted(signer, keyid) \in BOOLEAN
  BY DEF Trusted
<1> QED BY <1>1, <1>2, <1>3 DEF ServeOpen, MaybeWindow

\* A window is beaten, closed or swept: it was open, and its age stays.
RowsKept ==
  /\ row' \in [Windows -> RowRecord]
  /\ \A w \in Windows : row'[w].state = "none" <=> row[w].state = "none"
  /\ \A w \in Windows : row'[w].state = "open" =>
       row[w].state = "open" /\ row'[w].age = row[w].age

LEMMA ServedInv ==
  ASSUME IInv, NEW t \in Ticks, tick[t].at # "open", NEW w \in MaybeWindow,
         Known(w), NEW good \in BOOLEAN, Reply(t, w, good), RowsKept,
         UNCHANGED <<file, age, screen>>
  PROVE  IInv'
<1>1. /\ tick' \in [Ticks -> TickRecord]
      /\ tick'[t].at = tick[t].at /\ tick'[t].snap = tick[t].snap
      /\ tick'[t].reply.window = w
      /\ \A u \in Ticks \ {t} : tick'[u] = tick[u]
  BY Answers
<1>2. Typed'
  BY <1>1 DEF IInv, Typed, RowsKept
<1>3. RefersToRows'
  BY <1>1 DEF IInv, RefersToRows, Known, RowsKept
<1>4. OpeningIsNew'
  BY <1>1 DEF IInv, OpeningIsNew, Opening
<1>5. ClientIsBehind'
  BY DEF IInv, ClientIsBehind, RowsKept
<1>6. ClosesRipe'
  BY <1>1 DEF IInv, ClosesRipe
<1> QED BY <1>2, <1>3, <1>4, <1>5, <1>6 DEF IInv

LEMMA OverRows ==
  ASSUME NEW s \in {"credited", "abandoned"}
  PROVE  Over(s) \in RowRecord /\ Over(s).state = s
  BY Records DEF Over, RowRecord

LEMMA ServeBeatInv ==
  ASSUME IInv, NEW t \in Ticks, ServeBeat(t)
  PROVE  IInv'
<1> DEFINE s == tick[t].snap
           sent == Append(s.chain, s.moved)
<1>1. tick[t].at = "beat" /\ s \in State /\ Known(s.window)
  BY DEF ServeBeat, IInv, Typed, TickRecord, RefersToRows
<1>2. s.window \in MaybeWindow /\ s.chain \in Seq(BOOLEAN) /\ s.moved \in BOOLEAN
  BY <1>1 DEF State, MaybeWindow
<1>3. sent \in Seq(BOOLEAN)
  BY <1>2
<1>4. RowsKept
  <2>1. CASE UNCHANGED row
    BY <2>1 DEF RowsKept, IInv, Typed
  <2>2. CASE row' = [row EXCEPT ![s.window].chain = sent]
    <3> PICK w \in MaybeWindow : w = s.window
      BY <1>2
    <3> PICK c \in Seq(BOOLEAN) : c = sent
      BY <1>3
    <3>1. row' = [row EXCEPT ![w].chain = c]
      BY <2>2
    <3> HIDE DEF s, sent
    <3>2. row \in [Windows -> RowRecord]
      BY DEF IInv, Typed
    <3>3. \A x \in Windows : row'[x] = IF x = w THEN [row[x] EXCEPT !.chain = c] ELSE row[x]
      BY <3>1, <3>2
    <3>4. ASSUME NEW x \in Windows
          PROVE  /\ [row[x] EXCEPT !.chain = c] \in RowRecord
                 /\ [row[x] EXCEPT !.chain = c].state = row[x].state
                 /\ [row[x] EXCEPT !.chain = c].age = row[x].age
      BY <3>2 DEF RowRecord
    <3>5. row' \in [Windows -> RowRecord]
      <4>1. \A x \in Windows : row'[x] \in RowRecord
        BY <3>2, <3>3, <3>4
      <4> QED BY <3>1, <3>2, <4>1
    <3> QED BY <3>3, <3>4, <3>5 DEF RowsKept
  <2> QED BY <2>1, <2>2 DEF ServeBeat
<1>5. Reply(t, s.window, FALSE) /\ UNCHANGED <<file, age, screen>>
  BY DEF ServeBeat, localVars
<1> HIDE DEF s
<1> QED BY <1>1, <1>2, <1>4, <1>5, ServedInv

LEMMA ServeCloseInv ==
  ASSUME IInv, NEW t \in Ticks, ServeClose(t)
  PROVE  IInv'
<1> DEFINE w == tick[t].snap.window
<1>1. tick[t].at = "close" /\ w \in Windows /\ Known(w)
  BY DEF ServeClose, IInv, ClosesRipe, RefersToRows
<1>2. RowsKept
  <2>0. row \in [Windows -> RowRecord]
    BY DEF IInv, Typed
  <2>1. CASE UNCHANGED row
    BY <2>0, <2>1 DEF RowsKept
  <2>2. ASSUME NEW s \in {"credited", "abandoned"}, row' = [row EXCEPT ![w] = Over(s)],
               row[w].state = "open"
        PROVE  RowsKept
    BY <1>1, <2>0, <2>2, OverRows DEF RowsKept
  <2> QED BY <2>1, <2>2 DEF ServeClose, Ours
<1>3. Reply(t, w, FALSE) /\ UNCHANGED <<file, age, screen>>
  BY DEF ServeClose, localVars
<1> HIDE DEF w
<1> QED BY <1>1, <1>2, <1>3, ServedInv DEF MaybeWindow

LEMMA ServeLineInv ==
  ASSUME ClientAssumption, IInv, NEW t \in Ticks, ServeLine(t)
  PROVE  IInv'
<1>1. RowsKept /\ Known(NoWindow) /\ Trusted(signer, keyid) \in BOOLEAN
  BY Constants DEF ServeLine, RowsKept, IInv, Typed, Known, Trusted
<1>2. /\ Reply(t, NoWindow, Trusted(signer, keyid)) /\ UNCHANGED <<file, age, screen>>
      /\ tick[t].at # "open" /\ NoWindow \in MaybeWindow
  BY DEF ServeLine, localVars, MaybeWindow
<1> QED BY <1>1, <1>2, ServedInv

-----------------------------------------------------------------------------
(* The world around.                                                       *)

LEMMA WorkInv ==
  ASSUME IInv, Work
  PROVE  IInv'
<1>1. file' \in State /\ file'.window = file.window
  <2>1. (file.window # NoWindow) \in BOOLEAN /\ file \in State
    BY DEF IInv, Typed
  <2> QED BY <2>1, States DEF Work
<1>2. tick' \in [Ticks -> TickRecord]
  BY DEF Work, IInv, Typed, TickRecord
<1>3. \A t \in Ticks : /\ tick'[t].at = tick[t].at /\ tick'[t].snap = tick[t].snap
                       /\ tick'[t].reply = tick[t].reply
  BY DEF Work, IInv, Typed, TickRecord
<1>4. UNCHANGED <<row, age, screen>>
  BY DEF Work
<1> HIDE DEF Work
<1>5. Typed' /\ RefersToRows'
  BY <1>1, <1>2, <1>3, <1>4 DEF IInv, Typed, RefersToRows, Known
<1>6. OpeningIsNew'
  BY <1>1, <1>3, <1>4 DEF IInv, OpeningIsNew, Opening
<1>7. ClientIsBehind' /\ ClosesRipe'
  BY <1>3, <1>4 DEF IInv, ClientIsBehind, ClosesRipe
<1> QED BY <1>5, <1>6, <1>7 DEF IInv

LEMMA SweepInv ==
  ASSUME IInv, NEW w \in Windows, Sweep(w)
  PROVE  IInv'
<1>1. RowsKept
  BY OverRows DEF Sweep, IInv, Typed, RowsKept
<1>2. UNCHANGED <<file, age, screen, tick>>
  BY DEF Sweep, localVars
<1> QED BY <1>1, <1>2 DEF IInv, Typed, RefersToRows, Known, OpeningIsNew, Opening,
                          ClientIsBehind, ClosesRipe, RowsKept

LEMMA PurgeInv ==
  ASSUME IInv, NEW w \in Windows, Purge(w)
  PROVE  IInv'
<1>1. /\ row' = [row EXCEPT ![w] = NoRow] /\ age' = [age EXCEPT ![w] = 0]
      /\ file.window # w /\ UNCHANGED <<file, tick, screen>>
      /\ \A t \in Ticks : tick[t].snap.window # w /\ tick[t].reply.window # w
  BY DEF Purge
<1>2. /\ row'[w] = NoRow /\ age'[w] = 0
      /\ \A v \in Windows \ {w} : row'[v] = row[v] /\ age'[v] = age[v]
  BY <1>1 DEF IInv, Typed
<1>3. Typed'
  BY <1>1, Records DEF IInv, Typed
<1>4. RefersToRows'
  BY <1>1, <1>2 DEF IInv, RefersToRows, Known
<1>5. OpeningIsNew'
  BY <1>1 DEF IInv, OpeningIsNew, Opening
<1>6. ClientIsBehind'
  BY <1>2 DEF IInv, ClientIsBehind, NoRow
<1>7. ClosesRipe'
  BY <1>1, <1>2 DEF IInv, ClosesRipe
<1> QED BY <1>3, <1>4, <1>5, <1>6, <1>7 DEF IInv

LEMMA ClockInv ==
  ASSUME ClientAssumption, IInv, Clock
  PROVE  IInv'
<1> USE Records, Constants
<1>1. /\ age' = [w \in Windows |-> IF row[w].state = "none" THEN 0
                                   ELSE Least(age[w] + 1, Dwell + Cooldown)]
      /\ row' = [w \in Windows |-> IF row[w].state # "open" THEN row[w]
                                   ELSE [row[w] EXCEPT !.age = Least(@ + 1, Stale)]]
      /\ UNCHANGED <<file, screen>>
  BY DEF Clock
<1>2. tick' \in [Ticks -> TickRecord]
      /\ \A t \in Ticks : \/ tick'[t] = Idle
                          \/ /\ tick'[t].at = tick[t].at /\ tick'[t].snap = tick[t].snap
                             /\ tick'[t].reply = tick[t].reply
  <2>1. ASSUME NEW t \in Ticks
        PROVE  LET x == [tick[t] EXCEPT !.late = @ + 1] IN
               x \in TickRecord /\ x.at = tick[t].at /\ x.snap = tick[t].snap
               /\ x.reply = tick[t].reply
    BY DEF IInv, Typed, TickRecord
  <2> QED BY <2>1 DEF Clock
<1>3. \A w \in Windows :
        /\ row'[w] \in RowRecord /\ row'[w].state = row[w].state
        /\ row[w].state = "open" => row'[w].age = Least(row[w].age + 1, Stale)
  <2> TAKE w \in Windows
  <2>1. row[w] \in RowRecord /\ row[w].age \in Nat
    BY DEF IInv, Typed, RowRecord
  <2> DEFINE n == Least(row[w].age + 1, Stale)
  <2>2. n \in Nat
    BY <2>1 DEF Least
  <2>3. row'[w] = IF row[w].state # "open" THEN row[w] ELSE [row[w] EXCEPT !.age = n]
    BY <1>1
  <2> HIDE DEF n
  <2>4. [row[w] EXCEPT !.age = n] \in RowRecord /\ [row[w] EXCEPT !.age = n].age = n
        /\ [row[w] EXCEPT !.age = n].state = row[w].state
    BY <2>1, <2>2 DEF RowRecord
  <2> QED BY <2>1, <2>3, <2>4 DEF n
<1>4. \A w \in Windows : age'[w] = IF row[w].state = "none" THEN 0
                                   ELSE Least(age[w] + 1, Dwell + Cooldown)
  BY <1>1
<1>5. Typed'
  <2>1. row' \in [Windows -> RowRecord]
    BY <1>1, <1>3
  <2>2. age' \in [Windows -> Nat]
    BY <1>1 DEF IInv, Typed, Least
  <2> QED BY <1>1, <1>2, <2>1, <2>2 DEF IInv, Typed
<1> HIDE DEF Clock
<1>6. RefersToRows'
  BY <1>1, <1>2, <1>3 DEF IInv, RefersToRows, Known
<1>7. OpeningIsNew'
  BY <1>1, <1>2 DEF IInv, OpeningIsNew, Opening
<1>8. ClientIsBehind'
  <2> SUFFICES ASSUME NEW w \in Windows
               PROVE  /\ row'[w].state = "none" => age'[w] = 0
                      /\ row'[w].state = "open" => age'[w] <= row'[w].age
    BY DEF ClientIsBehind
  <2>1. age[w] \in Nat /\ row[w].age \in Nat
    BY DEF IInv, Typed, RowRecord
  <2> QED BY <1>3, <1>4, <2>1 DEF IInv, ClientIsBehind, Least
<1>9. ClosesRipe'
  <2> SUFFICES ASSUME NEW t \in Ticks
               PROVE  /\ tick'[t].at \in {"beat", "close"} => tick'[t].snap.window \in Windows
                      /\ tick'[t].at = "close" => age'[tick'[t].snap.window] >= Dwell
    BY DEF ClosesRipe
  <2>1. CASE tick'[t] = Idle
    BY <2>1
  <2>2. CASE tick'[t].at = tick[t].at /\ tick'[t].snap = tick[t].snap
    <3>1. /\ tick[t].at \in {"beat", "close"} => tick[t].snap.window \in Windows
          /\ tick[t].at = "close" => /\ age[tick[t].snap.window] >= Dwell
                                     /\ row[tick[t].snap.window].state # "none"
      BY DEF IInv, ClosesRipe, RefersToRows, Known
    <3>2. ASSUME NEW w \in Windows, age[w] >= Dwell, row[w].state # "none"
          PROVE  age'[w] >= Dwell
      <4>1. age[w] \in Nat
        BY DEF IInv, Typed
      <4> QED BY <1>4, <3>2, <4>1 DEF Least
    <3> QED BY <2>2, <3>1, <3>2
  <2> QED BY <1>2, <2>1, <2>2
<1> QED BY <1>5, <1>6, <1>7, <1>8, <1>9 DEF IInv

-----------------------------------------------------------------------------
(* All steps together.                                                     *)

LEMMA NextInv ==
  ASSUME ClientAssumption, IInv, [Next]_vars
  PROVE  IInv'
<1>1. ASSUME NEW t \in Ticks, Launch(t) \/ Answered(t) \/ Lost(t) \/ Die(t) \/ Serve(t)
      PROVE  IInv'
  BY <1>1, LaunchInv, OpenedInv, AnswerInv, ServeOpenInv, ServeBeatInv, ServeCloseInv,
     ServeLineInv DEF Answered, Serve
<1>2. ASSUME NEW w \in Windows, Sweep(w) \/ Purge(w) PROVE IInv'
  BY <1>2, SweepInv, PurgeInv
<1>3. CASE RotateKey \/ RotateId \/ Account \/ Revoke \/ UNCHANGED vars
  BY <1>3 DEF RotateKey, RotateId, Account, Revoke, vars, localVars, IInv, Typed,
              RefersToRows, Known, OpeningIsNew, Opening, ClientIsBehind, ClosesRipe
<1>4. CASE Work \/ Clock
  BY <1>4, WorkInv, ClockInv
<1> QED BY <1>1, <1>2, <1>3, <1>4 DEF Next, TickStep

LEMMA Inductive == Spec => []IInv
<1>1. Init => IInv
  BY InitInv, ClientAssumption
<1>2. IInv /\ [Next]_vars => IInv'
  BY NextInv, ClientAssumption
<1> QED BY <1>1, <1>2, PTL DEF Spec

\* The session file, the processes and the rows keep their shapes, and the
\* line on the screen is a window's, the promotion or none.
THEOREM ClientTyped == Spec => []TypeOK
<1>1. IInv => TypeOK
  BY DEF IInv, Typed, TypeOK, TickRecord, Stages, ReplyRecord, MaybeWindow, RowRecord
<1> QED BY <1>1, Inductive, PTL

\* A client that closes an open window has shown it for a whole dwell of the
\* server's clock (step: startedAt is taken after the answer to the open).
THEOREM WholeDwellShown == Spec => []NeverTooShort
<1>1. IInv => NeverTooShort
  <2> SUFFICES ASSUME IInv, NEW t \in Ticks, tick[t].at = "close",
                      row[tick[t].snap.window].state = "open"
               PROVE  row[tick[t].snap.window].age >= Dwell
    BY DEF NeverTooShort
  <2>1. PICK w \in Windows : w = tick[t].snap.window
    BY DEF IInv, ClosesRipe
  <2>2. age[w] >= Dwell /\ age[w] <= row[w].age /\ age[w] \in Nat /\ row[w].age \in Nat
    BY <2>1 DEF IInv, ClosesRipe, ClientIsBehind, Typed, RowRecord
  <2> QED BY <2>1, <2>2, ClientAssumption, Constants
<1> QED BY <1>1, Inductive, PTL

-----------------------------------------------------------------------------
(* What was credited was on the screen.                                    *)

\* The lines written for a window, and the ticks that may still write one or
\* were lost.
Paid(w) == seen[w] + faults + Cardinality(Waiting(w))

\* The session knows the window: it was written when it was opened.
Referred(w) == file.window = w \/ \E t \in Ticks : tick[t].snap.window = w

\* A window has one line for its opening and one for each accepted beat.
Shown(w) ==
  /\ seen[w] <= MinBeats + 1
  /\ Referred(w) => seen[w] >= 1
  /\ row[w].state = "credited" => Paid(w) >= MinBeats + 1
  /\ row[w].state = "open" /\ row[w].chain # <<>> =>
       Paid(w) >= Least(Len(row[w].chain) + 1, MinBeats + 1)

AllShown ==
  /\ seen \in [Windows -> Nat]
  /\ faults \in Nat
  /\ \A w \in Windows : Shown(w)

LEMMA WaitingFinite ==
  \A w : IsFiniteSet(Waiting(w)) /\ Cardinality(Waiting(w)) \in Nat
<1>1. \A w : Waiting(w) \subseteq Ticks
  BY DEF Waiting
<1>2. IsFiniteSet(Ticks)
  BY ClientAssumption
<1> QED BY <1>1, <1>2, FS_Subset, FS_CardinalityType

\* A row says what it said, is over without a credit, or is opened anew.
RowStands(w) ==
  \/ row'[w].state = row[w].state /\ row'[w].chain = row[w].chain
  \/ row'[w].state \notin {"open", "credited"}
  \/ row'[w].state = "open" /\ row'[w].chain = <<>>

LEMMA UntouchedRows ==
  ASSUME UNCHANGED row
  PROVE  \A w \in Windows : RowStands(w)
BY DEF RowStands

LEMMA PaidCounts ==
  ASSUME AllShown, NEW w \in Windows,
         seen'[w] \in Nat, faults' \in Nat, Cardinality(Waiting(w)') \in Nat
  PROVE  /\ MinBeats \in Nat /\ seen[w] \in Nat /\ Paid(w) \in Nat /\ Paid(w)' \in Nat
         /\ seen'[w] = MinBeats + 1 => Paid(w)' >= MinBeats + 1
<1>1. MinBeats \in Nat /\ seen[w] \in Nat /\ faults \in Nat /\ Cardinality(Waiting(w)) \in Nat
  BY Constants, WaitingFinite DEF AllShown
<1> QED BY <1>1 DEF Paid

\* Nothing is taken from a window whose row stands.
LEMMA ShownStays ==
  ASSUME IInv, AllShown, NEW w \in Windows,
         seen'[w] \in Nat, faults' \in Nat, Cardinality(Waiting(w)') \in Nat,
         seen'[w] <= MinBeats + 1, seen'[w] >= seen[w],
         Paid(w)' >= Paid(w) \/ seen'[w] = MinBeats + 1,
         Referred(w)' => Referred(w) \/ seen'[w] >= 1,
         RowStands(w)
  PROVE  Shown(w)'
<1>1. /\ MinBeats \in Nat /\ seen[w] \in Nat /\ Paid(w) \in Nat /\ Paid(w)' \in Nat
      /\ seen'[w] = MinBeats + 1 => Paid(w)' >= MinBeats + 1
  BY PaidCounts
<1>2. \A n \in Nat : Paid(w) >= Least(n + 1, MinBeats + 1) =>
                     Paid(w)' >= Least(n + 1, MinBeats + 1)
  BY <1>1 DEF Least
<1>3. Shown(w)
  BY DEF AllShown
<1>4. Referred(w)' => seen'[w] >= 1
  BY <1>1, <1>3 DEF Shown
<1>5. row'[w].state = "credited" => Paid(w)' >= MinBeats + 1
  BY <1>1, <1>3 DEF Shown, RowStands
<1>6. ASSUME row'[w].state = "open", row'[w].chain # <<>>
      PROVE  Paid(w)' >= Least(Len(row'[w].chain) + 1, MinBeats + 1)
  <2>1. row[w].state = "open" /\ row'[w].chain = row[w].chain
    BY <1>6 DEF RowStands
  <2>2. Len(row[w].chain) \in Nat
    BY DEF IInv, Typed, RowRecord
  <2>3. Paid(w) >= Least(Len(row[w].chain) + 1, MinBeats + 1)
    BY <1>3, <1>6, <2>1 DEF Shown
  <2> QED BY <1>2, <2>1, <2>2, <2>3
<1> QED BY <1>4, <1>5, <1>6 DEF Shown

\* A process ends: it waits no more, and one more line may be written.
Ends(t, line) ==
  /\ tick' = [tick EXCEPT ![t] = Idle]
  /\ seen' = IF line \in Windows
             THEN [seen EXCEPT ![line] = Least(@ + 1, MinBeats + 1)] ELSE seen
  /\ faults' \in Nat /\ faults' >= faults
  /\ \A w \in Windows : t \in Waiting(w) => faults' > faults \/ line = w
  /\ file'.window \in {file.window, tick[t].snap.window, NoWindow, line}
  /\ UNCHANGED row

LEMMA ShownEnds ==
  ASSUME IInv, AllShown, NEW t \in Ticks, NEW line, Ends(t, line)
  PROVE  AllShown'
<1>1. MinBeats \in Nat /\ seen \in [Windows -> Nat] /\ faults \in Nat
      /\ \A w \in Windows : seen[w] <= MinBeats + 1
  BY Constants DEF AllShown, Shown
<1>2. tick'[t] = Idle /\ \A u \in Ticks \ {t} : tick'[u] = tick[u]
  BY DEF IInv, Typed, Ends
<1>3. \A w \in Windows : Waiting(w)' = Waiting(w) \ {t}
  BY <1>2, Records DEF Waiting
<1>4. ASSUME NEW w \in Windows
      PROVE  /\ seen'[w] \in Nat /\ seen'[w] >= seen[w] /\ seen'[w] <= MinBeats + 1
             /\ line = w => seen'[w] >= 1 /\ (seen'[w] = seen[w] + 1 \/ seen'[w] = MinBeats + 1)
  BY <1>1 DEF Least, Ends
<1>5. ASSUME NEW w \in Windows
      PROVE  /\ Cardinality(Waiting(w)') \in Nat
             /\ Paid(w)' >= Paid(w) \/ seen'[w] = MinBeats + 1
  <2>1. IsFiniteSet(Waiting(w)) /\ Cardinality(Waiting(w)) \in Nat
    BY WaitingFinite
  <2>2. Cardinality(Waiting(w)') = Cardinality(Waiting(w)) - (IF t \in Waiting(w) THEN 1 ELSE 0)
        /\ Cardinality(Waiting(w)') \in Nat
    BY <1>3, <2>1, FS_RemoveElement, FS_CardinalityType
  <2>3. /\ faults' \in Nat /\ faults' >= faults
        /\ t \in Waiting(w) => faults' > faults \/ line = w
    BY DEF Ends
  <2> QED BY <1>1, <1>4, <2>1, <2>2, <2>3 DEF Paid
<1>6. ASSUME NEW w \in Windows, Referred(w)'
      PROVE  Referred(w) \/ seen'[w] >= 1
  <2>1. CASE file'.window = w
    BY <1>4, <2>1, Constants DEF Referred, Ends
  <2>2. CASE \E u \in Ticks : tick'[u].snap.window = w
    BY <1>2, <2>2, Records, Constants DEF Referred
  <2> QED BY <1>6, <2>1, <2>2 DEF Referred
<1>7. faults' \in Nat /\ \A w \in Windows : RowStands(w)
  BY UntouchedRows DEF Ends
<1>8. ASSUME NEW w \in Windows PROVE Shown(w)'
  BY <1>4, <1>5, <1>6, <1>7, ShownStays
<1>9. seen' \in [Windows -> Nat]
  BY <1>1 DEF Least, Ends
<1> QED BY <1>7, <1>8, <1>9 DEF AllShown

\* No process waits more or less, nothing is written or forgotten.
Untouched ==
  /\ UNCHANGED seen
  /\ faults' \in Nat /\ faults' >= faults
  /\ file'.window = file.window
  /\ \A t \in Ticks :
       tick'[t].snap.window \in {tick[t].snap.window, file.window, NoWindow}
  /\ \A w \in Windows : Waiting(w)' = Waiting(w)

LEMMA ShownUntouched ==
  ASSUME IInv, AllShown, Untouched, \A w \in Windows : RowStands(w)
  PROVE  AllShown'
<1>1. MinBeats \in Nat /\ seen \in [Windows -> Nat] /\ faults \in Nat
      /\ \A w \in Windows : seen[w] <= MinBeats + 1
  BY Constants DEF AllShown, Shown
<1>2. ASSUME NEW w \in Windows PROVE Shown(w)'
  <2>1. Cardinality(Waiting(w)) \in Nat /\ Cardinality(Waiting(w)') \in Nat
    BY WaitingFinite DEF Untouched
  <2>2. Paid(w)' >= Paid(w)
    BY <1>1, <2>1 DEF Paid, Untouched
  <2>3. Referred(w)' => Referred(w)
    BY Constants DEF Referred, Untouched
  <2>4. seen'[w] = seen[w] /\ faults' \in Nat
    BY DEF Untouched
  <2> QED BY <1>1, <2>1, <2>2, <2>3, <2>4, ShownStays
<1> QED BY <1>1, <1>2 DEF AllShown, Untouched

\* A process that waits for the answer to a beat is in no other stage.
LEMMA WaitsForBeat ==
  ASSUME NEW t \in Ticks, NEW w, t \in Waiting(w)
  PROVE  tick[t].at = "beat" /\ tick[t].snap.window = w
BY DEF Waiting

LEMMA ShowEnds ==
  ASSUME AllShown, NEW t \in Ticks, NEW line, Show(t, line), UNCHANGED row,
         faults' \in Nat, faults' >= faults,
         \A w \in Windows : t \in Waiting(w) => faults' > faults \/ line = w,
         file'.window \in {file.window, tick[t].snap.window, NoWindow, line}
  PROVE  Ends(t, line)
BY DEF Show, Ends

LEMMA AnswersShown ==
  ASSUME IInv, AllShown, NEW t \in Ticks,
         Opened(t) \/ Beaten(t) \/ Closed(t) \/ Lined(t) \/ Lost(t) \/ Die(t)
  PROVE  AllShown'
<1>0. faults \in Nat
  BY DEF AllShown
<1>1. PICK s \in State : s = tick[t].snap
  BY DEF IInv, Typed, TickRecord
<1>2. s.moved \in BOOLEAN /\ tick[t].work \in BOOLEAN
  BY <1>1 DEF IInv, Typed, TickRecord, State
<1>3. CASE Opened(t)
  <2>1. \A w \in Windows : t \notin Waiting(w)
    BY <1>3, WaitsForBeat DEF Opened
  <2>2. CASE tick[t].reply.trusted
    <3>1. PICK v : v = tick[t].reply.window
      OBVIOUS
    <3>2. /\ Show(t, v) /\ UNCHANGED <<row, faults>>
          /\ file' = Renewed(t, [NoState EXCEPT !.window = v])
      BY <1>3, <2>2, <3>1 DEF Opened
    <3>3. file'.window = v
      BY <3>2 DEF Renewed, NoState
    <3>4. Ends(t, v)
      BY <1>0, <2>1, <3>2, <3>3, ShowEnds
    <3> QED BY <3>4, ShownEnds
  <2>3. CASE ~tick[t].reply.trusted
    <3>1. Show(t, "base") /\ UNCHANGED <<row, faults>> /\ file'.window = NoWindow
      BY <1>3, <2>3, Records DEF Opened
    <3>2. Ends(t, "base")
      BY <1>0, <2>1, <3>1, ShowEnds
    <3> QED BY <3>2, ShownEnds
  <2> QED BY <2>2, <2>3
<1>4. CASE Beaten(t)
  <2>1. PICK r \in State : r = [s EXCEPT !.chain = Append(@, s.moved)] /\ r.window = s.window
    BY <1>2, States
  <2>2. file' = Renewed(t, r) /\ Show(t, s.window) /\ UNCHANGED <<row, faults>>
    BY <1>1, <1>4, <2>1 DEF Beaten
  <2>3. file'.window = s.window
    BY <1>2, <2>1, <2>2, States DEF Renewed
  <2>4. \A w \in Windows : t \in Waiting(w) => s.window = w
    BY <1>1, WaitsForBeat
  <2>5. Ends(t, s.window)
    BY <1>0, <2>2, <2>3, <2>4, ShowEnds
  <2> QED BY <2>5, ShownEnds
<1>5. CASE Closed(t)
  <2>1. PICK r \in State : r = [s EXCEPT !.reported = TRUE] /\ r.window = s.window
    BY <1>2, States
  <2>2. file' = Kept(t, r) /\ Show(t, "base") /\ UNCHANGED row
    BY <1>1, <1>5, <2>1 DEF Closed
  <2>3. faults' \in Nat /\ faults' >= faults
    BY <1>0, <1>5 DEF Closed
  <2>4. file'.window = tick[t].snap.window
    BY <1>1, <1>2, <2>1, <2>2, States DEF Kept, State
  <2>5. \A w \in Windows : t \notin Waiting(w)
    BY <1>5, WaitsForBeat DEF Closed
  <2>6. Ends(t, "base")
    BY <2>2, <2>3, <2>4, <2>5, ShowEnds
  <2> QED BY <2>6, ShownEnds
<1>6. CASE Lined(t)
  <2>1. \A w \in Windows : t \notin Waiting(w)
    BY <1>6, WaitsForBeat DEF Lined
  <2>2. PICK line : line = IF cache' <= Ttl THEN "promo" ELSE "base"
    OBVIOUS
  <2>3. Show(t, line) /\ UNCHANGED <<file, row, faults>>
    BY <1>6, <2>2 DEF Lined
  <2>4. Ends(t, line)
    BY <1>0, <2>1, <2>3, ShowEnds
  <2> QED BY <2>4, ShownEnds
<1>7. CASE Lost(t)
  <2>1. PICK line : line = IF tick[t].at = "line" /\ Cached THEN "promo" ELSE "base"
    OBVIOUS
  <2>2. Show(t, line) /\ UNCHANGED <<file, row>> /\ faults' = faults + 1
    BY <1>7, <2>1 DEF Lost
  <2>3. Ends(t, line)
    BY <1>0, <2>2, ShowEnds
  <2> QED BY <2>3, ShownEnds
<1>8. CASE Die(t)
  <2>1. Ends(t, NoWindow)
    BY <1>0, <1>8, Constants DEF Die, localVars, Ends
  <2> QED BY <2>1, ShownEnds
<1> QED BY <1>3, <1>4, <1>5, <1>6, <1>7, <1>8

LEMMA LaunchShown ==
  ASSUME IInv, AllShown, NEW t \in Ticks, Launch(t)
  PROVE  AllShown'
<1>0. faults \in Nat /\ tick \in [Ticks -> TickRecord] /\ tick[t].at = "idle"
      /\ UNCHANGED <<row, faults>>
  BY DEF IInv, Typed, AllShown, Launch
<1>1. CASE Show(t, IF token THEN "base" ELSE "promo") /\ UNCHANGED <<file, cache, age>>
  <2>1. \A w \in Windows : t \notin Waiting(w)
    BY <1>0, WaitsForBeat
  <2>2. PICK line : line = IF token THEN "base" ELSE "promo"
    OBVIOUS
  <2>3. Show(t, line)
    BY <1>1, <2>2
  <2>4. Ends(t, line)
    BY <1>0, <1>1, <2>1, <2>3, ShowEnds
  <2> QED BY <2>4, ShownEnds
<1>2. CASE /\ tick' = [tick EXCEPT ![t] = [Idle EXCEPT
                         !.at = IF token THEN Does ELSE "line", !.snap = file]]
           /\ UNCHANGED localVars
  <2>1. PICK r : r = [Idle EXCEPT !.at = IF token THEN Does ELSE "line", !.snap = file]
    OBVIOUS
  <2>2. r.snap = file /\ r.reply = NoReply /\ NoReply.got = FALSE
    BY <2>1 DEF Idle, NoReply
  <2>3. tick'[t] = r /\ \A u \in Ticks \ {t} : tick'[u] = tick[u]
    BY <1>0, <1>2, <2>1
  <2>4. \A w \in Windows : Waiting(w)' = Waiting(w)
    BY <1>0, <2>2, <2>3 DEF Waiting
  <2>5. UNCHANGED <<seen, file>>
    BY <1>2 DEF localVars
  <2>6. Untouched
    BY <1>0, <2>2, <2>3, <2>4, <2>5 DEF Untouched
  <2> QED BY <1>0, <2>6, UntouchedRows, ShownUntouched
<1> QED BY <1>1, <1>2 DEF Launch

\* Nobody waits for the answer to an open, to a close or for a signed line.
LEMMA AnswerUntouched ==
  ASSUME IInv, AllShown, NEW t \in Ticks, tick[t].at # "beat",
         NEW x \in MaybeWindow, NEW good \in BOOLEAN, Reply(t, x, good),
         UNCHANGED <<file, seen>>, faults' \in Nat, faults' >= faults
  PROVE  Untouched
<1>1. /\ tick'[t].at = tick[t].at /\ tick'[t].snap = tick[t].snap
      /\ \A u \in Ticks \ {t} : tick'[u] = tick[u]
  BY Answers
<1>2. \A w \in Windows : Waiting(w)' = Waiting(w)
  BY <1>1 DEF Waiting
<1> QED BY <1>1, <1>2 DEF Untouched

\* An answer that opens a new row.
LEMMA ServeOpenShown ==
  ASSUME IInv, AllShown, NEW t \in Ticks, ServeOpen(t)
  PROVE  AllShown'
<1>1. tick[t].at = "open" /\ UNCHANGED <<file, seen>>
  BY DEF ServeOpen, localVars
<1>2. faults' \in Nat /\ faults' >= faults
  <2>1. faults \in Nat
    BY DEF AllShown
  <2>2. UNCHANGED faults \/ faults' = faults + 1
    BY DEF ServeOpen, Reply
  <2> QED BY <2>1, <2>2
<1>3. PICK x \in MaybeWindow, good \in BOOLEAN : Reply(t, x, good)
  BY DEF ServeOpen, Trusted, MaybeWindow, Reply
<1>4. Untouched
  BY <1>1, <1>2, <1>3, AnswerUntouched
<1>5. ASSUME NEW w \in Windows
      PROVE  RowStands(w)
  <2>1. CASE UNCHANGED row
    BY <2>1, UntouchedRows
  <2>2. ASSUME NEW v \in Windows,
               row' = [row EXCEPT ![v] = [NoRow EXCEPT !.state = "open", !.owner = Owner]]
        PROVE  RowStands(w)
    <3>1. CASE w = v
      BY <2>2, <3>1 DEF RowStands, IInv, Typed, NoRow
    <3>2. CASE w # v
      BY <2>2, <3>2 DEF RowStands
    <3> QED BY <3>1, <3>2
  <2>3. \/ UNCHANGED row
        \/ \E v \in Windows :
             row' = [row EXCEPT ![v] = [NoRow EXCEPT !.state = "open", !.owner = Owner]]
    BY DEF ServeOpen, Reply
  <2> QED BY <2>1, <2>2, <2>3
<1> QED BY <1>4, <1>5, ShownUntouched

\* An accepted beat is one more line, of a process that waits to write it.
LEMMA ServeBeatShown ==
  ASSUME IInv, AllShown, NEW t \in Ticks, ServeBeat(t)
  PROVE  AllShown'
<1>1. PICK s \in State : s = tick[t].snap
  BY DEF IInv, Typed, TickRecord
<1>2. PICK v \in Windows : v = s.window
  BY <1>1 DEF ServeBeat, IInv, ClosesRipe
<1>3. s.chain \in Seq(BOOLEAN) /\ s.moved \in BOOLEAN
  BY DEF State
<1>4. PICK sent \in Seq(BOOLEAN) :
        sent = Append(s.chain, s.moved) /\ Len(sent) = Len(s.chain) + 1 /\ sent # <<>>
  BY <1>3, AppendProperties
<1>5. /\ tick[t].at = "beat" /\ ~tick[t].reply.got
      /\ UNCHANGED <<file, seen, faults>> /\ Reply(t, v, FALSE)
      /\ \/ Accepts(v, sent) /\ row' = [row EXCEPT ![v].chain = sent]
         \/ UNCHANGED row
  BY <1>1, <1>2, <1>4 DEF ServeBeat, localVars
<1>6. /\ tick'[t].at = "beat" /\ tick'[t].snap = s /\ tick'[t].reply.got = TRUE
      /\ \A u \in Ticks \ {t} : tick'[u] = tick[u]
  BY <1>1, <1>5 DEF Reply, IInv, Typed, TickRecord, ReplyRecord
<1>7. /\ t \notin Waiting(v)
      /\ Waiting(v)' = Waiting(v) \cup {t}
      /\ \A w \in Windows \ {v} : Waiting(w)' = Waiting(w)
  BY <1>1, <1>2, <1>5, <1>6 DEF Waiting
<1>8. /\ Cardinality(Waiting(v)') = Cardinality(Waiting(v)) + 1
      /\ \A w : Cardinality(Waiting(w)) \in Nat
      /\ \A w \in Windows : Cardinality(Waiting(w)') \in Nat
  <2>1. \A w : IsFiniteSet(Waiting(w)) /\ Cardinality(Waiting(w)) \in Nat
    BY WaitingFinite
  <2>2. Cardinality(Waiting(v)') = Cardinality(Waiting(v)) + 1
    BY <1>7, <2>1, FS_AddElement
  <2>3. ASSUME NEW w \in Windows PROVE Cardinality(Waiting(w)') \in Nat
    <3>1. CASE w = v
      BY <2>1, <2>2, <3>1
    <3>2. CASE w # v
      <4>1. Waiting(w)' = Waiting(w)
        BY <1>7, <3>2
      <4> QED BY <2>1, <4>1
    <3> QED BY <3>1, <3>2
  <2> QED BY <2>1, <2>2, <2>3
<1>9. /\ MinBeats \in Nat /\ faults \in Nat
      /\ \A w \in Windows : seen[w] \in Nat /\ seen[w] <= MinBeats + 1
  BY Constants DEF AllShown, Shown
<1>10. \A w \in Windows : Referred(w)' => Referred(w)
  BY <1>1, <1>5, <1>6 DEF Referred
<1>11. ASSUME NEW w \in Windows PROVE Paid(w)' >= Paid(w)
  <2>1. seen'[w] = seen[w] /\ faults' = faults
    BY <1>5
  <2>2. CASE w = v
    BY <1>8, <1>9, <2>1, <2>2 DEF Paid
  <2>3. CASE w # v
    <3>1. Waiting(w)' = Waiting(w)
      BY <1>7, <2>3
    <3> QED BY <1>8, <1>9, <2>1, <3>1 DEF Paid
  <2> QED BY <2>2, <2>3
<1>12. ASSUME NEW w \in Windows, RowStands(w) PROVE Shown(w)'
  <2>1. seen'[w] = seen[w] /\ faults' = faults
    BY <1>5
  <2> QED BY <1>8, <1>9, <1>10, <1>11, <1>12, <2>1, ShownStays
<1>13. seen' \in [Windows -> Nat] /\ faults' \in Nat
  BY <1>5 DEF AllShown
<1>14. CASE UNCHANGED row
  BY <1>12, <1>13, <1>14, UntouchedRows DEF AllShown
<1>15. CASE Accepts(v, sent) /\ row' = [row EXCEPT ![v].chain = sent]
  <2>1. Len(sent) = Len(row[v].chain) + 1 /\ Len(row[v].chain) \in Nat
    <3>1. row[v].chain = SubSeq(sent, 1, Len(sent) - 1) /\ Len(s.chain) \in Nat
      BY <1>3, <1>15 DEF Accepts, Front
    <3>2. \A i \in 1 .. Len(sent) - 1 : sent[i] \in BOOLEAN
      BY <1>4, <3>1
    <3>3. Len(SubSeq(sent, 1, Len(sent) - 1)) = Len(sent) - 1
      BY <1>4, <3>1, <3>2, SubSeqProperties
    <3> QED BY <1>4, <3>1, <3>3
  <2>2. /\ row'[v].chain = sent /\ row'[v].state = "open" /\ row[v].state = "open"
        /\ \A w \in Windows \ {v} : row'[w] = row[w]
    BY <1>15 DEF IInv, Typed, RowRecord, Accepts, Ours
  <2>3. seen[v] >= 1 /\ seen'[v] = seen[v] /\ faults' = faults
    BY <1>1, <1>2, <1>5 DEF AllShown, Shown, Referred
  <2>4. Paid(v)' = Paid(v) + 1 /\ Paid(v) \in Nat /\ Paid(v) >= 1
    <3>1. PICK c \in Nat : c = Cardinality(Waiting(v)) /\ Cardinality(Waiting(v)') = c + 1
      BY <1>8
    <3>2. PICK a \in Nat, b \in Nat : a = seen[v] /\ b = faults
      BY <1>9
    <3>3. Paid(v) = a + b + c /\ Paid(v)' = a + b + (c + 1) /\ a >= 1
      BY <2>3, <3>1, <3>2 DEF Paid
    <3> QED BY <3>3
  <2>5. Paid(v)' >= Least(Len(sent) + 1, MinBeats + 1)
    <3>1. CASE row[v].chain = <<>>
      BY <1>9, <2>1, <2>4, <3>1 DEF Least
    <3>2. CASE row[v].chain # <<>>
      <4>1. Paid(v) >= Least(Len(row[v].chain) + 1, MinBeats + 1)
        BY <2>2, <3>2 DEF AllShown, Shown
      <4> QED BY <1>9, <2>1, <2>4, <4>1 DEF Least
    <3> QED BY <3>1, <3>2
  <2>6. Shown(v)'
    BY <1>9, <2>2, <2>3, <2>5 DEF Shown
  <2>7. ASSUME NEW w \in Windows \ {v} PROVE Shown(w)'
    <3>1. RowStands(w)
      BY <2>2 DEF RowStands
    <3> QED BY <1>12, <3>1
  <2> QED BY <1>13, <2>6, <2>7 DEF AllShown
<1> QED BY <1>5, <1>14, <1>15

\* Only a window with enough accepted beats is credited.
LEMMA ServeCloseShown ==
  ASSUME IInv, AllShown, NEW t \in Ticks, ServeClose(t)
  PROVE  AllShown'
<1>1. PICK v \in Windows : v = tick[t].snap.window
  BY DEF ServeClose, IInv, ClosesRipe
<1>2. /\ tick[t].at = "close" /\ UNCHANGED <<file, seen, faults>> /\ Reply(t, v, FALSE)
      /\ row' = IF Ours(v)
                THEN [row EXCEPT ![v] = Over(IF Earned(v) THEN "credited" ELSE "abandoned")]
                ELSE row
  BY <1>1 DEF ServeClose, localVars
<1>3. faults \in Nat /\ faults' \in Nat /\ MinBeats \in Nat /\ row \in [Windows -> RowRecord]
  BY <1>2, Constants DEF AllShown, IInv, Typed
<1>4. Untouched
  <2>1. PICK x \in MaybeWindow, good \in BOOLEAN : Reply(t, x, good)
    BY <1>2 DEF MaybeWindow, Reply
  <2> QED BY <1>2, <1>3, <2>1, AnswerUntouched
<1>5. CASE ~(Ours(v) /\ Earned(v))
  <2>1. \A w \in Windows : row'[w] = row[w] \/ row'[w].state = "abandoned"
    BY <1>2, <1>3, <1>5, OverRows
  <2>2. \A w \in Windows : RowStands(w)
    BY <2>1 DEF RowStands
  <2> QED BY <1>4, <2>2, ShownUntouched
<1>6. CASE Ours(v) /\ Earned(v)
  <2>1. row'[v].state = "credited" /\ \A w \in Windows \ {v} : row'[w] = row[w]
    BY <1>2, <1>3, <1>6, OverRows
  <2>2. /\ row[v].chain # <<>> /\ row[v].state = "open"
        /\ Len(row[v].chain) \in Nat /\ Len(row[v].chain) >= MinBeats
    BY <1>3, <1>6 DEF Ours, Earned, RowRecord
  <2>3. \A w \in Windows : Paid(w)' = Paid(w) /\ (Referred(w)' => Referred(w))
    BY <1>2, <1>4, Constants DEF Paid, Referred, Untouched
  <2>4. Paid(v) >= MinBeats + 1
    <3>1. Paid(v) >= Least(Len(row[v].chain) + 1, MinBeats + 1)
      BY <2>2 DEF AllShown, Shown
    <3> QED BY <1>3, <2>2, <3>1 DEF Least
  <2>5. Shown(v)'
    BY <1>2, <2>1, <2>3, <2>4 DEF AllShown, Shown
  <2>6. ASSUME NEW w \in Windows \ {v} PROVE Shown(w)'
    BY <1>2, <2>1, <2>3, <2>6 DEF AllShown, Shown
  <2> QED BY <1>2, <1>3, <2>5, <2>6 DEF AllShown
<1> QED BY <1>5, <1>6

LEMMA ServeLineShown ==
  ASSUME IInv, AllShown, NEW t \in Ticks, ServeLine(t)
  PROVE  AllShown'
<1>1. /\ UNCHANGED <<file, seen, row, faults>> /\ tick[t].at = "line"
      /\ faults \in Nat /\ faults' \in Nat /\ faults' >= faults
  BY DEF ServeLine, localVars, AllShown
<1>2. PICK x \in MaybeWindow, good \in BOOLEAN : Reply(t, x, good)
  BY DEF ServeLine, MaybeWindow, Trusted, Reply
<1>3. Untouched
  BY <1>1, <1>2, AnswerUntouched
<1> QED BY <1>1, <1>3, UntouchedRows, ShownUntouched

LEMMA WorldShown ==
  ASSUME IInv, AllShown,
         \/ RotateKey \/ RotateId \/ Account \/ Revoke \/ Work \/ Clock \/ UNCHANGED vars
         \/ \E w \in Windows : Sweep(w)
  PROVE  AllShown'
<1>0. faults \in Nat /\ tick \in [Ticks -> TickRecord] /\ row \in [Windows -> RowRecord]
  BY DEF AllShown, IInv, Typed
<1>1. CASE RotateKey \/ RotateId \/ Account \/ Revoke \/ UNCHANGED vars
  <2>1. UNCHANGED <<tick, row, file, seen>> /\ faults' \in Nat /\ faults' >= faults
    BY <1>0, <1>1 DEF RotateKey, RotateId, Account, Revoke, vars, localVars
  <2>2. Untouched
    BY <2>1 DEF Untouched, Waiting
  <2> QED BY <2>1, <2>2, UntouchedRows, ShownUntouched
<1>2. ASSUME NEW w \in Windows, Sweep(w) PROVE AllShown'
  <2>1. UNCHANGED <<tick, file, seen, faults>>
    BY <1>2 DEF Sweep, localVars
  <2>2. Untouched
    BY <1>0, <2>1 DEF Untouched, Waiting
  <2>3. \A v \in Windows : row'[v] = row[v] \/ row'[v].state = "abandoned"
    BY <1>0, <1>2, OverRows DEF Sweep
  <2>4. \A v \in Windows : RowStands(v)
    BY <2>3 DEF RowStands
  <2> QED BY <2>2, <2>4, ShownUntouched
<1>3. CASE Work
  <2>1. file'.window = file.window
    BY <1>3 DEF Work, IInv, Typed, State
  <2>2. UNCHANGED <<row, seen, faults>>
    BY <1>3 DEF Work
  <2>3. \A t \in Ticks : /\ tick'[t].at = tick[t].at /\ tick'[t].snap = tick[t].snap
                         /\ tick'[t].reply = tick[t].reply
    BY <1>0, <1>3 DEF Work, TickRecord
  <2>4. \A w \in Windows : Waiting(w)' = Waiting(w)
    BY <2>3 DEF Waiting
  <2>5. Untouched
    BY <1>0, <2>1, <2>2, <2>3, <2>4 DEF Untouched
  <2> QED BY <2>2, <2>5, UntouchedRows, ShownUntouched
<1>4. CASE Clock
  <2>1. UNCHANGED <<file, seen, faults>>
    BY <1>4 DEF Clock
  <2>2. \A t \in Ticks : \/ tick'[t] = Idle /\ tick[t].at = "idle"
                         \/ /\ tick'[t].at = tick[t].at /\ tick'[t].snap = tick[t].snap
                            /\ tick'[t].reply = tick[t].reply
    BY <1>0, <1>4 DEF Clock, TickRecord
  <2>3. \A w \in Windows : Waiting(w)' = Waiting(w)
    BY <2>2, Records DEF Waiting
  <2>4. Untouched
    BY <1>0, <2>1, <2>2, <2>3, Records DEF Untouched
  <2>5. \A w \in Windows : row'[w].state = row[w].state /\ row'[w].chain = row[w].chain
    <3>1. \A w \in Windows : LET x == [row[w] EXCEPT !.age = Least(@ + 1, Stale)] IN
            x.state = row[w].state /\ x.chain = row[w].chain
      BY <1>0 DEF RowRecord
    <3> QED BY <1>4, <3>1 DEF Clock
  <2>6. \A w \in Windows : RowStands(w)
    BY <2>5 DEF RowStands
  <2> QED BY <2>4, <2>6, ShownUntouched
<1> QED BY <1>1, <1>2, <1>3, <1>4

\* A purged window is nobody's, and is forgotten with what was seen of it.
LEMMA PurgeShown ==
  ASSUME IInv, AllShown, NEW w \in Windows, Purge(w)
  PROVE  AllShown'
<1>1. /\ row' = [row EXCEPT ![w] = NoRow] /\ seen' = [seen EXCEPT ![w] = 0]
      /\ file.window # w /\ UNCHANGED <<file, tick, faults>>
      /\ \A t \in Ticks : tick[t].snap.window # w
  BY DEF Purge
<1>2. /\ row'[w] = NoRow /\ seen'[w] = 0 /\ seen' \in [Windows -> Nat]
      /\ \A v \in Windows \ {w} : row'[v] = row[v] /\ seen'[v] = seen[v]
  BY <1>1 DEF IInv, Typed, AllShown
<1>3. ~Referred(w)' /\ NoRow.state = "none" /\ 0 <= MinBeats + 1
  BY <1>1, ClientAssumption DEF Referred, NoRow
<1>4. Shown(w)'
  BY <1>2, <1>3 DEF Shown
<1>5. ASSUME NEW v \in Windows \ {w} PROVE Shown(v)'
  BY <1>1, <1>2 DEF AllShown, Shown, Paid, Referred, Waiting
<1> QED BY <1>1, <1>2, <1>4, <1>5 DEF AllShown

\* An advertiser pays for lines that were on the screen: at least one for the
\* opening of a credited window and one for each beat it needs, but for the
\* processes that were lost, that died or that still wait to write theirs,
\* however many of them overlap on one session file.
THEOREM CreditedAlwaysSeen == Spec => []CreditedWasSeen
<1>1. Init => AllShown
  <2> SUFFICES ASSUME Init PROVE AllShown
    OBVIOUS
  <2>1. MinBeats \in Nat
    BY ClientAssumption
  <2>2. \A w \in Windows : ~Referred(w)
    BY Records, Constants, ClientAssumption DEF Init, Referred
  <2> QED BY <2>1, <2>2 DEF Init, AllShown, Shown, NoRow
<1>2. IInv /\ AllShown /\ [Next]_vars => AllShown'
  <2> SUFFICES ASSUME IInv, AllShown, [Next]_vars PROVE AllShown'
    OBVIOUS
  <2>1. ASSUME NEW t \in Ticks, Launch(t) \/ Answered(t) \/ Lost(t) \/ Die(t) \/ Serve(t)
        PROVE  AllShown'
    BY <2>1, ClientAssumption, LaunchShown, AnswersShown, ServeOpenShown, ServeBeatShown,
       ServeCloseShown, ServeLineShown DEF Answered, Serve
  <2> QED BY <2>1, ClientAssumption, PurgeShown, WorldShown DEF Next, TickStep
<1>3. AllShown => CreditedWasSeen
  BY DEF AllShown, Shown, Paid, CreditedWasSeen
<1> QED BY <1>1, <1>2, <1>3, Inductive, PTL DEF Spec

=============================================================================
