----------------------------- MODULE ClientTick -----------------------------
(***************************************************************************)
(* The status line of one Claude Code session against the feed.  Claude    *)
(* Code starts a fresh process on every tick: it loads the session's state *)
(* file, looks for a token, makes at most one request, writes the file     *)
(* back and prints one line.  A tick whose request is slow overlaps the    *)
(* next ones, and each writes what it computed from the file it had        *)
(* loaded.  The feed forwards open, beat and close to the window calls of  *)
(* AdWindow, kept here as far as a client can tell them apart.             *)
(***************************************************************************)
EXTENDS Integers, FiniteSets, Sequences, SequencesExt

CONSTANTS
  Ticks,     \* processes of the session alive at once
  Windows,   \* ad_windows rows not yet purged
  Keys,      \* signing keys of the feed, before and after a rotation
  Bundle,    \* keys the installed client trusts: keys/*.pem
  Legacy,    \* the key used without a keyid: public.pem
  Dwell,     \* dwellMs; a clock step is REFRESH_SECONDS
  Cooldown,  \* COOLDOWN_MS
  Timeout,   \* FETCH_TIMEOUT_MS, the longest a request is out
  Ttl,       \* SENTINEL_TTL_MS
  MinBeats,  \* beats a credited window needs
  Stale,     \* age at which the server sweeps an open window
  MaxFaults, \* bound: losses, deaths, unfilled opens, log-ins and log-outs
  NoWindow   \* no window, no key, no answer

ASSUME ClientAssumption ==
  /\ IsFiniteSet(Ticks)
  /\ Legacy \in Bundle
  /\ {Dwell, Cooldown, Timeout, Ttl, MinBeats, Stale, MaxFaults} \subseteq Nat
  /\ 0 < Dwell /\ Dwell + Cooldown <= Stale
  /\ NoWindow \notin Windows \cup Keys

VARIABLES
  file,      \* impression-state-<session>.json
  tick,      \* per process: what it loaded, what it does, its answer
  launched,  \* a tick was started in this clock step
  token,     \* an account is logged in: getValidAccessToken gives a token
  cache,     \* age of the signed line in ad-cache.json, Ttl + 1 without one
  age,       \* clock() - startedAt of a window, on the client
  screen,    \* the line last written: a window, "promo" or "base"
  seen,      \* ghost: ticks that wrote the window's line
  row,       \* ad_windows: state, owner, accepted beats, age
  signer,    \* LUMALINE_ED25519_PRIVATE_KEY
  keyid,     \* LUMALINE_ED25519_KEY_ID, NoWindow when unset
  revoked,   \* devices.revoked_at of the device is set
  faults

localVars == <<file, cache, age, screen, seen>>
opsVars   == <<signer, keyid>>
vars == <<localVars, row, opsVars, tick, launched, token, revoked, faults>>

\* The state of a window: its hash chain stands for seq and prevHash, the
\* deltas hashed into it; "moved" says that activity has changed since
\* lastActivityValue was taken.
State == [window : Windows \cup {NoWindow}, chain : Seq(BOOLEAN),
          moved : BOOLEAN, reported : BOOLEAN]
NoState == [window |-> NoWindow, chain |-> <<>>, moved |-> FALSE, reported |-> FALSE]

\* An answer: none yet, ok or an error body, and whether the content is trusted.
NoReply == [got |-> FALSE, window |-> NoWindow, trusted |-> FALSE]
Idle == [at |-> "idle", snap |-> NoState, work |-> FALSE, late |-> 0,
         reply |-> NoReply]
NoRow == [state |-> "none", owner |-> "none", chain |-> <<>>, age |-> 0]

Init ==
  /\ file = NoState
  /\ tick = [t \in Ticks |-> Idle]
  /\ launched = FALSE
  /\ token \in BOOLEAN
  /\ cache = Ttl + 1
  /\ age = [w \in Windows |-> 0]
  /\ screen = "base"
  /\ seen = [w \in Windows |-> 0]
  /\ row = [w \in Windows |-> NoRow]
  /\ signer = Legacy
  /\ keyid = NoWindow
  /\ revoked = FALSE
  /\ faults = 0

Least(a, b) == IF a < b THEN a ELSE b

\* A line is cached, stale or not; the keys of the bundle stay trusted.
Cached == cache <= Ttl

\* keyring.verify of an envelope signed by key under id: a keyid selects its
\* key in the bundle, none selects the legacy key.  Bug: a client that knows
\* one key.
TrustedBug(key, id) == key = Legacy
Trusted(key, id) ==
  IF id = NoWindow THEN key = Legacy ELSE id \in Bundle /\ key = id

-----------------------------------------------------------------------------
(* The tick of a process.                                                  *)

\* What step() will do, from the file and the clock of the start.
Does ==
  CASE \/ file.window = NoWindow
       \/ age[file.window] >= Dwell + Cooldown /\ file.moved -> "open"
    [] file.window # NoWindow /\ age[file.window] < Dwell -> "beat"
    [] OTHER -> IF file.reported THEN "rest" ELSE "close"

\* The process ends with a line on the screen.
Show(t, line) ==
  /\ tick' = [tick EXCEPT ![t] = Idle]
  /\ screen' = line
  /\ seen' = IF line \in Windows
             THEN [seen EXCEPT ![line] = Least(@ + 1, MinBeats + 1)] ELSE seen

\* A state whose lastActivityValue is the tick's, or still the loaded one.
Renewed(t, s) == [s EXCEPT !.moved = tick[t].work]
Kept(t, s) == [s EXCEPT !.moved = @ \/ tick[t].work]

\* With a token the window protocol, without one the signed line; a window
\* that is over and a usable cached line need no request.
Launch(t) ==
  /\ tick[t].at = "idle" /\ ~launched
  /\ launched' = TRUE
  /\ \/ /\ IF token THEN Does # "rest" ELSE cache >= Ttl
        /\ tick' = [tick EXCEPT ![t] = [Idle EXCEPT
                     !.at = IF token THEN Does ELSE "line", !.snap = file]]
        /\ UNCHANGED localVars
     \/ /\ IF token THEN Does = "rest" ELSE cache < Ttl
        /\ Show(t, IF token THEN "base" ELSE "promo")
        /\ UNCHANGED <<file, cache, age>>
  /\ UNCHANGED <<row, opsVars, token, revoked, faults>>

\* The dwell starts after the round trip; bug: with the tick.
StartAgeBug(t) == tick[t].late
StartAge(t) == 0

\* The answer to an open: the ad is verified and bound to its window, or the
\* state is dropped.  Bug: the window is kept and only the line is not shown.
OpenedBug(t) ==
  LET r == tick[t].reply IN
  /\ tick[t].at = "open" /\ r.got
  /\ file' = IF r.window = NoWindow THEN NoState
             ELSE Renewed(t, [NoState EXCEPT !.window = r.window])
  /\ age' = IF r.window = NoWindow THEN age ELSE [age EXCEPT ![r.window] = StartAge(t)]
  /\ Show(t, IF r.trusted THEN r.window ELSE "base")
  /\ UNCHANGED <<cache, row, opsVars, launched, token, revoked, faults>>
Opened(t) ==
  LET r == tick[t].reply IN
  /\ tick[t].at = "open" /\ r.got
  /\ \/ /\ r.trusted
        /\ file' = Renewed(t, [NoState EXCEPT !.window = r.window])
        /\ age' = [age EXCEPT ![r.window] = StartAge(t)]
        /\ Show(t, r.window)
     \/ /\ ~r.trusted
        /\ file' = NoState
        /\ Show(t, "base")
        /\ UNCHANGED age
  /\ UNCHANGED <<cache, row, opsVars, launched, token, revoked, faults>>

\* The answer to a beat is not looked at: the chain advances even when the
\* beat was refused.
Beaten(t) ==
  LET s == tick[t].snap IN
  /\ tick[t].at = "beat" /\ tick[t].reply.got
  /\ file' = Renewed(t, [s EXCEPT !.chain = Append(@, s.moved)])
  /\ Show(t, s.window)
  /\ UNCHANGED <<cache, age, row, opsVars, launched, token, revoked, faults>>

\* Reported, whatever the answer and even without one.
Closed(t) ==
  /\ tick[t].at = "close"
  /\ tick[t].reply.got \/ faults < MaxFaults
  /\ faults' = IF tick[t].reply.got THEN faults ELSE faults + 1
  /\ file' = Kept(t, [tick[t].snap EXCEPT !.reported = TRUE])
  /\ Show(t, "base")
  /\ UNCHANGED <<cache, age, row, opsVars, launched, token, revoked>>

\* The signed line, or the cached one when it still verifies, past its time
\* to live too, or nothing.
Lined(t) ==
  /\ tick[t].at = "line" /\ tick[t].reply.got
  /\ cache' = IF tick[t].reply.trusted THEN Least(tick[t].late, Ttl) ELSE cache
  /\ Show(t, IF cache' <= Ttl THEN "promo" ELSE "base")
  /\ UNCHANGED <<file, age, row, opsVars, launched, token, revoked, faults>>

\* The request or its answer is lost: nothing is saved and the plain line is
\* shown, the cached one without a token.
Lost(t) ==
  /\ tick[t].at \in {"open", "beat", "line"}
  /\ faults < MaxFaults
  /\ faults' = faults + 1
  /\ Show(t, IF tick[t].at = "line" /\ Cached THEN "promo" ELSE "base")
  /\ UNCHANGED <<file, cache, age, row, opsVars, launched, token, revoked>>

\* Claude Code ends the process: the files are replaced by a rename or not at
\* all, and nothing is printed.
Die(t) ==
  /\ tick[t].at # "idle"
  /\ faults < MaxFaults
  /\ faults' = faults + 1
  /\ tick' = [tick EXCEPT ![t] = Idle]
  /\ UNCHANGED <<localVars, row, opsVars, launched, token, revoked>>

-----------------------------------------------------------------------------
(* The feed.                                                               *)

Reply(t, w, good) ==
  tick' = [tick EXCEPT ![t].reply = [got |-> TRUE, window |-> w, trusted |-> good]]

\* A device the database refuses is served under the sentinel.
Owner == IF revoked THEN "sentinel" ELSE "device"

\* window/open: a row and its signed envelope, a row without a fill, or no row
\* at all (a cap, the limiter, a broken key).
ServeOpen(t) ==
  /\ tick[t].at = "open" /\ ~tick[t].reply.got
  /\ \/ \E w \in Windows :
          /\ row[w].state = "none"
          /\ row' = [row EXCEPT ![w] = [NoRow EXCEPT !.state = "open", !.owner = Owner]]
          /\ \/ /\ Reply(t, w, Trusted(signer, keyid))
                /\ UNCHANGED faults
             \/ /\ faults < MaxFaults
                /\ faults' = faults + 1
                /\ Reply(t, NoWindow, FALSE)
     \/ /\ \A w \in Windows : row[w].state # "none"
        /\ Reply(t, NoWindow, FALSE)
        /\ UNCHANGED <<row, faults>>
  /\ UNCHANGED <<localVars, opsVars, launched, token, revoked>>

\* Of a row that has ended only the state is kept.
Over(state) == [NoRow EXCEPT !.state = state]

\* The window calls raise for a stranger's window, a revoked device and a
\* closed window.
Ours(w) == row[w].state = "open" /\ row[w].owner = "device" /\ ~revoked

\* window/beat is accepted in sequence and on the chain.  The spacing of beats
\* is finer than the clock here: any beat may be refused for it.
Accepts(w, chain) == Ours(w) /\ Front(chain) = row[w].chain

ServeBeat(t) ==
  LET s == tick[t].snap
      sent == Append(s.chain, s.moved)
  IN
  /\ tick[t].at = "beat" /\ ~tick[t].reply.got
  /\ \/ /\ Accepts(s.window, sent)
        /\ row' = [row EXCEPT ![s.window].chain = sent]
     \/ UNCHANGED row
  /\ Reply(t, s.window, FALSE)
  /\ UNCHANGED <<localVars, opsVars, launched, token, revoked, faults>>

\* window/close credits a full dwell with its beats and some progress.
Earned(w) ==
  /\ Len(row[w].chain) >= MinBeats
  /\ \E i \in DOMAIN row[w].chain : row[w].chain[i]
  /\ row[w].age >= Dwell

ServeClose(t) ==
  LET w == tick[t].snap.window IN
  /\ tick[t].at = "close" /\ ~tick[t].reply.got
  /\ row' = IF Ours(w)
            THEN [row EXCEPT ![w] = Over(IF Earned(w) THEN "credited" ELSE "abandoned")]
            ELSE row
  /\ Reply(t, w, FALSE)
  /\ UNCHANGED <<localVars, opsVars, launched, token, revoked, faults>>

\* The static line, signed like an ad.
ServeLine(t) ==
  /\ tick[t].at = "line" /\ ~tick[t].reply.got
  /\ Reply(t, NoWindow, Trusted(signer, keyid))
  /\ UNCHANGED <<localVars, row, opsVars, launched, token, revoked, faults>>

Serve(t) == ServeOpen(t) \/ ServeBeat(t) \/ ServeClose(t) \/ ServeLine(t)

-----------------------------------------------------------------------------
(* The world around.                                                       *)

\* A rotation: the private key, then the key id the feed advertises.
RotateKey ==
  /\ signer = Legacy
  /\ signer' \in Keys \ {Legacy}
  /\ UNCHANGED <<localVars, row, keyid, tick, launched, token, revoked, faults>>
RotateId ==
  /\ keyid # signer /\ signer # Legacy
  /\ keyid' = signer
  /\ UNCHANGED <<localVars, row, signer, tick, launched, token, revoked, faults>>

\* A log-in or a log-out, a refresh that fails or succeeds.
Account ==
  /\ faults < MaxFaults
  /\ faults' = faults + 1
  /\ token' = ~token
  /\ UNCHANGED <<localVars, row, opsVars, tick, launched, revoked>>

Revoke ==
  /\ ~revoked /\ faults < MaxFaults
  /\ revoked' = TRUE
  /\ faults' = faults + 1
  /\ UNCHANGED <<localVars, row, opsVars, tick, launched, token>>

\* Claude works: the cost or the tokens of the session change.
Work ==
  /\ file' = [file EXCEPT !.moved = file.window # NoWindow]
  /\ tick' = [t \in Ticks |-> [tick[t] EXCEPT !.work = tick[t].at # "idle"]]
  /\ UNCHANGED <<cache, age, screen, seen, row, opsVars, launched, token,
                 revoked, faults>>

\* sweep_stale_windows, and the purge of rows nobody refers to any more.
Sweep(w) ==
  /\ row[w].state = "open" /\ row[w].age >= Stale
  /\ row' = [row EXCEPT ![w] = Over("abandoned")]
  /\ UNCHANGED <<localVars, opsVars, tick, launched, token, revoked, faults>>
Purge(w) ==
  /\ row[w].state \in {"credited", "abandoned"}
  /\ file.window # w /\ screen # w
  /\ \A t \in Ticks : w \notin {tick[t].snap.window, tick[t].reply.window}
  /\ row' = [row EXCEPT ![w] = NoRow]
  /\ age' = [age EXCEPT ![w] = 0]
  /\ seen' = [seen EXCEPT ![w] = 0]
  /\ UNCHANGED <<file, cache, screen, opsVars, tick, launched, token, revoked, faults>>

\* No request outlives its timeout.
Clock ==
  /\ \A t \in Ticks : tick[t].at # "idle" => tick[t].late < Timeout
  /\ tick' = [t \in Ticks |-> IF tick[t].at = "idle" THEN Idle
                              ELSE [tick[t] EXCEPT !.late = @ + 1]]
  /\ launched' = FALSE
  /\ cache' = IF Cached THEN Least(cache + 1, Ttl) ELSE cache
  /\ age' = [w \in Windows |-> IF row[w].state = "none" THEN 0
                               ELSE Least(age[w] + 1, Dwell + Cooldown)]
  /\ row' = [w \in Windows |-> IF row[w].state # "open" THEN row[w]
                               ELSE [row[w] EXCEPT !.age = Least(@ + 1, Stale)]]
  /\ UNCHANGED <<file, screen, seen, opsVars, token, revoked, faults>>

Answered(t) == Opened(t) \/ Beaten(t) \/ Closed(t) \/ Lined(t)
TickStep == \E t \in Ticks : Launch(t) \/ Answered(t) \/ Lost(t) \/ Die(t)
Next == \/ TickStep \/ \E t \in Ticks : Serve(t)
        \/ RotateKey \/ RotateId \/ Account \/ Revoke \/ Work \/ Clock
        \/ \E w \in Windows : Sweep(w) \/ Purge(w)

Spec == Init /\ [][Next]_vars

\* Claude Code starts ticks and the machine runs them, the feed answers what
\* is not lost, a rotation is finished, Claude works now and then, and the
\* server sweeps and purges.
Fairness ==
  /\ WF_vars(Clock) /\ WF_vars(RotateId) /\ WF_vars(Work)
  /\ WF_vars(\E t \in Ticks : Launch(t))
  /\ \A t \in Ticks : WF_vars(Serve(t)) /\ WF_vars(Answered(t))
  /\ \A w \in Windows : WF_vars(Sweep(w)) /\ WF_vars(Purge(w))

LiveSpec == Spec /\ Fairness

-----------------------------------------------------------------------------
(* Properties.                                                             *)

TypeOK ==
  /\ file \in State
  /\ tick \in [Ticks -> [at : {"idle", "open", "beat", "close", "line"}, snap : State,
                         work : BOOLEAN, late : Nat,
                         reply : [got : BOOLEAN, window : Windows \cup {NoWindow},
                                  trusted : BOOLEAN]]]
  /\ row \in [Windows -> [state : {"none", "open", "credited", "abandoned"},
                          owner : {"none", "device", "sentinel"},
                          chain : Seq(BOOLEAN), age : Nat]]
  /\ screen \in Windows \cup {"promo", "base"}

\* An advertiser pays for a line that was on the screen: a credited window was
\* written at its opening and again at each beat the server counted, but for
\* the ticks that were lost or are still waiting for their answer.
Waiting(w) == {t \in Ticks : tick[t].at = "beat" /\ tick[t].reply.got
                             /\ tick[t].snap.window = w}
CreditedWasSeen ==
  \A w \in Windows : row[w].state = "credited" =>
    seen[w] + faults + Cardinality(Waiting(w)) >= MinBeats + 1

\* A client that has shown a whole dwell is never told that it was too short:
\* its clock starts after the server's, however long the open took.
NeverTooShort ==
  \A t \in Ticks :
    LET w == tick[t].snap.window IN
    tick[t].at = "close" /\ row[w].state = "open" => row[w].age >= Dwell

\* No sequence of losses, overlapping ticks, revocations and a rotation of the
\* signing key leaves an installed client dark: a sponsored line comes back.
ShowsAgain == []<>(screen # "base")

=============================================================================
