---------------------------- MODULE DeviceLogin ----------------------------
(***************************************************************************)
(* The credential of one install: the RFC 8628 login (device_code_start,   *)
(* device_code_approve, device_code_redeem), the refresh token that every  *)
(* use rotates (device_refresh with its grace arm), the logout, and the    *)
(* status-line processes of getValidAccessToken that share one token file  *)
(* and one lock file.  An RPC is one step, a system call on a file is one  *)
(* step; requests travel, answers are lost, processes die.                 *)
(*                                                                         *)
(* A device is created by the redemption of its grant and bears its name.  *)
(* Its refresh tokens are numbered in the order they are minted; 0 is      *)
(* none.                                                                   *)
(***************************************************************************)
EXTENDS Integers, FiniteSets

CONSTANTS
  Grants,     \* device_auth_codes rows, and the devices rows they become
  Ticks,      \* status-line processes alive at once
  Timeout,    \* FETCH_TIMEOUT_MS, 3 s
  Stale,      \* LOCK_STALE_MS, 15 s
  Grace,      \* c_grace, 30 s
  MaxTokens,  \* bound: refresh tokens minted for one device
  MaxFaults,  \* bound: deaths, lost messages and failed mints
  NoGrant     \* model value

ASSUME DeviceLoginAssumption ==
  /\ Timeout \in Nat \ {0} /\ Stale \in Nat /\ Grace \in Nat
  /\ Timeout < Stale /\ 2 * Stale <= Grace /\ Stale + Timeout + 1 < Grace
  /\ MaxTokens \in Nat \ {0} /\ MaxFaults \in Nat
  /\ NoGrant \notin Grants

VARIABLES
  grant,      \* device_auth_codes.status, "none" before the insert
  revoked,    \* devices.revoked_at is set
  minted,     \* number of the newest refresh token of the device
  cur,        \* the token of refresh_token_hash
  prev,       \* the token of prev_refresh_token_hash
  prevAge,    \* now() - prev_rotated_at, not told apart beyond Grace
  file,       \* the token file
  lock,       \* age of the lock file, -1 without one
  at,         \* per process: where it is
  snap,       \* per process: the token it has loaded
  busy,       \* per process: time since it took the lock
  request,    \* per process: the refresh token in flight
  answer,     \* per process: what the server has answered
  login,      \* the login: waiting for a grant, or holding a poll's answer
  logout,     \* the logout: the device it has loaded
  faults,
  raced,      \* ghost: two processes held the lock, a late request came
              \* after its retry, or a logout cleared the file under a refresh
  away        \* ghost: time went by while a process could have refreshed

serverVars == <<grant, revoked, minted, cur, prev, prevAge>>
procVars   == <<at, snap, busy>>
netVars    == <<request, answer>>
userVars   == <<login, logout>>
ghosts     == <<raced, away>>
vars == <<serverVars, file, lock, procVars, netVars, userVars, faults, ghosts>>

NoToken == [device |-> NoGrant, refresh |-> 0, fresh |-> FALSE]
Refresh(d, n) == [device |-> d, refresh |-> n]
NoRefresh == Refresh(NoGrant, 0)
Silent == [status |-> "none", refresh |-> 0]
NoLogin == [grant |-> NoGrant, got |-> 0]

Init ==
  /\ grant = [d \in Grants |-> "none"]
  /\ revoked = [d \in Grants |-> FALSE]
  /\ minted = [d \in Grants |-> 0]
  /\ cur = [d \in Grants |-> 0]
  /\ prev = [d \in Grants |-> 0]
  /\ prevAge = [d \in Grants |-> Grace]
  /\ file = NoToken
  /\ lock = -1
  /\ at = [p \in Ticks |-> "idle"]
  /\ snap = [p \in Ticks |-> NoToken]
  /\ busy = [p \in Ticks |-> 0]
  /\ request = [p \in Ticks |-> NoRefresh]
  /\ answer = [p \in Ticks |-> Silent]
  /\ login = NoLogin
  /\ logout = NoGrant
  /\ faults = 0
  /\ raced = FALSE /\ away = FALSE

-----------------------------------------------------------------------------
(* The login.                                                              *)

\* POST /device/code.  The request may be refused, or its answer lost with
\* the row inserted: the login throws before it polls.
StartLogin(d) ==
  /\ login = NoLogin /\ grant[d] = "none"
  /\ grant' = [grant EXCEPT ![d] = "pending"]
  /\ login' \in {NoLogin, [grant |-> d, got |-> 0]}
  /\ UNCHANGED <<revoked, minted, cur, prev, prevAge, file, lock, procVars,
                 netVars, logout, faults, ghosts>>

\* The signed-in developer on /activate: ensure_publisher, then the approval.
Approve(d) ==
  /\ grant[d] = "pending"
  /\ grant' = [grant EXCEPT ![d] = "approved"]
  /\ UNCHANGED <<revoked, minted, cur, prev, prevAge, file, lock, procVars,
                 netVars, userVars, faults, ghosts>>

\* expires_at passes; the row is marked at the next look at it.
Lapse(d) ==
  /\ grant[d] \in {"pending", "approved"}
  /\ grant' = [grant EXCEPT ![d] = "expired"]
  /\ UNCHANGED <<revoked, minted, cur, prev, prevAge, file, lock, procVars,
                 netVars, userVars, faults, ghosts>>

\* device_code_redeem of an approved grant creates the device with its first
\* refresh token.
Redeem(d) ==
  /\ login = [grant |-> d, got |-> 0]
  /\ grant[d] = "approved" /\ minted[d] < MaxTokens
  /\ grant' = [grant EXCEPT ![d] = "consumed"]
  /\ minted' = [minted EXCEPT ![d] = @ + 1]
  /\ cur' = [cur EXCEPT ![d] = minted[d] + 1]
  /\ \/ login' = [login EXCEPT !.got = minted[d] + 1] /\ UNCHANGED faults
     \/ faults < MaxFaults /\ faults' = faults + 1 /\ UNCHANGED login
  /\ UNCHANGED <<revoked, prev, prevAge, file, lock, procVars, netVars, logout,
                 ghosts>>

\* The poll's answer reaches the login, which saves the token whoever else
\* works on the file.
LoggedIn ==
  /\ login.got # 0
  /\ file' = [device |-> login.grant, refresh |-> login.got, fresh |-> TRUE]
  /\ login' = NoLogin
  /\ UNCHANGED <<serverVars, lock, procVars, netVars, logout, faults, ghosts>>

\* A poll answered with an error other than authorization_pending and
\* slow_down: the code has expired, is consumed by a poll whose answer was
\* lost, or its publisher is about to be deleted, which leaves the grant.
LoginFails ==
  /\ login # NoLogin /\ login.got = 0
  /\ grant[login.grant] \in {"expired", "consumed", "approved"}
  /\ login' = NoLogin
  /\ UNCHANGED <<serverVars, file, lock, procVars, netVars, logout, faults, ghosts>>

-----------------------------------------------------------------------------
(* getValidAccessToken, one process of the status line.                    *)

\* The access token of the file comes within the refresh skew of its expiry;
\* the bound leaves tokens for the refreshes that follow.
Due ==
  /\ file.fresh
  /\ minted[file.device] + MaxFaults + Cardinality(Ticks) < MaxTokens
  /\ file' = [file EXCEPT !.fresh = FALSE]
  /\ UNCHANGED <<serverVars, lock, procVars, netVars, userVars, faults, ghosts>>

NeedsRefresh(t) == t.refresh # 0 /\ ~t.fresh

\* A process slot is used again when its last request has arrived or is lost.
Load(p) ==
  /\ at[p] = "idle" /\ request[p] = NoRefresh /\ NeedsRefresh(file)
  /\ snap' = [snap EXCEPT ![p] = file]
  /\ at' = [at EXCEPT ![p] = "loaded"]
  /\ UNCHANGED <<serverVars, file, lock, busy, netVars, userVars, faults, ghosts>>

Inside == {"locked", "waiting", "done"}
Holders == {p \in Ticks : at[p] \in Inside}

Go(p, where) == at' = [at EXCEPT ![p] = where]

TakeLock(p) ==
  /\ lock = -1
  /\ lock' = 0
  /\ Go(p, "locked")
  /\ busy' = [busy EXCEPT ![p] = 0]
  /\ raced' = (raced \/ Holders # {})

\* openSync(lockFile, 'wx'), and the age of the lock when there is one.  Bug:
\* a lock is never reclaimed.
LockBug(p) ==
  /\ at[p] = "loaded"
  /\ \/ TakeLock(p)
     \/ lock # -1 /\ Go(p, "idle") /\ UNCHANGED <<lock, busy, raced>>
  /\ UNCHANGED <<serverVars, file, snap, netVars, userVars, faults, away>>
Lock(p) ==
  /\ at[p] = "loaded"
  /\ \/ TakeLock(p)
     \/ /\ lock # -1
        /\ Go(p, IF lock > Stale THEN "reclaim" ELSE "idle")
        /\ UNCHANGED <<lock, busy, raced>>
  /\ UNCHANGED <<serverVars, file, snap, netVars, userVars, faults, away>>

\* unlinkSync of the stale lock, whatever lock is there by now.
Reclaim(p) ==
  /\ at[p] = "reclaim"
  /\ lock' = -1
  /\ Go(p, "relock")
  /\ UNCHANGED <<serverVars, file, snap, busy, netVars, userVars, faults, ghosts>>

Relock(p) ==
  /\ at[p] = "relock"
  /\ \/ TakeLock(p)
     \/ lock # -1 /\ Go(p, "idle") /\ UNCHANGED <<lock, busy, raced>>
  /\ UNCHANGED <<serverVars, file, snap, netVars, userVars, faults, away>>

\* The file is read again under the lock, and the first reading stands in for
\* a file that is gone.
Reading(p) == IF file = NoToken THEN snap[p] ELSE file
Post(p) ==
  /\ at[p] = "locked"
  /\ LET t == Reading(p) IN
     /\ snap' = [snap EXCEPT ![p] = t]
     /\ IF NeedsRefresh(t)
        THEN /\ Go(p, "waiting")
             /\ request' = [request EXCEPT ![p] = Refresh(t.device, t.refresh)]
             /\ answer' = [answer EXCEPT ![p] = Silent]
        ELSE Go(p, "done") /\ UNCHANGED netVars
  /\ UNCHANGED <<serverVars, file, lock, busy, userVars, faults, ghosts>>

\* The answer is in: a new token is saved, a refused one is dropped from what
\* was read, anything else leaves the file alone.
Answered(p) ==
  /\ at[p] = "waiting" /\ answer[p].status # "none"
  /\ file' = CASE answer[p].status = "ok" ->
                    [snap[p] EXCEPT !.refresh = answer[p].refresh, !.fresh = TRUE]
               [] answer[p].status = "invalid_grant" -> [snap[p] EXCEPT !.refresh = 0]
               [] OTHER -> file
  /\ Go(p, "done")
  /\ UNCHANGED <<serverVars, lock, snap, busy, netVars, userVars, faults, ghosts>>

\* The fetch is aborted.  Its request or its answer was lost, or is still on
\* the way, which is a fault of its own.
Abort(p) ==
  /\ at[p] = "waiting" /\ answer[p].status = "none" /\ busy[p] >= Timeout
  /\ \/ request[p] = NoRefresh /\ UNCHANGED faults
     \/ request[p] # NoRefresh /\ faults < MaxFaults /\ faults' = faults + 1
  /\ Go(p, "done")
  /\ UNCHANGED <<serverVars, file, lock, snap, busy, netVars, userVars, ghosts>>

\* releaseRefreshLock, whoever's lock it is.
Unlock(p) ==
  /\ at[p] = "done"
  /\ lock' = -1
  /\ Go(p, "idle")
  /\ snap' = [snap EXCEPT ![p] = NoToken]
  /\ busy' = [busy EXCEPT ![p] = 0]
  /\ UNCHANGED <<serverVars, file, netVars, userVars, faults, ghosts>>

\* The terminal closes, or the process is killed.
Die(p) ==
  /\ at[p] # "idle" /\ faults < MaxFaults
  /\ faults' = faults + 1
  /\ Go(p, "idle")
  /\ snap' = [snap EXCEPT ![p] = NoToken]
  /\ busy' = [busy EXCEPT ![p] = 0]
  /\ UNCHANGED <<serverVars, file, lock, netVars, userVars, ghosts>>

-----------------------------------------------------------------------------
(* POST /device/refresh and device_refresh.                                *)

Replies(p, status, n) ==
  answer' = [answer EXCEPT ![p] = IF at[p] = "waiting"
                                  THEN [status |-> status, refresh |-> n] ELSE Silent]

\* Arm 1: the token presented is the current one.
Rotate(d) ==
  /\ prev' = [prev EXCEPT ![d] = cur[d]]
  /\ prevAge' = [prevAge EXCEPT ![d] = 0]

\* Arm 2: it is the previous one, superseded less than Grace ago; the timer
\* is not set again.  Bugs: it is; the grace is shorter than the client takes.
RecoverBug(d) ==
  /\ prevAge' = [prevAge EXCEPT ![d] = 0]
  /\ UNCHANGED prev
Recover(d) == UNCHANGED <<prev, prevAge>>

Mint(d) ==
  /\ minted[d] < MaxTokens
  /\ minted' = [minted EXCEPT ![d] = @ + 1]
  /\ cur' = [cur EXCEPT ![d] = minted[d] + 1]

IsCurrent(d, n) == ~revoked[d] /\ cur[d] = n
IsPreviousBug(d, n) == ~revoked[d] /\ prev[d] = n /\ prevAge[d] = 0
IsPrevious(d, n) == ~revoked[d] /\ prev[d] = n /\ prevAge[d] < Grace

Accepted(d, n) == IsCurrent(d, n) \/ IsPrevious(d, n)

\* The rotation commits; the mint of the access token may fail after it, or
\* the answer be lost.
Serve(p) ==
  /\ request[p] # NoRefresh
  /\ request' = [request EXCEPT ![p] = NoRefresh]
  /\ LET d == request[p].device
         n == request[p].refresh
     IN
     /\ raced' = (raced \/ (at[p] # "waiting" /\ ~IsCurrent(d, n)))
     /\ \/ IsCurrent(d, n) /\ Rotate(d) /\ Mint(d)
        \/ ~IsCurrent(d, n) /\ IsPrevious(d, n) /\ Recover(d) /\ Mint(d)
        \/ ~Accepted(d, n) /\ UNCHANGED <<minted, cur, prev, prevAge>>
     /\ \/ /\ UNCHANGED faults
           /\ IF Accepted(d, n) THEN Replies(p, "ok", minted[d] + 1)
                                ELSE Replies(p, "invalid_grant", 0)
        \/ /\ faults < MaxFaults /\ faults' = faults + 1
           /\ Replies(p, "server_error", 0)
  /\ UNCHANGED <<grant, revoked, file, lock, procVars, userVars, away>>

\* The request is lost or refused by the rate limit, or the answer is lost.
Lose(p) ==
  /\ faults < MaxFaults
  /\ faults' = faults + 1
  /\ \/ request[p] # NoRefresh /\ request' = [request EXCEPT ![p] = NoRefresh]
        /\ UNCHANGED answer
     \/ answer[p] # Silent /\ at[p] = "waiting"
        /\ answer' = [answer EXCEPT ![p] = Silent] /\ UNCHANGED request
  /\ UNCHANGED <<serverVars, file, lock, procVars, userVars, ghosts>>

-----------------------------------------------------------------------------
(* The logout.                                                             *)

StartLogout ==
  /\ logout = NoGrant /\ file # NoToken
  /\ logout' = file.device
  /\ UNCHANGED <<serverVars, file, lock, procVars, netVars, login, faults, ghosts>>

\* device_revoke, while the access token is good.
Revoke ==
  /\ logout # NoGrant /\ ~revoked[logout]
  /\ revoked' = [revoked EXCEPT ![logout] = TRUE]
  /\ cur' = [cur EXCEPT ![logout] = 0]
  /\ prev' = [prev EXCEPT ![logout] = 0]
  /\ UNCHANGED <<grant, minted, prevAge, file, lock, procVars, netVars,
                 userVars, faults, ghosts>>

\* clearToken, whether the revocation has worked or not.
Clear ==
  /\ logout # NoGrant
  /\ file' = NoToken
  /\ logout' = NoGrant
  /\ raced' = (raced \/ \E p \in Ticks : at[p] # "idle")
  /\ UNCHANGED <<serverVars, lock, procVars, netVars, login, faults, away>>

-----------------------------------------------------------------------------
(* The clock.  A process lives no longer under its lock than its fetch     *)
(* takes.                                                                  *)

Older(x, limit) == IF x < limit THEN x + 1 ELSE x

\* A process could go on, or start and find the lock free or stale.
CouldRefresh ==
  \/ \E p \in Ticks : at[p] \notin {"idle", "waiting"}
  \/ NeedsRefresh(file) /\ (lock = -1 \/ lock > Stale)

Clock ==
  /\ \A p \in Holders : busy[p] < Timeout
  /\ lock' = IF lock = -1 THEN -1 ELSE Older(lock, Stale + 1)
  /\ busy' = [p \in Ticks |-> IF p \in Holders THEN busy[p] + 1 ELSE 0]
  /\ prevAge' = [d \in Grants |-> Older(prevAge[d], Grace)]
  /\ away' = (away \/ CouldRefresh)
  /\ UNCHANGED <<grant, revoked, minted, cur, prev, file, at, snap, netVars,
                 userVars, faults, raced>>

Next ==
  \/ \E d \in Grants : StartLogin(d) \/ Approve(d) \/ Lapse(d) \/ Redeem(d)
  \/ LoggedIn \/ LoginFails \/ Due
  \/ \E p \in Ticks :
       \/ Load(p) \/ Lock(p) \/ Reclaim(p) \/ Relock(p) \/ Post(p)
       \/ Answered(p) \/ Abort(p) \/ Unlock(p) \/ Die(p)
       \/ Serve(p) \/ Lose(p)
  \/ StartLogout \/ Revoke \/ Clear
  \/ Clock

Spec == Init /\ [][Next]_vars

\* The status line runs every second and its system calls return; the
\* server answers within the timeout except for the faults.
Fairness ==
  /\ WF_vars(Clock)
  /\ \A p \in Ticks :
       /\ WF_vars(Load(p)) /\ WF_vars(Lock(p)) /\ WF_vars(Reclaim(p))
       /\ WF_vars(Relock(p)) /\ WF_vars(Post(p)) /\ WF_vars(Answered(p))
       /\ WF_vars(Abort(p)) /\ WF_vars(Unlock(p)) /\ WF_vars(Serve(p))

LiveSpec == Spec /\ Fairness

-----------------------------------------------------------------------------
(* Properties.                                                             *)

\* The fields of the token file, the lock and the counters have their types.
Numbers == 0 .. MaxTokens
Token == [device : Grants \cup {NoGrant}, refresh : Numbers, fresh : BOOLEAN]
TypeOK ==
  /\ grant \in [Grants -> {"none", "pending", "approved", "consumed", "expired"}]
  /\ revoked \in [Grants -> BOOLEAN]
  /\ minted \in [Grants -> Numbers] /\ cur \in [Grants -> Numbers]
  /\ prev \in [Grants -> Numbers] /\ prevAge \in [Grants -> 0 .. Grace]
  /\ file \in Token /\ lock \in -1 .. Stale + 1
  /\ at \in [Ticks -> {"idle", "loaded", "reclaim", "relock"} \cup Inside]
  /\ snap \in [Ticks -> Token] /\ busy \in [Ticks -> 0 .. Timeout]
  /\ request \in [Ticks -> [device : Grants \cup {NoGrant}, refresh : Numbers]]
  /\ answer \in [Ticks -> [status : {"none", "ok", "invalid_grant", "server_error"},
                           refresh : Numbers]]
  /\ login \in [grant : Grants \cup {NoGrant}, got : Numbers]
  /\ logout \in Grants \cup {NoGrant}
  /\ faults \in 0 .. MaxFaults
  /\ raced \in BOOLEAN /\ away \in BOOLEAN

\* While no two processes hold the lock at once, no request arrives after its
\* retry and no logout crosses a refresh, neither a lost answer or a late one
\* nor a failed mint nor a process that dies logs the install out: the file
\* holds a token the server still takes, or dropped it after the install was
\* away longer than a lock lasts, or a second fault.  (getValidAccessToken and
\* the margin of c_grace over LOCK_STALE_MS.)
CredentialKept ==
  file # NoToken /\ ~raced /\ ~revoked[file.device] =>
    IF file.refresh = 0 THEN away \/ faults > 1
                        ELSE file.refresh \in {cur[file.device], prev[file.device]}

\* The grace of a superseded token is never extended: its timer starts when it
\* stops being the current one and not again (device_refresh, arm 2).
GraceNotExtended ==
  [][\A d \in Grants : prevAge'[d] < prevAge[d] => prev'[d] = cur[d]]_vars

\* A token that needs a refresh is refreshed or dropped at last, whoever died
\* with the lock and whatever the server answers: the status line neither
\* waits for good nor posts a dead token for good.
RefreshEnds == NeedsRefresh(file) ~> ~NeedsRefresh(file)

============================================================================
