------------------------- MODULE DeviceLoginProofs -------------------------
(***************************************************************************)
(* The types of the login, the grace of a superseded refresh token, and    *)
(* the credential of an install that no lost answer and no dead process    *)
(* takes away, for any number of grants, processes and faults.             *)
(***************************************************************************)
EXTENDS DeviceLogin, TLAPS

Stages == {"idle", "loaded", "reclaim", "relock"} \cup Inside
Device == Grants \cup {NoGrant}
Request == [device : Device, refresh : Numbers]
Answer == [status : {"none", "ok", "invalid_grant", "server_error"}, refresh : Numbers]
Login == [grant : Device, got : Numbers]

ServerTyped ==
  /\ grant \in [Grants -> {"none", "pending", "approved", "consumed", "expired"}]
  /\ revoked \in [Grants -> BOOLEAN]
  /\ minted \in [Grants -> Numbers] /\ cur \in [Grants -> Numbers]
  /\ prev \in [Grants -> Numbers] /\ prevAge \in [Grants -> 0 .. Grace]
ClientTyped ==
  /\ file \in Token /\ lock \in -1 .. Stale + 1
  /\ at \in [Ticks -> Stages]
  /\ snap \in [Ticks -> Token] /\ busy \in [Ticks -> 0 .. Timeout]
NetTyped ==
  /\ request \in [Ticks -> Request]
  /\ answer \in [Ticks -> Answer]
UserTyped ==
  /\ login \in Login
  /\ logout \in Device
  /\ faults \in 0 .. MaxFaults
  /\ raced \in BOOLEAN /\ away \in BOOLEAN
Typed == ServerTyped /\ ClientTyped /\ NetTyped /\ UserTyped

\* A token is the token of a device, wherever it is.
Owned(t) == t.refresh # 0 => t.device \in Grants
LoginOwned == login.got # 0 => login.grant \in Grants
SnapsOwned ==
  \A p \in Ticks : Owned(snap[p]) /\ (at[p] = "waiting" => snap[p].refresh # 0)
RequestsOwned == \A p \in Ticks : request[p] # NoRefresh => request[p].device \in Grants
TokensOwned == Owned(file) /\ LoginOwned /\ SnapsOwned /\ RequestsOwned

IInv == Typed /\ TokensOwned

LEMMA Constants ==
  ASSUME DeviceLoginAssumption
  PROVE  /\ Timeout \in Nat /\ Stale \in Nat /\ Grace \in Nat
         /\ MaxTokens \in Nat /\ MaxTokens > 0 /\ MaxFaults \in Nat
         /\ 0 \in Numbers /\ NoGrant \notin Grants
  BY DEF DeviceLoginAssumption, Numbers

LEMMA Records ==
  ASSUME DeviceLoginAssumption
  PROVE  /\ NoToken \in Token /\ NoRefresh \in Request /\ Silent \in Answer
         /\ NoLogin \in Login /\ NoLogin.got = 0
  BY Constants DEF NoToken, Token, NoRefresh, Refresh, Request, Silent, Answer, NoLogin,
                   Login, Device

LEMMA InitInv ==
  ASSUME DeviceLoginAssumption, Init
  PROVE  IInv
<1> USE Constants, Records DEF Init
<1>1. ServerTyped
  BY DEF ServerTyped
<1>2. ClientTyped
  BY DEF ClientTyped, Stages
<1>3. NetTyped
  BY DEF NetTyped
<1>4. UserTyped
  <2>1. faults \in 0 .. MaxFaults
    OBVIOUS
  <2>2. logout \in Device /\ login \in Login
    BY DEF Device
  <2>3. raced \in BOOLEAN /\ away \in BOOLEAN
    OBVIOUS
  <2> QED BY <2>1, <2>2, <2>3 DEF UserTyped
<1>5. TokensOwned
  BY DEF TokensOwned, Owned, LoginOwned, SnapsOwned, RequestsOwned, NoToken
<1> QED BY <1>1, <1>2, <1>3, <1>4, <1>5 DEF IInv, Typed

-----------------------------------------------------------------------------
(* The login and the logout leave the processes and the requests alone.    *)

LEMMA OthersStay ==
  ASSUME IInv, UNCHANGED <<procVars, netVars>>
  PROVE  /\ NetTyped' /\ SnapsOwned' /\ RequestsOwned'
         /\ (at \in [Ticks -> Stages])' /\ (snap \in [Ticks -> Token])'
         /\ (busy \in [Ticks -> 0 .. Timeout])'
  BY DEF IInv, Typed, procVars, netVars, ClientTyped, NetTyped, TokensOwned, SnapsOwned,
         Owned, RequestsOwned, NoRefresh, Refresh

LEMMA LoginInv ==
  ASSUME DeviceLoginAssumption, IInv, NEW d \in Grants,
         StartLogin(d) \/ Approve(d) \/ Lapse(d) \/ Redeem(d)
  PROVE  IInv'
<1>1. NetTyped' /\ SnapsOwned' /\ RequestsOwned'
  BY OthersStay DEF StartLogin, Approve, Lapse, Redeem
<1>2. ClientTyped' /\ Owned(file)'
  BY DEF StartLogin, Approve, Lapse, Redeem, procVars, IInv, Typed, ClientTyped,
         TokensOwned, Owned
<1>3. ServerTyped' /\ UserTyped' /\ LoginOwned'
  <2>0. ServerTyped /\ UserTyped /\ LoginOwned
    BY DEF IInv, Typed, TokensOwned
  <2>1. CASE StartLogin(d)
    <3>1. [grant |-> d, got |-> 0] \in Login
      BY Constants DEF Login, Device
    <3> QED BY <2>0, <2>1, <3>1, Records DEF StartLogin, ServerTyped, UserTyped, LoginOwned,
                                             ghosts
  <2>2. CASE Approve(d) \/ Lapse(d)
    BY <2>0, <2>2 DEF Approve, Lapse, ServerTyped, UserTyped, LoginOwned, userVars, ghosts
  <2>3. CASE Redeem(d)
    <3>1. minted[d] + 1 \in Numbers
      BY <2>0, <2>3, Constants DEF Redeem, ServerTyped, Numbers
    <3>2. ServerTyped'
      BY <2>0, <2>3, <3>1 DEF Redeem, ServerTyped
    <3>3. login' \in Login /\ LoginOwned' /\ faults' \in 0 .. MaxFaults
      BY <2>0, <2>3, <3>1, Constants DEF Redeem, UserTyped, LoginOwned, Login
    <3> QED BY <2>0, <2>3, <3>2, <3>3 DEF Redeem, UserTyped, ghosts
  <2> QED BY <2>1, <2>2, <2>3
<1> QED BY <1>1, <1>2, <1>3 DEF IInv, Typed, TokensOwned

LEMMA UserInv ==
  ASSUME DeviceLoginAssumption, IInv,
         LoggedIn \/ LoginFails \/ Due \/ StartLogout \/ Revoke \/ Clear
  PROVE  IInv'
<1> USE Constants, Records
<1>1. /\ NetTyped' /\ SnapsOwned' /\ RequestsOwned'
      /\ (at \in [Ticks -> Stages])' /\ (snap \in [Ticks -> Token])'
      /\ (busy \in [Ticks -> 0 .. Timeout])'
  BY OthersStay DEF LoggedIn, LoginFails, Due, StartLogout, Revoke, Clear
<1>2. /\ ServerTyped /\ UserTyped /\ LoginOwned /\ Owned(file)
      /\ file \in Token /\ lock \in -1 .. Stale + 1
  BY DEF IInv, Typed, ClientTyped, TokensOwned
<1>3. lock' = lock
  BY DEF LoggedIn, LoginFails, Due, StartLogout, Revoke, Clear
<1>4. ServerTyped'
  <2>1. CASE UNCHANGED serverVars
    BY <1>2, <2>1 DEF serverVars, ServerTyped
  <2>2. CASE Revoke
    BY <1>2, <2>2 DEF Revoke, ServerTyped
  <2> QED BY <2>1, <2>2 DEF LoggedIn, LoginFails, Due, StartLogout, Clear
<1>5. file' \in Token /\ Owned(file)'
  <2>1. CASE LoggedIn
    <3>1. login.grant \in Device /\ login.got \in Numbers
      BY <1>2 DEF UserTyped, Login
    <3> QED BY <1>2, <2>1, <3>1 DEF LoggedIn, Token, Device, Owned, LoginOwned
  <2>2. CASE Due
    BY <1>2, <2>2 DEF Due, Token, Owned
  <2>3. CASE Clear
    BY <2>3 DEF Clear, Owned, NoToken
  <2>4. CASE LoginFails \/ StartLogout \/ Revoke
    BY <1>2, <2>4 DEF LoginFails, StartLogout, Revoke, Owned
  <2> QED BY <2>1, <2>2, <2>3, <2>4
<1>6. UserTyped' /\ LoginOwned'
  <2>1. file.device \in Device
    BY <1>2 DEF Token, Device
  <2>2. NoGrant \in Device
    BY DEF Device
  <2> QED BY <1>2, <2>1, <2>2 DEF LoggedIn, LoginFails, Due, StartLogout, Revoke, Clear,
                                  userVars, ghosts, UserTyped, LoginOwned
<1> QED BY <1>1, <1>2, <1>3, <1>4, <1>5, <1>6 DEF IInv, Typed, ClientTyped, TokensOwned

-----------------------------------------------------------------------------
(* The steps of a process.                                                 *)

\* What a step of a process leaves alone.
LEMMA ProcessMoves ==
  ASSUME IInv, NEW p \in Ticks, NEW stage \in Stages, Go(p, stage),
         UNCHANGED <<serverVars, userVars>>,
         NEW s \in Token, snap' = [snap EXCEPT ![p] = s], Owned(s),
         stage = "waiting" => s.refresh # 0,
         file' \in Token, Owned(file)', lock' \in -1 .. Stale + 1,
         busy' \in [Ticks -> 0 .. Timeout], NetTyped', RequestsOwned',
         faults' \in 0 .. MaxFaults, raced' \in BOOLEAN, away' \in BOOLEAN
  PROVE  IInv'
<1>1. at' \in [Ticks -> Stages] /\ snap' \in [Ticks -> Token]
  BY DEF Go, IInv, Typed, ClientTyped
<1>2. SnapsOwned'
  BY DEF Go, IInv, Typed, ClientTyped, TokensOwned, SnapsOwned, Owned
<1>3. ServerTyped'
  BY DEF IInv, Typed, serverVars, ServerTyped
<1>4. UserTyped' /\ LoginOwned'
  BY DEF IInv, Typed, TokensOwned, userVars, UserTyped, LoginOwned
<1> QED BY <1>1, <1>2, <1>3, <1>4 DEF IInv, Typed, ClientTyped, TokensOwned

\* What a process knows when it moves.
LEMMA ProcessTyped ==
  ASSUME DeviceLoginAssumption, IInv, NEW p \in Ticks
  PROVE  /\ snap[p] \in Token /\ Owned(snap[p]) /\ at[p] \in Stages
         /\ at[p] = "waiting" => snap[p].refresh # 0
         /\ snap = [snap EXCEPT ![p] = snap[p]]
         /\ file \in Token /\ Owned(file) /\ lock \in -1 .. Stale + 1
         /\ busy \in [Ticks -> 0 .. Timeout]
         /\ NetTyped /\ RequestsOwned /\ answer[p].refresh \in Numbers
         /\ faults \in 0 .. MaxFaults /\ raced \in BOOLEAN /\ away \in BOOLEAN
<1>1. answer[p] \in Answer
  BY DEF IInv, Typed, NetTyped
<1> QED BY <1>1 DEF Answer, IInv, Typed, ClientTyped, NetTyped, UserTyped, TokensOwned, SnapsOwned

LEMMA LockInv ==
  ASSUME DeviceLoginAssumption, IInv, NEW p \in Ticks,
         Load(p) \/ Lock(p) \/ Reclaim(p) \/ Relock(p)
  PROVE  IInv'
<1> USE Constants, ProcessTyped
<1>0. NetTyped' /\ RequestsOwned'
  BY DEF Load, Lock, Reclaim, Relock, netVars, NetTyped, RequestsOwned, NoRefresh, Refresh
<1>1. CASE Load(p)
  <2>1. Go(p, "loaded") /\ "loaded" \in Stages
    BY <1>1 DEF Load, Go, Stages
  <2> QED BY <1>0, <1>1, <2>1, ProcessMoves DEF Load, ghosts, Owned
<1>2. CASE Reclaim(p)
  <2>1. "relock" \in Stages /\ -1 \in -1 .. Stale + 1
    BY DEF Stages
  <2> QED BY <1>0, <1>2, <2>1, ProcessMoves DEF Reclaim, ghosts, Owned
<1>3. ASSUME TakeLock(p), UNCHANGED <<serverVars, file, snap, netVars, userVars, faults, away>>
      PROVE  IInv'
  <2>1. "locked" \in Stages /\ 0 \in -1 .. Stale + 1 /\ 0 \in 0 .. Timeout
    BY DEF Stages, Inside
  <2>2. busy' \in [Ticks -> 0 .. Timeout]
    BY <1>3, <2>1 DEF TakeLock
  <2>3. raced' \in BOOLEAN
    BY <1>3 DEF TakeLock
  <2> QED BY <1>0, <1>3, <2>1, <2>2, <2>3, ProcessMoves DEF TakeLock, Owned
<1>4. ASSUME NEW stage \in {"reclaim", "idle"}, Go(p, stage), UNCHANGED <<lock, busy, raced>>,
             UNCHANGED <<serverVars, file, snap, netVars, userVars, faults, away>>
      PROVE  IInv'
  <2>1. stage \in Stages /\ stage # "waiting"
    BY DEF Stages
  <2> QED BY <1>0, <1>4, <2>1, ProcessMoves DEF Owned
<1> QED BY <1>1, <1>2, <1>3, <1>4 DEF Lock, Relock

LEMMA RequestInv ==
  ASSUME DeviceLoginAssumption, IInv, NEW p \in Ticks, Post(p) \/ Answered(p) \/ Abort(p)
  PROVE  IInv'
<1> USE Constants, ProcessTyped, Records
<1>1. CASE Post(p)
  <2>0. PICK t \in Token : t = Reading(p)
    BY DEF Reading
  <2>1. Owned(t)
    BY <2>0 DEF Reading
  <2>2. /\ snap' = [snap EXCEPT ![p] = t]
        /\ UNCHANGED <<serverVars, file, lock, busy, userVars, faults, ghosts>>
    BY <1>1, <2>0 DEF Post
  <2>3. CASE ~NeedsRefresh(t)
    <3>1. Go(p, "done") /\ UNCHANGED netVars /\ "done" \in Stages
      BY <1>1, <2>0, <2>3 DEF Post, Stages, Inside
    <3>2. NetTyped' /\ RequestsOwned'
      BY <3>1 DEF netVars, NetTyped, RequestsOwned, NoRefresh, Refresh
    <3> QED BY <2>1, <2>2, <3>1, <3>2, ProcessMoves DEF ghosts, Owned
  <2>4. CASE NeedsRefresh(t)
    <3>1. /\ Go(p, "waiting") /\ "waiting" \in Stages /\ t.refresh # 0
          /\ request' = [request EXCEPT ![p] = Refresh(t.device, t.refresh)]
          /\ answer' = [answer EXCEPT ![p] = Silent]
      BY <1>1, <2>0, <2>4 DEF Post, Stages, Inside, NeedsRefresh
    <3>2. t.device \in Grants /\ t.refresh \in Numbers
      BY <2>1, <3>1 DEF Owned, Token
    <3>3. Refresh(t.device, t.refresh) \in Request /\ Refresh(t.device, t.refresh).device = t.device
      BY <3>2 DEF Refresh, Request, Device
    <3>4. NetTyped' /\ RequestsOwned'
      BY <3>1, <3>2, <3>3 DEF NetTyped, RequestsOwned, NoRefresh
    <3> QED BY <2>1, <2>2, <3>1, <3>4, ProcessMoves DEF ghosts, Owned
  <2> QED BY <2>3, <2>4
<1>2. CASE Answered(p)
  <2>1. /\ Go(p, "done") /\ "done" \in Stages /\ snap[p].refresh # 0
        /\ UNCHANGED <<serverVars, lock, snap, busy, netVars, userVars, faults, ghosts>>
    BY <1>2 DEF Answered, Stages, Inside
  <2>2. NetTyped' /\ RequestsOwned'
    BY <2>1 DEF netVars, NetTyped, RequestsOwned, NoRefresh, Refresh
  <2>3. snap[p].device \in Grants
    BY <2>1 DEF Owned
  <2>4. file' \in Token /\ Owned(file)'
    <3>1. ASSUME NEW n \in Numbers
          PROVE  /\ [snap[p] EXCEPT !.refresh = n, !.fresh = TRUE] \in Token
                 /\ [snap[p] EXCEPT !.refresh = n, !.fresh = TRUE].device = snap[p].device
                 /\ [snap[p] EXCEPT !.refresh = n] \in Token
                 /\ [snap[p] EXCEPT !.refresh = n].device = snap[p].device
      BY DEF Token
    <3> QED BY <1>2, <2>3, <3>1 DEF Answered, Owned
  <2> QED BY <2>1, <2>2, <2>4, ProcessMoves DEF ghosts
<1>3. CASE Abort(p)
  <2>1. /\ Go(p, "done") /\ "done" \in Stages
        /\ UNCHANGED <<serverVars, file, lock, snap, busy, netVars, userVars, ghosts>>
    BY <1>3 DEF Abort, Stages, Inside
  <2>2. NetTyped' /\ RequestsOwned' /\ Owned(file)'
    BY <2>1 DEF netVars, NetTyped, RequestsOwned, NoRefresh, Refresh, Owned
  <2>3. faults' \in 0 .. MaxFaults
    BY <1>3 DEF Abort
  <2> QED BY <2>1, <2>2, <2>3, ProcessMoves DEF ghosts
<1> QED BY <1>1, <1>2, <1>3

LEMMA EndInv ==
  ASSUME DeviceLoginAssumption, IInv, NEW p \in Ticks, Unlock(p) \/ Die(p)
  PROVE  IInv'
<1> USE Constants, ProcessTyped, Records
<1>1. /\ Go(p, "idle") /\ "idle" \in Stages /\ snap' = [snap EXCEPT ![p] = NoToken]
      /\ UNCHANGED <<serverVars, file, netVars, userVars, ghosts>>
  BY DEF Unlock, Die, Stages
<1>2. Owned(NoToken) /\ Owned(file)' /\ NetTyped' /\ RequestsOwned'
  BY <1>1 DEF Owned, NoToken, netVars, NetTyped, RequestsOwned, NoRefresh, Refresh
<1>3. busy' \in [Ticks -> 0 .. Timeout] /\ lock' \in -1 .. Stale + 1
  <2>1. 0 \in 0 .. Timeout /\ -1 \in -1 .. Stale + 1
    OBVIOUS
  <2> QED BY <2>1 DEF Unlock, Die
<1>4. faults' \in 0 .. MaxFaults
  BY DEF Unlock, Die
<1> QED BY <1>1, <1>2, <1>3, <1>4, ProcessMoves DEF ghosts

-----------------------------------------------------------------------------
(* The server and the clock.                                               *)

LEMMA ServeInv ==
  ASSUME DeviceLoginAssumption, IInv, NEW p \in Ticks, Serve(p)
  PROVE  IInv'
<1> DEFINE d == request[p].device
           n == request[p].refresh
<1> USE Constants, Records
<1>1. d \in Grants
  BY DEF Serve, IInv, TokensOwned, RequestsOwned
<1>2. /\ ServerTyped /\ NetTyped /\ UserTyped /\ ClientTyped
      /\ minted \in [Grants -> Numbers]
  BY DEF IInv, Typed, ServerTyped
<1>3. request' = [request EXCEPT ![p] = NoRefresh]
      /\ UNCHANGED <<grant, revoked, file, lock, procVars, userVars, away>>
  BY DEF Serve
<1>4. \/ IsCurrent(d, n) /\ Rotate(d) /\ Mint(d)
      \/ ~IsCurrent(d, n) /\ IsPrevious(d, n) /\ Recover(d) /\ Mint(d)
      \/ ~Accepted(d, n) /\ UNCHANGED <<minted, cur, prev, prevAge>>
  BY DEF Serve
<1>5. Accepted(d, n) => minted[d] + 1 \in Numbers
  BY <1>1, <1>2, <1>4 DEF Accepted, Mint, Numbers
<1>6. ServerTyped'
  <2>1. CASE IsCurrent(d, n) /\ Rotate(d) /\ Mint(d)
    BY <1>1, <1>2, <1>3, <1>5, <2>1 DEF Rotate, Mint, Accepted, ServerTyped
  <2>2. CASE ~IsCurrent(d, n) /\ IsPrevious(d, n) /\ Recover(d) /\ Mint(d)
    BY <1>1, <1>2, <1>3, <1>5, <2>2 DEF Recover, Mint, Accepted, ServerTyped
  <2>3. CASE UNCHANGED <<minted, cur, prev, prevAge>>
    BY <1>2, <1>3, <2>3 DEF ServerTyped
  <2> QED BY <1>4, <2>1, <2>2, <2>3
<1>7. answer' \in [Ticks -> Answer]
  <2>1. ASSUME NEW status \in {"ok", "invalid_grant", "server_error"}, NEW m \in Numbers,
               Replies(p, status, m)
        PROVE  answer' \in [Ticks -> Answer]
    <3>1. [status |-> status, refresh |-> m] \in Answer
      BY DEF Answer
    <3> QED BY <1>2, <2>1, <3>1 DEF Replies, NetTyped
  <2> QED BY <1>5, <2>1 DEF Serve
<1>8. NetTyped' /\ RequestsOwned'
  BY <1>2, <1>3, <1>7 DEF NetTyped, RequestsOwned, IInv, TokensOwned, NoRefresh, Refresh
<1>9. UserTyped' /\ LoginOwned'
  <2>1. faults' \in 0 .. MaxFaults
    BY <1>2 DEF Serve, UserTyped
  <2>2. raced' \in BOOLEAN
    BY DEF Serve
  <2> QED BY <1>2, <1>3, <2>1, <2>2 DEF UserTyped, userVars, IInv, TokensOwned, LoginOwned
<1>10. ClientTyped' /\ SnapsOwned' /\ Owned(file)'
  BY <1>2, <1>3 DEF ClientTyped, procVars, IInv, TokensOwned, SnapsOwned, Owned
<1> QED BY <1>6, <1>8, <1>9, <1>10 DEF IInv, Typed, TokensOwned

LEMMA LoseInv ==
  ASSUME DeviceLoginAssumption, IInv, NEW p \in Ticks, Lose(p)
  PROVE  IInv'
<1> USE Constants, Records
<1>1. ServerTyped /\ NetTyped /\ UserTyped /\ ClientTyped
  BY DEF IInv, Typed
<1>2. NetTyped' /\ RequestsOwned'
  BY <1>1 DEF Lose, NetTyped, RequestsOwned, IInv, TokensOwned, NoRefresh, Refresh
<1>3. faults' \in 0 .. MaxFaults
  BY <1>1 DEF Lose, UserTyped
<1>4. UserTyped' /\ LoginOwned'
  BY <1>1, <1>3 DEF Lose, UserTyped, userVars, ghosts, IInv, TokensOwned, LoginOwned
<1>5. ServerTyped' /\ ClientTyped' /\ SnapsOwned' /\ Owned(file)'
  BY <1>1 DEF Lose, serverVars, procVars, ServerTyped, ClientTyped, IInv, TokensOwned,
              SnapsOwned, Owned
<1> QED BY <1>2, <1>4, <1>5 DEF IInv, Typed, TokensOwned

LEMMA ClockInv ==
  ASSUME DeviceLoginAssumption, IInv, Clock
  PROVE  IInv'
<1> USE Constants
<1>1. ServerTyped /\ NetTyped /\ UserTyped /\ ClientTyped
  BY DEF IInv, Typed
<1>2. prevAge' \in [Grants -> 0 .. Grace]
  BY <1>1 DEF Clock, ServerTyped, Older
<1>3. busy' \in [Ticks -> 0 .. Timeout]
  BY <1>1 DEF Clock, ClientTyped, Holders
<1>4. lock' \in -1 .. Stale + 1
  BY <1>1 DEF Clock, ClientTyped, Older
<1>5. away' \in BOOLEAN
  BY DEF Clock
<1>6. ServerTyped'
  BY <1>1, <1>2 DEF Clock, ServerTyped
<1>7. ClientTyped' /\ SnapsOwned' /\ Owned(file)'
  BY <1>1, <1>3, <1>4 DEF Clock, ClientTyped, IInv, TokensOwned, SnapsOwned, Owned
<1>8. NetTyped' /\ RequestsOwned'
  BY <1>1 DEF Clock, netVars, NetTyped, IInv, TokensOwned, RequestsOwned, NoRefresh, Refresh
<1>9. UserTyped' /\ LoginOwned'
  BY <1>1, <1>5 DEF Clock, userVars, UserTyped, IInv, TokensOwned, LoginOwned
<1> QED BY <1>6, <1>7, <1>8, <1>9 DEF IInv, Typed, TokensOwned

LEMMA StutterInv ==
  ASSUME IInv, UNCHANGED vars
  PROVE  IInv'
BY DEF vars, serverVars, procVars, netVars, userVars, ghosts, IInv, Typed, ServerTyped,
       ClientTyped, NetTyped, UserTyped, TokensOwned, Owned, LoginOwned, SnapsOwned,
       RequestsOwned, NoRefresh, Refresh

LEMMA Inductive == Spec => []IInv
<1>1. Init => IInv
  BY InitInv, DeviceLoginAssumption
<1>2. IInv /\ [Next]_vars => IInv'
  BY DeviceLoginAssumption, LoginInv, UserInv, LockInv, RequestInv, EndInv, ServeInv, LoseInv,
     ClockInv, StutterInv DEF Next
<1> QED BY <1>1, <1>2, PTL DEF Spec

\* The rows, the token file, the lock and the messages keep their types.
THEOREM DeviceLoginTyped == Spec => []TypeOK
<1>1. IInv => TypeOK
  BY DEF IInv, Typed, TypeOK, ServerTyped, ClientTyped, NetTyped, UserTyped, Stages, Request,
         Answer, Login, Device
<1> QED BY <1>1, Inductive, PTL

\* The grace of a superseded refresh token is never extended: its timer
\* starts over only when the current token takes its place (device_refresh,
\* the second arm leaves prev_rotated_at alone).
THEOREM GraceIsFinal == Spec => GraceNotExtended
<1> DEFINE Step == \A d \in Grants : prevAge'[d] < prevAge[d] => prev'[d] = cur[d]
<1>1. ASSUME IInv, [Next]_vars PROVE Step \/ UNCHANGED vars
  <2> SUFFICES ASSUME NEW d \in Grants, prevAge'[d] < prevAge[d] PROVE prev'[d] = cur[d]
    OBVIOUS
  <2>1. prevAge \in [Grants -> 0 .. Grace] /\ prev \in [Grants -> Numbers] /\ Grace \in Nat
    BY <1>1, DeviceLoginAssumption DEF IInv, Typed, ServerTyped, DeviceLoginAssumption
  <2>2. CASE UNCHANGED prevAge
    BY <2>1, <2>2
  <2>3. CASE Clock
    BY <2>1, <2>3 DEF Clock, Older
  <2>4. ASSUME NEW p \in Ticks, Serve(p), ~UNCHANGED prevAge PROVE prev'[d] = cur[d]
    <3>1. PICK e : prev' = [prev EXCEPT ![e] = cur[e]] /\ prevAge' = [prevAge EXCEPT ![e] = 0]
      BY <2>4 DEF Serve, Rotate, Recover
    <3> QED BY <2>1, <3>1
  <2>5. CASE \E p \in Ticks : \/ Load(p) \/ Lock(p) \/ Reclaim(p) \/ Relock(p) \/ Post(p)
                              \/ Answered(p) \/ Abort(p) \/ Unlock(p) \/ Die(p) \/ Lose(p)
    <3>1. UNCHANGED prevAge
      BY <2>5 DEF Load, Lock, Reclaim, Relock, Post, Answered, Abort, Unlock, Die, Lose,
                  serverVars
    <3> QED BY <2>2, <3>1
  <2>6. CASE \/ \E g \in Grants : StartLogin(g) \/ Approve(g) \/ Lapse(g) \/ Redeem(g)
             \/ LoggedIn \/ LoginFails \/ Due \/ StartLogout \/ Revoke \/ Clear
             \/ UNCHANGED vars
    <3>1. UNCHANGED prevAge
      BY <2>6 DEF StartLogin, Approve, Lapse, Redeem, LoggedIn, LoginFails, Due, StartLogout,
                  Revoke, Clear, serverVars, vars
    <3> QED BY <2>2, <3>1
  <2> QED BY <1>1, <2>2, <2>3, <2>4, <2>5, <2>6 DEF Next
<1>2. IInv /\ [Next]_vars => [Step]_vars
  BY <1>1
<1> QED BY <1>2, Inductive, PTL DEF Spec, GraceNotExtended


-----------------------------------------------------------------------------
(* The credential that is kept.  What is told of one process, of the lock, *)
(* of a late request and of the file, as far as it is needed to know that  *)
(* the server still takes the token that comes next.                       *)

Good(d) == ~raced /\ ~revoked[d]
Forgiven == away \/ faults > 1
Asking(p) == request[p] # NoRefresh
Asks(p) == at[p] = "waiting" /\ Asking(p)
Won(p) == at[p] = "waiting" /\ answer[p].status = "ok"

\* A device that its login does not hold yet is known to nobody.
Unknown(d) == grant[d] # "consumed" \/ (login.got # 0 /\ login.grant = d)
Untouched(d) ==
  /\ file.device # d /\ logout # d
  /\ \A p \in Ticks : snap[p].device # d /\ request[p].device # d
NewDevices ==
  /\ \A d \in Grants : Unknown(d) => Untouched(d)
  /\ login.got # 0 => grant[login.grant] = "consumed" /\ cur[login.grant] = login.got

Chain == \A d \in Grants : ~revoked[d] => cur[d] = minted[d] /\ prev[d] <= cur[d]

\* One process holds the lock, and a lock that is there is as old as its hold.
OneHolder ==
  ~raced =>
    /\ \A p, q \in Holders : p = q
    /\ \A p \in Holders : lock = -1 \/ busy[p] <= lock
    /\ file = NoToken => \A p \in Ticks : at[p] = "idle"

\* A request is in flight while its process waits, or it is late.
AskedBy(p) ==
  /\ Asking(p) => at[p] \in {"idle", "waiting", "done"}
  /\ Asking(p) /\ faults = 0 => at[p] = "waiting"
  /\ Asks(p) => request[p] = Refresh(snap[p].device, snap[p].refresh) /\ answer[p] = Silent
  /\ at[p] = "waiting" => ~snap[p].fresh
  /\ Won(p) => answer[p].refresh > snap[p].refresh

\* The token a process waits with, and the answer it gets for it.
WaitsWell(p) ==
  at[p] = "waiting" /\ Good(snap[p].device) =>
    LET d == snap[p].device
        m == snap[p].refresh
    IN
    /\ m \in {cur[d], prev[d]}
    /\ Asking(p) /\ m # cur[d] => Forgiven \/ prevAge[d] <= Stale + 1 + busy[p]
    /\ Won(p) => answer[p].refresh = cur[d]
    /\ answer[p].status = "invalid_grant" => Forgiven

\* The file changes under a process that waits only for another device's token.
SeesFile(p) ==
  ~raced /\ at[p] = "waiting" /\ snap[p].device = file.device => file = snap[p]

\* A late request presents no newer token than the file, or a process that waits.
Late(q) == Asking(q) /\ at[q] # "waiting"
LateOf(q) ==
  ~raced /\ Late(q) =>
    /\ file.device = request[q].device /\ file.refresh # 0 =>
         /\ request[q].refresh <= file.refresh
         /\ file.fresh => request[q].refresh < file.refresh
    /\ \A p \in Ticks : at[p] = "waiting" /\ snap[p].device = request[q].device =>
         request[q].refresh <= snap[p].refresh

Kept ==
  /\ file # NoToken => file.device \in Grants
  /\ file # NoToken /\ Good(file.device) =>
       /\ file.refresh = 0 => Forgiven
       /\ file.refresh # 0 => file.refresh \in {cur[file.device], prev[file.device]}
       /\ file.refresh # 0 /\ file.fresh => file.refresh = cur[file.device]

\* The file's token is superseded: one answer has been lost, and the grace
\* outlasts the lock that the loss has left.
Superseded == file.refresh # 0 /\ Good(file.device) /\ file.refresh # cur[file.device]
Hopeful(p) == at[p] = "locked" \/ Asks(p) \/ Won(p)
LossTold == faults = 0 => \E p \in Ticks : Won(p) /\ prevAge[file.device] <= busy[p]
LeftAlone == Holders = {} => prevAge[file.device] <= IF lock = -1 THEN Stale + 1 ELSE lock
Retried(p) ==
  LET age == prevAge[file.device] IN
  age <= busy[p] \/ (Hopeful(p) /\ age <= Stale + 1 + busy[p])
InGrace ==
  Superseded /\ ~Forgiven =>
    /\ LossTold /\ LeftAlone
    /\ \A p \in Holders : Retried(p)

\* A process that waits for another device's token than the file's: its login
\* has just saved that one, and nobody has asked for it.
Parted(p) ==
  ~raced /\ at[p] = "waiting" /\ snap[p].device # file.device =>
    ~Superseded /\ \A q \in Ticks : Asking(q) => request[q].device # file.device

EachProcess ==
  \A p \in Ticks : AskedBy(p) /\ WaitsWell(p) /\ SeesFile(p) /\ LateOf(p) /\ Parted(p)
Known == NewDevices /\ Chain /\ OneHolder /\ EachProcess /\ Kept /\ InGrace

LEMMA Types ==
  ASSUME DeviceLoginAssumption, IInv
  PROVE  /\ revoked \in [Grants -> BOOLEAN]
         /\ minted \in [Grants -> Int] /\ cur \in [Grants -> Int] /\ prev \in [Grants -> Int]
         /\ prevAge \in [Grants -> Int] /\ \A d \in Grants : prevAge[d] >= 0
         /\ at \in [Ticks -> Stages] /\ snap \in [Ticks -> Token]
         /\ busy \in [Ticks -> Int] /\ \A p \in Ticks : busy[p] >= 0 /\ busy[p] <= Timeout
         /\ request \in [Ticks -> Request] /\ answer \in [Ticks -> Answer]
         /\ file \in Token /\ lock \in Int /\ -1 <= lock /\ lock <= Stale + 1
         /\ faults \in Int /\ faults >= 0 /\ raced \in BOOLEAN /\ away \in BOOLEAN
         /\ \A p \in Ticks :
              /\ snap[p].refresh \in Int /\ snap[p].refresh >= 0 /\ answer[p].refresh \in Int
              /\ request[p].refresh \in Int
              /\ Asking(p) => request[p].device \in Grants
              /\ at[p] = "waiting" => snap[p].refresh # 0 /\ snap[p].device \in Grants
         /\ file.refresh \in Int /\ (file.refresh # 0 => file.device \in Grants)
<1>1. ServerTyped /\ ClientTyped /\ NetTyped /\ UserTyped /\ TokensOwned
  BY DEF IInv, Typed
<1>2. Numbers \subseteq Int /\ 0 .. Grace \subseteq Int /\ 0 .. Timeout \subseteq Int
      /\ \A n \in Numbers : n >= 0
  BY Constants DEF Numbers
<1>3. /\ minted \in [Grants -> Int] /\ cur \in [Grants -> Int] /\ prev \in [Grants -> Int]
      /\ prevAge \in [Grants -> Int] /\ \A d \in Grants : prevAge[d] >= 0
  <2>1. minted \in [Grants -> Int] /\ cur \in [Grants -> Int] /\ prev \in [Grants -> Int]
    BY <1>1, <1>2 DEF ServerTyped
  <2>2. prevAge \in [Grants -> 0 .. Grace]
    BY <1>1 DEF ServerTyped
  <2>3. \A d \in Grants : prevAge[d] >= 0
    BY <2>2, Constants
  <2> QED BY <1>2, <2>1, <2>2, <2>3
<1>4. busy \in [Ticks -> Int] /\ \A p \in Ticks : busy[p] >= 0 /\ busy[p] <= Timeout
  BY <1>1, <1>2, Constants DEF ClientTyped
<1>5. lock \in Int /\ -1 <= lock /\ lock <= Stale + 1 /\ faults \in Int /\ faults >= 0
  BY <1>1, Constants DEF ClientTyped, UserTyped
<1>6. ASSUME NEW p \in Ticks
      PROVE  /\ snap[p].refresh \in Int /\ snap[p].refresh >= 0 /\ answer[p].refresh \in Int
             /\ request[p].refresh \in Int
             /\ Asking(p) => request[p].device \in Grants
             /\ at[p] = "waiting" => snap[p].refresh # 0 /\ snap[p].device \in Grants
  <2>1. snap[p] \in Token /\ answer[p] \in Answer /\ request[p] \in Request
    BY <1>1 DEF ClientTyped, NetTyped
  <2>2. snap[p].refresh \in Numbers /\ answer[p].refresh \in Numbers /\ request[p].refresh \in Numbers
    BY <2>1 DEF Token, Answer, Request
  <2> QED BY <1>1, <1>2, <2>2 DEF TokensOwned, SnapsOwned, Owned, RequestsOwned, Asking
<1>7. file.refresh \in Int /\ (file.refresh # 0 => file.device \in Grants)
  BY <1>1, <1>2 DEF ClientTyped, Token, TokensOwned, Owned
<1> QED BY <1>1, <1>3, <1>4, <1>5, <1>6, <1>7 DEF ServerTyped, ClientTyped, NetTyped, UserTyped

LEMMA InitKnown ==
  ASSUME DeviceLoginAssumption, Init
  PROVE  Known
<1> USE Constants DEF Init
<1>1. NewDevices
  BY DEF NewDevices, Untouched, NoToken, NoLogin, NoRefresh, Refresh
<1>2. Chain /\ OneHolder
  BY DEF Chain, OneHolder, Holders, Inside
<1>3. EachProcess
  BY DEF EachProcess, AskedBy, WaitsWell, SeesFile, LateOf, Late, Asks, Asking, Won, Parted
<1>4. Kept /\ InGrace
  BY DEF Kept, InGrace, Superseded, NoToken
<1> QED BY <1>1, <1>2, <1>3, <1>4 DEF Known

-----------------------------------------------------------------------------
(* The login and the logout.                                               *)

\* A step that works on devices nobody knows, and on the rows of the login.
LEMMA Elsewhere ==
  ASSUME DeviceLoginAssumption, IInv, Known,
         UNCHANGED <<revoked, prev, prevAge, file, lock, procVars, netVars, ghosts>>,
         faults' \in Int, faults' >= faults,
         \A d \in Grants : ~Untouched(d) => cur'[d] = cur[d],
         Chain', NewDevices'
  PROVE  Known'
<1> USE Types, Constants
<1>0. /\ file' = file /\ lock' = lock /\ at' = at /\ snap' = snap /\ busy' = busy
      /\ request' = request /\ answer' = answer /\ raced' = raced /\ away' = away
      /\ revoked' = revoked /\ prev' = prev /\ prevAge' = prevAge
  BY DEF procVars, netVars, ghosts
<1>1. OneHolder'
  BY <1>0 DEF Known, OneHolder, Holders, NoToken
<1>2. EachProcess'
  <2> SUFFICES ASSUME NEW p \in Ticks 
               PROVE (AskedBy(p) /\ WaitsWell(p) /\ SeesFile(p) /\ LateOf(p) /\ Parted(p))'
    BY DEF EachProcess
  <2>0. AskedBy(p) /\ WaitsWell(p) /\ SeesFile(p) /\ LateOf(p) /\ Parted(p)
    BY DEF Known, EachProcess
  <2>1. AskedBy(p)' /\ SeesFile(p)' /\ LateOf(p)'
    BY <1>0, <2>0 DEF AskedBy, SeesFile, LateOf, Late, Asking, Asks, Won, NoRefresh, Refresh,
                      Silent
  <2>2. at[p] = "waiting" => cur'[snap[p].device] = cur[snap[p].device]
    BY DEF Untouched
  <2>3. WaitsWell(p)'
    BY <1>0, <2>0, <2>2 DEF WaitsWell, Good, Forgiven, Asking, Won, NoRefresh, Refresh
  <2>4. Superseded' <=> Superseded
    <3>1. file.device \in Grants => cur'[file.device] = cur[file.device]
      BY DEF Untouched
    <3> QED BY <1>0, <3>1 DEF Superseded, Good
  <2>5. Parted(p)'
    BY <1>0, <2>0, <2>4 DEF Parted, Asking, NoRefresh, Refresh
  <2> QED BY <2>1, <2>3, <2>5
<1>3. file.device \in Grants => cur'[file.device] = cur[file.device]
  BY DEF Untouched
<1>4. Kept'
  BY <1>0, <1>3 DEF Known, Kept, Good, Forgiven, NoToken
<1>5. InGrace'
  BY <1>0, <1>3 DEF Known, InGrace, Superseded, Good, Forgiven, LossTold, LeftAlone, Holders,
                    Retried, Hopeful, Asks, Asking, Won, NoRefresh, Refresh
<1> QED BY <1>1, <1>2, <1>4, <1>5 DEF Known

LEMMA LoginKnown ==
  ASSUME DeviceLoginAssumption, IInv, Known, NEW d \in Grants,
         StartLogin(d) \/ Approve(d) \/ Lapse(d) \/ Redeem(d)
  PROVE  Known'
<1> USE Types, Constants
<1>0. /\ UNCHANGED <<revoked, prev, prevAge, file, lock, procVars, netVars, ghosts>>
      /\ faults' \in Int /\ faults' >= faults /\ logout' = logout
      /\ grant \in [Grants -> {"none", "pending", "approved", "consumed", "expired"}]
  BY DEF StartLogin, Approve, Lapse, Redeem, serverVars, userVars, IInv, Typed, ServerTyped
<1>1. \A e \in Grants : Untouched(e)' <=> Untouched(e)
  BY <1>0 DEF Untouched, procVars, netVars
<1>2. grant[d] # "consumed" /\ Untouched(d)
  BY DEF StartLogin, Approve, Lapse, Redeem, Known, NewDevices, Unknown
<1>3. \A e \in Grants : ~Untouched(e) => cur'[e] = cur[e]
  BY <1>2 DEF StartLogin, Approve, Lapse, Redeem
<1>4. Chain'
  BY <1>0 DEF StartLogin, Approve, Lapse, Redeem, Known, Chain
<1>5. NewDevices'
  <2>1. CASE StartLogin(d)
    BY <1>0, <1>1, <2>1 DEF StartLogin, Known, NewDevices, Unknown, NoLogin
  <2>2. CASE Approve(d) \/ Lapse(d)
    BY <1>0, <1>1, <1>2, <2>2 DEF Approve, Lapse, Known, NewDevices, Unknown, userVars, IInv,
                                  TokensOwned, LoginOwned
  <2>3. CASE Redeem(d)
    <3>1. login.got = 0 /\ login.grant = d /\ cur'[d] = minted[d] + 1
      BY <2>3 DEF Redeem
    <3>2. login' = login \/ (login'.got = minted[d] + 1 /\ login'.grant = d)
      BY <2>3 DEF Redeem
    <3> QED BY <1>0, <1>1, <1>2, <2>3, <3>1, <3>2 DEF Redeem, Known, NewDevices, Unknown
  <2> QED BY <2>1, <2>2, <2>3
<1> QED BY <1>0, <1>3, <1>4, <1>5, Elsewhere

LEMMA RowsKnown ==
  ASSUME DeviceLoginAssumption, IInv, Known, LoginFails \/ StartLogout
  PROVE  Known'
<1> USE Types, Constants
<1>0. /\ UNCHANGED <<revoked, prev, prevAge, file, lock, procVars, netVars, ghosts>>
      /\ faults' = faults /\ UNCHANGED <<grant, cur, minted>>
  BY DEF LoginFails, StartLogout, serverVars
<1>1. Chain'
  BY <1>0 DEF Known, Chain
<1>2. NewDevices'
  <2>1. CASE LoginFails
    <3>1. login'.got = 0 /\ login.got = 0 /\ logout' = logout
      BY <2>1 DEF LoginFails, NoLogin
    <3> QED BY <1>0, <3>1 DEF Known, NewDevices, Unknown, Untouched, procVars, netVars
  <2>2. CASE StartLogout
    BY <1>0, <2>2 DEF StartLogout, Known, NewDevices, Unknown, Untouched, procVars, netVars
  <2> QED BY <2>1, <2>2
<1> QED BY <1>0, <1>1, <1>2, Elsewhere

\* What a step that leaves the processes and the requests alone keeps of them.
LEMMA SameProcesses ==
  ASSUME UNCHANGED <<procVars, netVars>>
  PROVE  /\ at' = at /\ snap' = snap /\ busy' = busy /\ request' = request /\ answer' = answer
         /\ Holders' = Holders
         /\ \A p : /\ Asking(p)' <=> Asking(p)
                   /\ Asks(p)' <=> Asks(p)
                   /\ Won(p)' <=> Won(p)
                   /\ Late(p)' <=> Late(p)
                   /\ Hopeful(p)' <=> Hopeful(p)
  BY DEF procVars, netVars, Holders, Asking, Asks, Won, Late, Hopeful, NoRefresh, Refresh

\* The login saves the first token of a device nobody has heard of.
LEMMA LoggedInKnown ==
  ASSUME DeviceLoginAssumption, IInv, Known, LoggedIn
  PROVE  Known'
<1> USE Types, Constants
<1> DEFINE d == login.grant
<1>0. /\ file' = [device |-> d, refresh |-> login.got, fresh |-> TRUE] /\ login'.got = 0
      /\ UNCHANGED <<grant, revoked, minted, cur, prev, prevAge, lock, logout, faults, raced, away>>
      /\ login.got # 0
  BY DEF LoggedIn, serverVars, ghosts, NoLogin
<1>1. d \in Grants /\ login.got \in Int /\ Untouched(d) /\ cur[d] = login.got
  BY <1>0 DEF IInv, Typed, UserTyped, Login, Numbers, TokensOwned, LoginOwned, Known, NewDevices,
              Unknown
<1>2. /\ file'.device = d /\ file'.refresh = login.got /\ file'.fresh /\ file' # NoToken
  BY <1>0, <1>1 DEF NoToken
<1>3. UNCHANGED <<procVars, netVars>>
  BY DEF LoggedIn
<1>4. NewDevices'
  BY <1>0, <1>2, <1>3, SameProcesses DEF Known, NewDevices, Unknown, Untouched
<1>5. Chain'
  BY <1>0 DEF Known, Chain
<1>6. OneHolder'
  BY <1>0, <1>2, <1>3, SameProcesses DEF Known, OneHolder, NoToken
<1>7. EachProcess'
  <2> SUFFICES ASSUME NEW p \in Ticks 
               PROVE (AskedBy(p) /\ WaitsWell(p) /\ SeesFile(p) /\ LateOf(p) /\ Parted(p))'
    BY DEF EachProcess
  <2>0. AskedBy(p) /\ WaitsWell(p) /\ SeesFile(p) /\ LateOf(p) /\ Parted(p)
    BY DEF Known, EachProcess
  <2>1. AskedBy(p)'
    BY <1>0, <1>3, <2>0, SameProcesses DEF AskedBy, Refresh, Silent
  <2>2. WaitsWell(p)'
    BY <1>0, <1>3, <2>0, SameProcesses DEF WaitsWell, Good, Forgiven
  <2>3. SeesFile(p)'
    BY <1>1, <1>2, <1>3, SameProcesses DEF SeesFile, Untouched
  <2>4. LateOf(p)'
    BY <1>0, <1>1, <1>2, <1>3, <2>0, SameProcesses DEF LateOf, Untouched
  <2>5. Parted(p)'
    BY <1>0, <1>1, <1>2, <1>3, SameProcesses DEF Parted, Superseded, Untouched
  <2> QED BY <2>1, <2>2, <2>3, <2>4, <2>5
<1>8. Kept'
  BY <1>0, <1>1, <1>2 DEF Kept, NoToken
<1>9. InGrace'
  BY <1>0, <1>1, <1>2 DEF InGrace, Superseded
<1> QED BY <1>4, <1>5, <1>6, <1>7, <1>8, <1>9 DEF Known

\* The access token comes close to its expiry: no process waits for a fresh file.
LEMMA DueKnown ==
  ASSUME DeviceLoginAssumption, IInv, Known, Due
  PROVE  Known'
<1> USE Types, Constants
<1>0. /\ file.fresh /\ file' = [file EXCEPT !.fresh = FALSE]
      /\ UNCHANGED <<grant, revoked, minted, cur, prev, prevAge, lock, login, logout, faults, raced, away>>
      /\ UNCHANGED <<procVars, netVars>>
  BY DEF Due, serverVars, userVars, ghosts
<1>1. /\ file'.device = file.device /\ file'.refresh = file.refresh /\ ~file'.fresh
      /\ (file # NoToken)
  BY <1>0 DEF NoToken, Token
<1>2. NewDevices'
  BY <1>0, <1>1, SameProcesses DEF Known, NewDevices, Unknown, Untouched
<1>3. Chain'
  BY <1>0 DEF Known, Chain
<1>4. file.device \in Grants
  BY <1>1 DEF Known, Kept
<1>5. file' # NoToken
  BY <1>1, <1>4 DEF NoToken
<1>6. OneHolder'
  BY <1>0, <1>5, SameProcesses DEF Known, OneHolder, NoToken
<1>7. EachProcess'
  <2> SUFFICES ASSUME NEW p \in Ticks 
               PROVE (AskedBy(p) /\ WaitsWell(p) /\ SeesFile(p) /\ LateOf(p) /\ Parted(p))'
    BY DEF EachProcess
  <2>0. AskedBy(p) /\ WaitsWell(p) /\ SeesFile(p) /\ LateOf(p) /\ Parted(p)
    BY DEF Known, EachProcess
  <2>1. AskedBy(p)'
    BY <1>0, <2>0, SameProcesses DEF AskedBy, Refresh, Silent
  <2>2. WaitsWell(p)'
    BY <1>0, <2>0, SameProcesses DEF WaitsWell, Good, Forgiven
  <2>3. SeesFile(p)'
    BY <1>0, <1>1, <2>0, SameProcesses DEF SeesFile, AskedBy
  <2>4. LateOf(p)'
    BY <1>0, <1>1, <2>0, SameProcesses DEF LateOf, Late
  <2>5. Parted(p)'
    BY <1>0, <1>1, <2>0, SameProcesses DEF Parted, Superseded, Good
  <2> QED BY <2>1, <2>2, <2>3, <2>4, <2>5
<1>8. Kept'
  BY <1>0, <1>1, <1>4 DEF Known, Kept, Good, Forgiven, NoToken
<1>9. InGrace'
  <2>1. Superseded' => Superseded
    BY <1>0, <1>1, <1>4 DEF Superseded, Good
  <2>2. ~Superseded
    BY <1>0, <1>1 DEF Known, Kept, Superseded
  <2> QED BY <2>1, <2>2 DEF InGrace
<1> QED BY <1>2, <1>3, <1>6, <1>7, <1>8, <1>9 DEF Known

\* Nothing is said of a revoked device.
LEMMA RevokeKnown ==
  ASSUME DeviceLoginAssumption, IInv, Known, Revoke
  PROVE  Known'
<1> USE Types, Constants
<1> DEFINE d == logout
<1>0. /\ UNCHANGED <<grant, minted, prevAge, file, lock, login, logout, faults, raced, away>>
      /\ UNCHANGED <<procVars, netVars>>
      /\ d \in Grants
  BY DEF Revoke, userVars, ghosts, IInv, Typed, UserTyped, Device
<1>1. /\ revoked' = [revoked EXCEPT ![d] = TRUE]
      /\ \A e \in Grants \ {d} : cur'[e] = cur[e] /\ prev'[e] = prev[e]
  BY <1>0 DEF Revoke
<1>2. \A e \in Grants : Good(e)' => Good(e) /\ cur'[e] = cur[e] /\ prev'[e] = prev[e]
  BY <1>0, <1>1 DEF Good
<1>3. NewDevices'
  <2>1. login.got # 0 => login.grant \in Grants /\ login.grant # d
    BY DEF Known, NewDevices, Unknown, Untouched, IInv, TokensOwned, LoginOwned
  <2> QED BY <1>0, <1>1, <2>1, SameProcesses DEF Known, NewDevices, Unknown, Untouched
<1>4. Chain'
  BY <1>0, <1>1 DEF Known, Chain
<1>5. OneHolder'
  BY <1>0, SameProcesses DEF Known, OneHolder, NoToken
<1>6. EachProcess'
  <2> SUFFICES ASSUME NEW p \in Ticks 
               PROVE (AskedBy(p) /\ WaitsWell(p) /\ SeesFile(p) /\ LateOf(p) /\ Parted(p))'
    BY DEF EachProcess
  <2>0. AskedBy(p) /\ WaitsWell(p) /\ SeesFile(p) /\ LateOf(p) /\ Parted(p)
    BY DEF Known, EachProcess
  <2>1. AskedBy(p)'
    BY <1>0, <2>0, SameProcesses DEF AskedBy, Refresh, Silent
  <2>2. WaitsWell(p)'
    BY <1>0, <1>2, <2>0, SameProcesses DEF WaitsWell, Forgiven
  <2>3. SeesFile(p)'
    BY <1>0, <2>0, SameProcesses DEF SeesFile
  <2>4. LateOf(p)'
    BY <1>0, <2>0, SameProcesses DEF LateOf
  <2>5. Parted(p)'
    BY <1>0, <1>2, <2>0, SameProcesses DEF Parted, Superseded
  <2> QED BY <2>1, <2>2, <2>3, <2>4, <2>5
<1>7. Kept'
  BY <1>0, <1>2 DEF Known, Kept, Forgiven, NoToken
<1>8. InGrace'
  BY <1>0, <1>2, SameProcesses DEF Known, InGrace, Superseded, Forgiven, LossTold, LeftAlone,
                                   Retried
<1> QED BY <1>3, <1>4, <1>5, <1>6, <1>7, <1>8 DEF Known

LEMMA ClearKnown ==
  ASSUME DeviceLoginAssumption, IInv, Known, Clear
  PROVE  Known'
<1> USE Types, Constants
<1>0. /\ file' = NoToken /\ logout' = NoGrant /\ raced' = (raced \/ \E p \in Ticks : at[p] # "idle")
      /\ UNCHANGED <<grant, revoked, minted, cur, prev, prevAge, lock, login, faults, away>>
      /\ UNCHANGED <<procVars, netVars>>
  BY DEF Clear, serverVars
<1>1. ~raced' => ~raced /\ \A p \in Ticks : at[p] = "idle"
  BY <1>0
<1>2. NewDevices'
  BY <1>0, SameProcesses DEF Known, NewDevices, Unknown, Untouched, NoToken
<1>3. Chain'
  BY <1>0 DEF Known, Chain
<1>4. OneHolder'
  BY <1>0, <1>1, SameProcesses DEF Known, OneHolder
<1>5. EachProcess'
  <2> SUFFICES ASSUME NEW p \in Ticks 
               PROVE (AskedBy(p) /\ WaitsWell(p) /\ SeesFile(p) /\ LateOf(p) /\ Parted(p))'
    BY DEF EachProcess
  <2>0. AskedBy(p) /\ WaitsWell(p) /\ SeesFile(p) /\ LateOf(p) /\ Parted(p)
    BY DEF Known, EachProcess
  <2>1. AskedBy(p)'
    BY <1>0, <2>0, SameProcesses DEF AskedBy, Refresh, Silent
  <2>2. WaitsWell(p)'
    BY <1>0, <1>1, <2>0, SameProcesses DEF WaitsWell, Good
  <2>3. SeesFile(p)'
    BY <1>0, <1>1, <2>0, SameProcesses DEF SeesFile
  <2>4. LateOf(p)'
    BY <1>0, <1>1, <2>0, SameProcesses DEF LateOf, NoToken
  <2>5. Parted(p)'
    BY <1>0, <1>1, SameProcesses DEF Parted
  <2> QED BY <2>1, <2>2, <2>3, <2>4, <2>5
<1>6. Kept' /\ InGrace'
  BY <1>0 DEF Kept, InGrace, Superseded, NoToken
<1> QED BY <1>2, <1>3, <1>4, <1>5, <1>6 DEF Known

-----------------------------------------------------------------------------
(* The lock.                                                               *)

LEMMA OnlyHolder ==
  ASSUME Known, ~raced, NEW p \in Ticks, NEW q \in Ticks, at[p] \in Inside, at[q] \in Inside
  PROVE  p = q
BY DEF Known, OneHolder, Holders

\* What a step of process p leaves of the others.
LEMMA OthersAsk ==
  ASSUME NEW p \in Ticks, NEW q \in Ticks, q # p, at'[q] = at[q], request'[q] = request[q],
         answer'[q] = answer[q]
  PROVE  /\ Asking(q)' <=> Asking(q)
         /\ Asks(q)' <=> Asks(q)
         /\ Won(q)' <=> Won(q)
         /\ Late(q)' <=> Late(q)
         /\ Hopeful(q)' <=> Hopeful(q)
  BY DEF Asking, Asks, Won, Late, Hopeful, NoRefresh, Refresh

\* A process that does not hold the lock and has no request moves on.
LEMMA OutsideKnown ==
  ASSUME DeviceLoginAssumption, IInv, Known, NEW p \in Ticks,
         NEW stage \in {"idle", "loaded", "reclaim", "relock"}, Go(p, stage),
         at[p] \in {"idle", "loaded", "reclaim", "relock"}, ~Asking(p),
         at[p] # "idle" \/ file # NoToken,
         NEW s \in {snap[p], file}, snap' = [snap EXCEPT ![p] = s],
         lock' \in {lock, -1},
         UNCHANGED <<serverVars, file, busy, netVars, userVars, faults, ghosts>>
  PROVE  Known'
<1> USE Types, Constants
<1>0. /\ UNCHANGED <<grant, revoked, minted, cur, prev, prevAge, file, login, logout, faults, raced, away>>
      /\ request' = request /\ answer' = answer /\ busy' = busy
  BY DEF serverVars, netVars, userVars, ghosts
<1>1. /\ at'[p] = stage /\ at[p] \notin Inside /\ stage \notin Inside
      /\ \A q \in Ticks \ {p} : at'[q] = at[q] /\ snap'[q] = snap[q]
  BY DEF Go, Inside
<1>2. Holders' = Holders
  BY <1>1 DEF Holders
<1>3. NewDevices'
  <2>1. \A d \in Grants : Untouched(d) => Untouched(d)'
    BY <1>0, <1>1 DEF Untouched
  <2> QED BY <1>0, <2>1 DEF Known, NewDevices, Unknown
<1>4. Chain'
  BY <1>0 DEF Known, Chain
<1>5. OneHolder'
  BY <1>0, <1>2 DEF Known, OneHolder, NoToken
<1>6. ~Asking(p)' /\ ~Asks(p)' /\ ~Won(p)' /\ ~Late(p)' /\ at'[p] # "waiting" /\ ~Won(p)
  BY <1>0, <1>1 DEF Asking, Asks, Won, Late, NoRefresh, Refresh, Inside
<1>7. EachProcess'
  <2> SUFFICES ASSUME NEW q \in Ticks 
               PROVE (AskedBy(q) /\ WaitsWell(q) /\ SeesFile(q) /\ LateOf(q) /\ Parted(q))'
    BY DEF EachProcess
  <2>1. CASE q = p
    BY <1>6, <2>1 DEF AskedBy, WaitsWell, SeesFile, LateOf, Parted
  <2>2. CASE q # p
    <3>0. AskedBy(q) /\ WaitsWell(q) /\ SeesFile(q) /\ LateOf(q) /\ Parted(q)
      BY DEF Known, EachProcess
    <3>1. at'[q] = at[q] /\ snap'[q] = snap[q] /\ q \in Ticks \ {p}
      BY <1>1, <2>2
    <3>2. AskedBy(q)'
      BY <1>0, <2>2, <3>0, <3>1, OthersAsk DEF AskedBy, Refresh, Silent
    <3>3. WaitsWell(q)'
      BY <1>0, <2>2, <3>0, <3>1, OthersAsk DEF WaitsWell, Good, Forgiven
    <3>4. SeesFile(q)'
      BY <1>0, <3>0, <3>1 DEF SeesFile
    <3>5. LateOf(q)'
      BY <1>0, <1>1, <1>6, <2>2, <3>0, <3>1, OthersAsk DEF LateOf
    <3>6. Parted(q)'
      BY <1>0, <3>0, <3>1 DEF Parted, Superseded, Good, Asking, NoRefresh, Refresh
    <3> QED BY <3>2, <3>3, <3>4, <3>5, <3>6
  <2> QED BY <2>1, <2>2
<1>8. Kept'
  BY <1>0 DEF Known, Kept, Good, Forgiven, NoToken
<1>9. InGrace'
  <2> SUFFICES ASSUME Superseded', ~Forgiven'
               PROVE  LossTold' /\ LeftAlone' /\ \A q \in Holders' : Retried(q)'
    BY DEF InGrace
  <2>1. LossTold /\ LeftAlone /\ \A q \in Holders : Retried(q)
    BY <1>0 DEF Known, InGrace, Superseded, Forgiven, Good
  <2>2. file.device \in Grants /\ prevAge[file.device] \in Int
    BY <1>0 DEF Superseded
  <2>3. LossTold'
    BY <1>0, <1>1, <1>6, <2>1, OthersAsk DEF LossTold
  <2>4. LeftAlone'
    BY <1>0, <1>2, <2>1, <2>2 DEF LeftAlone
  <2>5. ASSUME NEW q \in Holders' PROVE Retried(q)'
    <3>1. q \in Holders /\ q \in Ticks /\ q # p
      BY <1>1, <1>2, <2>5 DEF Holders
    <3> QED BY <1>0, <1>1, <2>1, <3>1, OthersAsk DEF Retried
  <2> QED BY <2>3, <2>4, <2>5
<1> QED BY <1>3, <1>4, <1>5, <1>7, <1>8, <1>9 DEF Known

LEMMA TakeLockKnown ==
  ASSUME DeviceLoginAssumption, IInv, Known, NEW p \in Ticks, at[p] \in {"loaded", "relock"},
         TakeLock(p), UNCHANGED <<serverVars, file, snap, netVars, userVars, faults, away>>
  PROVE  Known'
<1> USE Types, Constants
<1>0. /\ UNCHANGED <<grant, revoked, minted, cur, prev, prevAge, file, login, logout, faults, away>>
      /\ request' = request /\ answer' = answer /\ snap' = snap
      /\ lock = -1 /\ lock' = 0 /\ raced' = (raced \/ Holders # {})
  BY DEF TakeLock, serverVars, netVars, userVars
<1>1. /\ at'[p] = "locked" /\ at[p] \notin Inside /\ busy'[p] = 0 /\ p \in Holders'
      /\ \A q \in Ticks \ {p} : at'[q] = at[q] /\ busy'[q] = busy[q]
  BY DEF TakeLock, Go, Inside, Holders
<1>2. ~raced' => ~raced /\ Holders = {} /\ Holders' = {p}
  BY <1>0, <1>1 DEF Holders
<1>3. ~Asking(p) /\ ~Won(p) /\ ~Asking(p)' /\ ~Asks(p)' /\ ~Won(p)' /\ ~Late(p)' /\ at'[p] # "waiting"
  BY <1>0, <1>1 DEF Known, EachProcess, AskedBy, Asking, Asks, Won, Late, NoRefresh, Refresh
<1>4. NewDevices'
  BY <1>0 DEF Known, NewDevices, Unknown, Untouched
<1>5. Chain'
  BY <1>0 DEF Known, Chain
<1>6. OneHolder'
  BY <1>0, <1>1, <1>2 DEF Known, OneHolder, NoToken
<1>7. EachProcess'
  <2> SUFFICES ASSUME NEW q \in Ticks 
               PROVE (AskedBy(q) /\ WaitsWell(q) /\ SeesFile(q) /\ LateOf(q) /\ Parted(q))'
    BY DEF EachProcess
  <2>1. CASE q = p
    BY <1>3, <2>1 DEF AskedBy, WaitsWell, SeesFile, LateOf, Parted
  <2>2. CASE q # p
    <3>0. AskedBy(q) /\ WaitsWell(q) /\ SeesFile(q) /\ LateOf(q) /\ Parted(q)
      BY DEF Known, EachProcess
    <3>1. at'[q] = at[q] /\ busy'[q] = busy[q] /\ q \in Ticks \ {p}
      BY <1>1, <2>2
    <3>2. AskedBy(q)'
      BY <1>0, <2>2, <3>0, <3>1, OthersAsk DEF AskedBy, Refresh, Silent
    <3>3. WaitsWell(q)'
      BY <1>2, <3>1 DEF WaitsWell, Good, Holders, Inside
    <3>4. SeesFile(q)'
      BY <1>0, <1>2, <3>0, <3>1 DEF SeesFile
    <3>5. LateOf(q)'
      BY <1>0, <1>1, <1>2, <1>3, <2>2, <3>0, <3>1, OthersAsk DEF LateOf
    <3>6. Parted(q)'
      BY <1>2, <3>1 DEF Parted, Holders, Inside
    <3> QED BY <3>2, <3>3, <3>4, <3>5, <3>6
  <2> QED BY <2>1, <2>2
<1>8. Kept'
  BY <1>0, <1>2 DEF Known, Kept, Good, Forgiven, NoToken
<1>9. InGrace'
  <2> SUFFICES ASSUME Superseded', ~Forgiven'
               PROVE  LossTold' /\ LeftAlone' /\ \A q \in Holders' : Retried(q)'
    BY DEF InGrace
  <2>0. ~raced'
    BY DEF Superseded, Good
  <2>1. LossTold /\ LeftAlone
    BY <1>0, <1>2, <2>0 DEF Known, InGrace, Superseded, Forgiven, Good
  <2>2. file.device \in Grants /\ prevAge[file.device] \in Int
    BY <1>0 DEF Superseded
  <2>3. LossTold'
    BY <1>0, <1>2, <2>0, <2>1 DEF LossTold, Won, Holders, Inside
  <2>4. LeftAlone'
    BY <1>1 DEF LeftAlone
  <2>5. prevAge[file.device] <= Stale + 1
    BY <1>0, <1>2, <2>0, <2>1 DEF LeftAlone
  <2>6. Retried(p)'
    BY <1>0, <1>1, <2>2, <2>5 DEF Retried, Hopeful
  <2> QED BY <1>2, <2>0, <2>3, <2>4, <2>6
<1> QED BY <1>4, <1>5, <1>6, <1>7, <1>8, <1>9 DEF Known

LEMMA LockKnown ==
  ASSUME DeviceLoginAssumption, IInv, Known, NEW p \in Ticks,
         Load(p) \/ Lock(p) \/ Reclaim(p) \/ Relock(p)
  PROVE  Known'
<1> USE Types
<1>1. at[p] \in {"loaded", "reclaim", "relock"} => ~Asking(p)
  BY DEF Known, EachProcess, AskedBy
<1>2. CASE Load(p)
  <2>1. /\ Go(p, "loaded") /\ at[p] = "idle" /\ ~Asking(p) /\ file # NoToken
        /\ snap' = [snap EXCEPT ![p] = file] /\ lock' = lock
        /\ UNCHANGED <<serverVars, file, busy, netVars, userVars, faults, ghosts>>
    BY <1>2 DEF Load, Go, Asking, NeedsRefresh, NoToken
  <2> QED BY <2>1, OutsideKnown
<1>3. ASSUME NEW stage \in {"idle", "reclaim", "relock"}, Go(p, stage),
             at[p] \in {"loaded", "reclaim", "relock"}, lock' \in {lock, -1},
             UNCHANGED <<serverVars, file, snap, busy, netVars, userVars, faults, ghosts>>
      PROVE  Known'
  <2>1. snap' = [snap EXCEPT ![p] = snap[p]]
    BY <1>3
  <2>2. at[p] \in {"idle", "loaded", "reclaim", "relock"} /\ at[p] # "idle"
        /\ stage \in {"idle", "loaded", "reclaim", "relock"}
    BY <1>3
  <2> QED BY <1>1, <1>3, <2>1, <2>2, OutsideKnown
<1>4. CASE Reclaim(p)
  BY <1>3, <1>4 DEF Reclaim
<1>5. CASE Lock(p) \/ Relock(p)
  <2>1. at[p] \in {"loaded", "relock"}
        /\ UNCHANGED <<serverVars, file, snap, netVars, userVars, faults, away>>
    BY <1>5 DEF Lock, Relock
  <2>2. CASE TakeLock(p)
    BY <2>1, <2>2, TakeLockKnown
  <2>3. ASSUME UNCHANGED <<lock, busy, raced>>, NEW stage \in {"idle", "reclaim"}, Go(p, stage)
        PROVE  Known'
    BY <1>3, <2>1, <2>3 DEF ghosts
  <2> QED BY <1>5, <2>2, <2>3 DEF Lock, Relock
<1> QED BY <1>2, <1>4, <1>5

-----------------------------------------------------------------------------
(* A request and its answer.                                               *)

\* What is told of the others when process p moves and is the only holder.
LEMMA OthersKnown ==
  ASSUME Known, NEW p \in Ticks, at[p] \in Inside, NEW q \in Ticks, q # p,
         at'[q] = at[q], snap'[q] = snap[q], request'[q] = request[q], answer'[q] = answer[q],
         faults' \in Int, faults \in Int, faults >= 0, faults' >= faults, raced' = raced
  PROVE  /\ AskedBy(q)' /\ WaitsWell(q)' /\ SeesFile(q)' /\ Parted(q)'
         /\ ~raced => at[q] # "waiting" /\ at'[q] # "waiting" /\ ~Won(q) /\ ~Won(q)'
<1>1. AskedBy(q)
  BY DEF Known, EachProcess
<1>2. AskedBy(q)'
  BY <1>1, OthersAsk DEF AskedBy, Refresh, Silent
<1>3. ~raced => at[q] # "waiting"
  BY OnlyHolder DEF Inside
<1> QED BY <1>2, <1>3 DEF WaitsWell, SeesFile, Parted, Good, Won

\* The token is read again under the lock, and posted or left.
LEMMA PostKnown ==
  ASSUME DeviceLoginAssumption, IInv, Known, NEW p \in Ticks, Post(p)
  PROVE  Known'
<1> USE Types, Constants
<1> DEFINE t == Reading(p)
<1>0. /\ UNCHANGED <<grant, revoked, minted, cur, prev, prevAge, file, lock, busy, login, logout,
                     faults, raced, away>>
      /\ at[p] = "locked" /\ snap' = [snap EXCEPT ![p] = t] /\ snap'[p] = t
      /\ \A q \in Ticks \ {p} : snap'[q] = snap[q]
  BY DEF Post, serverVars, userVars, ghosts
<1>1. /\ at'[p] \in {"waiting", "done"} /\ (at'[p] = "waiting" <=> NeedsRefresh(t))
      /\ \A q \in Ticks \ {p} : at'[q] = at[q] /\ request'[q] = request[q] /\ answer'[q] = answer[q]
  BY DEF Post, Go, netVars
<1>2. NeedsRefresh(t) => request'[p] = Refresh(t.device, t.refresh) /\ answer'[p] = Silent
  BY DEF Post
<1>3. ~NeedsRefresh(t) => request'[p] = request[p] /\ answer'[p] = answer[p]
  BY DEF Post, netVars
<1>4. Holders' = Holders /\ p \in Holders
  BY <1>0, <1>1 DEF Holders, Inside
<1>5. ~raced => t = file /\ file # NoToken
  BY <1>0 DEF Known, OneHolder, Reading
<1>6. ~Asking(p) /\ ~Won(p) /\ ~Won(p)' /\ ~Late(p)'
  <2>1. ~Asking(p) /\ ~Won(p)
    BY <1>0 DEF Known, EachProcess, AskedBy, Won
  <2>2. ~Won(p)'
    BY <1>1, <1>2 DEF Won, Silent
  <2>3. ~Late(p)'
    BY <1>1, <1>3, <2>1 DEF Late, Asking
  <2> QED BY <2>1, <2>2, <2>3
<1>7. t \in {file, snap[p]}
  BY DEF Reading
<1>8. NewDevices'
  <2>1. ASSUME NEW d \in Grants, Untouched(d) PROVE Untouched(d)'
    <3>1. t.device # d
      BY <1>7, <2>1 DEF Untouched
    <3>2. request'[p].device # d
      BY <1>2, <1>3, <2>1, <3>1 DEF Untouched, Refresh
    <3> QED BY <1>0, <1>1, <2>1, <3>1, <3>2 DEF Untouched
  <2> QED BY <1>0, <2>1 DEF Known, NewDevices, Unknown
<1>9. Chain'
  BY <1>0 DEF Known, Chain
<1>10. OneHolder'
  BY <1>0, <1>4, <1>5 DEF Known, OneHolder, NoToken
<1>11. ~raced /\ NeedsRefresh(t) /\ Good(file.device) =>
         /\ file.refresh \in {cur[file.device], prev[file.device]} /\ file.refresh # 0 /\ ~file.fresh
         /\ file.refresh # cur[file.device] => Forgiven \/ prevAge[file.device] <= Stale + 1 + busy[p]
  <2> SUFFICES ASSUME ~raced, NeedsRefresh(t), Good(file.device)
               PROVE  /\ file.refresh \in {cur[file.device], prev[file.device]} /\ file.refresh # 0
                      /\ ~file.fresh
                      /\ file.refresh # cur[file.device] =>
                           Forgiven \/ prevAge[file.device] <= Stale + 1 + busy[p]
    OBVIOUS
  <2>1. file.refresh # 0 /\ ~file.fresh /\ file.device \in Grants
    BY <1>5 DEF NeedsRefresh
  <2>2. file.refresh \in {cur[file.device], prev[file.device]}
    BY <1>5, <2>1 DEF Known, Kept
  <2>3. ASSUME file.refresh # cur[file.device], ~Forgiven
        PROVE  prevAge[file.device] <= Stale + 1 + busy[p]
    <3>1. Retried(p)
      BY <1>4, <2>1, <2>3 DEF Known, InGrace, Superseded
    <3>2. prevAge[file.device] \in Int /\ busy[p] \in Int /\ Stale \in Nat
      BY <2>1
    <3> QED BY <3>1, <3>2 DEF Retried
  <2> QED BY <2>1, <2>2, <2>3
<1>12. EachProcess'
  <2> SUFFICES ASSUME NEW q \in Ticks 
               PROVE (AskedBy(q) /\ WaitsWell(q) /\ SeesFile(q) /\ LateOf(q) /\ Parted(q))'
    BY DEF EachProcess
  <2>1. CASE q = p
    <3>1. AskedBy(p)'
      <4>1. CASE NeedsRefresh(t)
        <5>1. at'[p] = "waiting" /\ request'[p] = Refresh(t.device, t.refresh) /\ answer'[p] = Silent
              /\ ~t.fresh
          BY <1>1, <1>2, <4>1 DEF NeedsRefresh
        <5> QED BY <1>0, <1>6, <5>1 DEF AskedBy, Asks
      <4>2. CASE ~NeedsRefresh(t)
        <5>1. at'[p] = "done" /\ ~Asking(p)'
          BY <1>1, <1>3, <1>6, <4>2 DEF Asking, NoRefresh, Refresh
        <5> QED BY <1>6, <5>1 DEF AskedBy, Asks
      <4> QED BY <4>1, <4>2
    <3>2. WaitsWell(p)'
      <4> SUFFICES ASSUME at'[p] = "waiting", Good(snap[p].device)' PROVE WaitsWell(p)'
        BY DEF WaitsWell
      <4>1. ~raced /\ NeedsRefresh(t) /\ t = file /\ Good(file.device) /\ answer'[p].status = "none"
        BY <1>0, <1>1, <1>2, <1>5 DEF Good, Silent
      <4> QED BY <1>0, <1>6, <1>11, <4>1 DEF WaitsWell, Forgiven
    <3>3. SeesFile(p)'
      BY <1>0, <1>5 DEF SeesFile
    <3>4. Parted(p)'
      BY <1>0, <1>5 DEF Parted
    <3> QED BY <1>6, <2>1, <3>1, <3>2, <3>3, <3>4 DEF LateOf
  <2>2. CASE q # p
    <3>0. AskedBy(q)' /\ WaitsWell(q)' /\ SeesFile(q)' /\ Parted(q)'
          /\ (~raced => at[q] # "waiting" /\ at'[q] # "waiting")
      BY <1>0, <1>1, <2>2, OthersKnown DEF Inside
    <3>1. LateOf(q)'
      <4> SUFFICES ASSUME ~raced, Late(q)' PROVE LateOf(q)'
        BY <1>0 DEF LateOf
      <4>1. Late(q) /\ LateOf(q) /\ request'[q] = request[q]
        BY <1>1, <2>2, OthersAsk DEF Known, EachProcess
      <4>2. \A r \in Ticks \ {p} : at'[r] # "waiting"
        BY <1>0, <1>1, OthersKnown DEF Inside
      <4>3. at'[p] = "waiting" => snap'[p] = file /\ file.refresh # 0
        BY <1>0, <1>1, <1>5 DEF NeedsRefresh
      <4>4. /\ file.device = request[q].device /\ file.refresh # 0 =>
                 /\ request[q].refresh <= file.refresh
                 /\ file.fresh => request[q].refresh < file.refresh
        BY <4>1 DEF LateOf
      <4>5. \A r \in Ticks : at'[r] = "waiting" /\ snap'[r].device = request[q].device =>
               request[q].refresh <= snap'[r].refresh
        BY <4>2, <4>3, <4>4
      <4> QED BY <1>0, <4>1, <4>4, <4>5 DEF LateOf
    <3> QED BY <3>0, <3>1
  <2> QED BY <2>1, <2>2
<1>13. Kept'
  BY <1>0 DEF Known, Kept, Good, Forgiven, NoToken
<1>14. InGrace'
  <2> SUFFICES ASSUME Superseded', ~Forgiven'
               PROVE  LossTold' /\ LeftAlone' /\ \A q \in Holders' : Retried(q)'
    BY DEF InGrace
  <2>0. ~raced /\ Superseded /\ ~Forgiven /\ Good(file.device)
    BY <1>0 DEF Superseded, Forgiven, Good
  <2>1. LossTold /\ \A q \in Holders : Retried(q)
    BY <2>0 DEF Known, InGrace
  <2>2. \A q \in Holders : q \in Ticks /\ q = p
    BY <1>0, <2>0, OnlyHolder DEF Holders, Inside
  <2>3. NeedsRefresh(t)
    BY <1>5, <2>0 DEF Known, Kept, Superseded, NeedsRefresh
  <2>4. Asks(p)'
    BY <1>1, <1>2, <2>3 DEF Asks, Asking, Refresh, NoRefresh, NeedsRefresh
  <2>5. Retried(p)'
    BY <1>0, <1>4, <2>1, <2>4 DEF Retried, Hopeful
  <2>6. LossTold'
    <3>1. \A q \in Ticks : ~Won(q)
      BY <1>4, <1>6, <2>2 DEF Won, Holders, Inside
    <3> QED BY <1>0, <2>1, <3>1 DEF LossTold
  <2> QED BY <1>4, <2>2, <2>5, <2>6 DEF LeftAlone
<1> QED BY <1>8, <1>9, <1>10, <1>12, <1>13, <1>14 DEF Known

\* What holds when process p, the only holder, has put its answer in the file
\* or left it: the end of a refresh.
LEMMA EndsKnown ==
  ASSUME DeviceLoginAssumption, IInv, Known, NEW p \in Ticks,
         at[p] = "waiting", Go(p, "done"),
         UNCHANGED <<serverVars, lock, snap, busy, netVars, userVars, ghosts>>,
         faults' \in Int, faults' >= faults, Asking(p) => faults' > faults,
         NewDevices', Kept', InGrace', ~raced => file' # NoToken,
         \A q \in Ticks : LateOf(q)'
  PROVE  Known'
<1> USE Types, Constants
<1>0. /\ UNCHANGED <<grant, revoked, minted, cur, prev, prevAge, lock, login, logout, raced, away>>
      /\ request' = request /\ answer' = answer /\ snap' = snap /\ busy' = busy
      /\ at'[p] = "done" /\ at[p] \in Inside
      /\ \A q \in Ticks \ {p} : at'[q] = at[q]
  BY DEF serverVars, netVars, userVars, ghosts, Go, Inside
<1>1. Holders' = Holders /\ p \in Holders
  BY <1>0 DEF Holders, Inside
<1>2. Chain'
  BY <1>0 DEF Known, Chain
<1>3. OneHolder'
  BY <1>0, <1>1 DEF Known, OneHolder
<1>4. ASSUME NEW q \in Ticks PROVE AskedBy(q)' /\ WaitsWell(q)' /\ SeesFile(q)' /\ Parted(q)'
  <2>1. CASE q = p
    <3>1. at'[p] = "done" /\ ~Asks(p)' /\ ~Won(p)' /\ (Asking(p)' => faults' # 0)
      BY <1>0 DEF Asks, Won, Asking, NoRefresh, Refresh
    <3> QED BY <1>0, <2>1, <3>1 DEF AskedBy, WaitsWell, SeesFile, Parted
  <2>2. CASE q # p
    BY <1>0, <2>2, OthersKnown
  <2> QED BY <2>1, <2>2
<1> QED BY <1>2, <1>3, <1>4 DEF Known, EachProcess

LEMMA AnsweredKnown ==
  ASSUME DeviceLoginAssumption, IInv, Known, NEW p \in Ticks, Answered(p)
  PROVE  Known'
<1> USE Types, Constants
<1> DEFINE s == snap[p]
           k == answer[p].refresh
<1>0. /\ UNCHANGED <<grant, revoked, minted, cur, prev, prevAge, lock, snap, busy, login, logout,
                     faults, raced, away>>
      /\ request' = request /\ answer' = answer
      /\ at[p] = "waiting" /\ at[p] \in Inside /\ answer[p].status # "none" /\ at'[p] = "done"
      /\ \A q \in Ticks \ {p} : at'[q] = at[q]
  BY DEF Answered, serverVars, netVars, userVars, ghosts, Go, Inside
<1>1. ~Asking(p) /\ ~Late(p)' /\ ~Asks(p)
  BY <1>0 DEF Known, EachProcess, AskedBy, Asks, Silent, Late, Asking, NoRefresh, Refresh
<1>2. s \in Token /\ s.device \in Grants /\ s.refresh # 0 /\ s.refresh \in Int /\ k \in Int
  BY <1>0
<1>3. Holders' = Holders /\ p \in Holders
  BY <1>0 DEF Holders, Inside
<1>4. \/ Won(p) /\ file' = [s EXCEPT !.refresh = k, !.fresh = TRUE]
      \/ answer[p].status = "invalid_grant" /\ file' = [s EXCEPT !.refresh = 0]
      \/ answer[p].status = "server_error" /\ file' = file
  BY <1>0 DEF Answered, Won, Answer
<1>5. \/ Won(p) /\ file'.device = s.device /\ file'.refresh = k /\ file'.fresh
      \/ answer[p].status = "invalid_grant" /\ file'.device = s.device /\ file'.refresh = 0
      \/ answer[p].status = "server_error" /\ file' = file
  BY <1>2, <1>4 DEF Token
<1>6. AskedBy(p) /\ WaitsWell(p)
  BY DEF Known, EachProcess
<1>7. ~raced => file' # NoToken
  BY <1>0, <1>2, <1>5 DEF Known, OneHolder, NoToken
<1>8. NewDevices'
  <2>1. ASSUME NEW d \in Grants, Untouched(d) PROVE Untouched(d)'
    <3>1. file'.device # d
      BY <1>5, <2>1 DEF Untouched
    <3> QED BY <1>0, <2>1, <3>1 DEF Untouched
  <2> QED BY <1>0, <2>1 DEF Known, NewDevices, Unknown
<1>9. Kept'
  <2>1. CASE Won(p)
    <3>1. file'.device = s.device /\ file'.refresh = k /\ file'.fresh /\ k # 0
      BY <1>2, <1>5, <1>6, <2>1 DEF Won, AskedBy
    <3>2. Good(s.device) => k = cur[s.device]
      BY <1>6, <2>1 DEF WaitsWell, Won
    <3> QED BY <1>0, <1>2, <3>1, <3>2 DEF Kept, Good
  <2>2. CASE answer[p].status = "invalid_grant"
    <3>1. file'.device = s.device /\ file'.refresh = 0
      BY <1>5, <2>2 DEF Won
    <3> QED BY <1>0, <1>2, <1>6, <2>2, <3>1 DEF Kept, WaitsWell, Good, Forgiven
  <2>3. CASE file' = file
    BY <1>0, <2>3 DEF Known, Kept, Good, Forgiven, NoToken
  <2> QED BY <1>5, <2>1, <2>2, <2>3
<1>10. ASSUME NEW q \in Ticks PROVE LateOf(q)'
  <2> SUFFICES ASSUME ~raced, Late(q)', q # p PROVE LateOf(q)'
    BY <1>0, <1>1 DEF LateOf
  <2>1. Late(q) /\ LateOf(q) /\ request'[q] = request[q]
    BY <1>0, OthersAsk DEF Known, EachProcess
  <2>2. \A r \in Ticks : at'[r] # "waiting"
    BY <1>0, OnlyHolder DEF Inside
  <2>3. request[q].device = s.device => request[q].refresh <= s.refresh
    BY <1>0, <2>1 DEF LateOf
  <2>4. CASE Won(p)
    <3>1. file'.device = s.device /\ file'.refresh = k /\ s.refresh < k
      BY <1>5, <1>6, <2>4 DEF Won, AskedBy
    <3>2. request[q].device = s.device => request[q].refresh < k
      BY <1>2, <2>3, <3>1
    <3> QED BY <1>2, <2>1, <2>2, <3>1, <3>2 DEF LateOf
  <2>5. CASE answer[p].status = "invalid_grant"
    BY <1>5, <2>2, <2>5 DEF LateOf, Won
  <2>6. CASE file' = file
    BY <2>1, <2>2, <2>6 DEF LateOf
  <2> QED BY <1>5, <2>4, <2>5, <2>6
<1>11. InGrace'
  <2> SUFFICES ASSUME Superseded', ~Forgiven'
               PROVE  LossTold' /\ LeftAlone' /\ \A q \in Holders' : Retried(q)'
    BY DEF InGrace
  <2>1. answer[p].status = "server_error" /\ file' = file /\ ~Won(p)
    <3>1. CASE Won(p)
      BY <1>0, <1>5, <1>6, <3>1 DEF Superseded, Good, WaitsWell, Won
    <3>2. CASE answer[p].status = "invalid_grant"
      BY <1>5, <3>2 DEF Superseded, Won
    <3> QED BY <1>5, <3>1, <3>2 DEF Won
  <2>2. ~raced /\ Superseded /\ ~Forgiven
    BY <1>0, <2>1 DEF Superseded, Forgiven, Good
  <2>3. \A q \in Ticks : at[q] \in Inside => q = p
    BY <1>0, <2>2, OnlyHolder
  <2>4. LossTold /\ Retried(p)
    BY <1>3, <2>2 DEF Known, InGrace
  <2>5. LossTold'
    BY <1>0, <2>1, <2>3, <2>4 DEF LossTold, Won, Inside
  <2>6. prevAge[file.device] <= busy[p]
    BY <1>0, <1>1, <2>1, <2>4 DEF Retried, Hopeful
  <2>7. \A q \in Holders' : q = p
    BY <1>3, <2>3 DEF Holders
  <2> QED BY <1>0, <1>3, <2>1, <2>5, <2>6, <2>7 DEF LeftAlone, Retried
<1> QED BY <1>0, <1>1, <1>7, <1>8, <1>9, <1>10, <1>11, EndsKnown DEF Answered

\* What becomes of a late request, and of those there are, when process p stops
\* to wait for its own.
LEMMA LateMore ==
  ASSUME DeviceLoginAssumption, IInv, Known, NEW p \in Ticks,
         at'[p] # "waiting", \A q \in Ticks \ {p} : at'[q] = at[q] /\ snap'[q] = snap[q],
         UNCHANGED <<file, netVars, raced>>
  PROVE  \A q \in Ticks : LateOf(q)'
<1> USE Types
<1>0. request' = request /\ file' = file /\ raced' = raced
  BY DEF netVars
<1> SUFFICES ASSUME NEW q \in Ticks, ~raced, Late(q)' PROVE LateOf(q)'
  BY <1>0 DEF LateOf
<1>1. Asking(q)
  BY <1>0 DEF Late, Asking, NoRefresh, Refresh
<1>2. \A r \in Ticks : at'[r] = "waiting" => at[r] = "waiting" /\ snap'[r] = snap[r] /\ r # p
  OBVIOUS
<1>3. CASE Late(q)
  <2>1. LateOf(q)
    BY DEF Known, EachProcess
  <2> QED BY <1>0, <1>2, <1>3, <2>1 DEF LateOf
<1>4. CASE q = p /\ at[p] = "waiting"
  <2>1. request[p] = Refresh(snap[p].device, snap[p].refresh) /\ ~snap[p].fresh
    BY <1>1, <1>4 DEF Known, EachProcess, AskedBy, Asks
  <2>2. request[p].device = snap[p].device /\ request[p].refresh = snap[p].refresh
    BY <2>1 DEF Refresh
  <2>3. file.device = request[p].device => file = snap[p]
    BY <1>4, <2>2 DEF Known, EachProcess, SeesFile
  <2>4. \A r \in Ticks : at'[r] # "waiting"
    BY <1>2, <1>4, OnlyHolder DEF Inside
  <2> QED BY <1>0, <1>4, <2>1, <2>2, <2>3, <2>4 DEF LateOf
<1>5. at[q] = "waiting" => q = p
  BY DEF Late
<1> QED BY <1>1, <1>3, <1>4, <1>5 DEF Late

LEMMA AbortKnown ==
  ASSUME DeviceLoginAssumption, IInv, Known, NEW p \in Ticks, Abort(p)
  PROVE  Known'
<1> USE Types, Constants
<1>0. /\ UNCHANGED <<grant, revoked, minted, cur, prev, prevAge, file, lock, snap, busy, login, logout,
                     raced, away>>
      /\ UNCHANGED netVars
      /\ at[p] = "waiting" /\ at[p] \in Inside /\ answer[p].status = "none" /\ at'[p] = "done"
      /\ \A q \in Ticks \ {p} : at'[q] = at[q]
      /\ faults' \in Int /\ faults' >= faults
      /\ IF Asking(p) THEN faults' = faults + 1 ELSE faults' = faults
  BY DEF Abort, serverVars, userVars, ghosts, Go, Inside, Asking
<1>1. Holders' = Holders /\ p \in Holders
  BY <1>0 DEF Holders, Inside
<1>2. NewDevices'
  BY <1>0 DEF Known, NewDevices, Unknown, Untouched, netVars
<1>3. Kept' /\ (~raced => file' # NoToken)
  BY <1>0 DEF Known, OneHolder, Kept, Good, Forgiven, NoToken
<1>4. \A q \in Ticks : LateOf(q)'
  BY <1>0, LateMore
<1>5. InGrace'
  <2> SUFFICES ASSUME Superseded', ~Forgiven'
               PROVE  LossTold' /\ LeftAlone' /\ \A q \in Holders' : Retried(q)'
    BY DEF InGrace
  <2>1. ~raced /\ Superseded /\ ~Forgiven
    BY <1>0 DEF Superseded, Forgiven, Good
  <2>2. \A q \in Ticks : at[q] \in Inside => q = p
    BY <1>0, <2>1, OnlyHolder
  <2>3. LossTold /\ Retried(p)
    BY <1>1, <2>1 DEF Known, InGrace
  <2>4. faults # 0
    BY <1>0, <2>2, <2>3 DEF LossTold, Won, Inside
  <2>5. ~Asking(p) /\ faults' = faults
    BY <1>0, <2>4 DEF Forgiven
  <2>6. prevAge[file.device] <= busy[p]
    BY <1>0, <2>3, <2>5 DEF Retried, Hopeful, Asks, Won
  <2>7. \A q \in Holders' : q = p
    BY <1>1, <2>2 DEF Holders
  <2> QED BY <1>0, <1>1, <2>4, <2>5, <2>6, <2>7 DEF LossTold, LeftAlone, Retried
<1> QED BY <1>0, <1>2, <1>3, <1>4, <1>5, EndsKnown DEF Abort

LEMMA UnlockKnown ==
  ASSUME DeviceLoginAssumption, IInv, Known, NEW p \in Ticks, Unlock(p)
  PROVE  Known'
<1> USE Types, Constants
<1>0. /\ UNCHANGED <<grant, revoked, minted, cur, prev, prevAge, file, login, logout, faults, raced, away>>
      /\ UNCHANGED netVars /\ request' = request /\ answer' = answer
      /\ at[p] = "done" /\ at[p] \in Inside /\ at'[p] = "idle" /\ lock' = -1 /\ snap'[p] = NoToken
      /\ \A q \in Ticks \ {p} : at'[q] = at[q] /\ snap'[q] = snap[q] /\ busy'[q] = busy[q]
  BY DEF Unlock, serverVars, userVars, netVars, ghosts, Go, Inside
<1>1. Holders' = Holders \ {p} /\ p \in Holders
  BY <1>0 DEF Holders, Inside
<1>2. ~raced => Holders' = {}
  BY <1>1, OnlyHolder DEF Holders
<1>3. NewDevices'
  <2>1. ASSUME NEW d \in Grants, Untouched(d) PROVE Untouched(d)'
    BY <1>0, <2>1 DEF Untouched, NoToken
  <2> QED BY <1>0, <2>1 DEF Known, NewDevices, Unknown
<1>4. Chain' /\ OneHolder'
  BY <1>0, <1>2 DEF Known, Chain, OneHolder, NoToken
<1>5. \A q \in Ticks : LateOf(q)'
  BY <1>0, LateMore
<1>6. EachProcess'
  <2> SUFFICES ASSUME NEW q \in Ticks PROVE AskedBy(q)' /\ WaitsWell(q)' /\ SeesFile(q)' /\ Parted(q)'
    BY <1>5 DEF EachProcess
  <2>1. CASE q = p
    <3>1. AskedBy(p)
      BY DEF Known, EachProcess
    <3>2. at'[p] = "idle" /\ ~Asks(p)' /\ ~Won(p)' /\ (Asking(p)' <=> Asking(p))
      BY <1>0 DEF Asks, Won, Asking, NoRefresh, Refresh
    <3> QED BY <1>0, <2>1, <3>1, <3>2 DEF AskedBy, WaitsWell, SeesFile, Parted
  <2>2. CASE q # p
    BY <1>0, <2>2, OthersKnown
  <2> QED BY <2>1, <2>2
<1>7. Kept'
  BY <1>0 DEF Known, Kept, Good, Forgiven, NoToken
<1>8. InGrace'
  <2> SUFFICES ASSUME Superseded', ~Forgiven'
               PROVE  LossTold' /\ LeftAlone' /\ \A q \in Holders' : Retried(q)'
    BY DEF InGrace
  <2>1. ~raced /\ Superseded /\ ~Forgiven
    BY <1>0 DEF Superseded, Forgiven, Good
  <2>2. LossTold /\ Retried(p)
    BY <1>1, <2>1 DEF Known, InGrace
  <2>3. \A q \in Ticks : ~Won(q)
    BY <1>0, <2>1, OnlyHolder DEF Won, Inside
  <2>4. prevAge[file.device] <= busy[p] /\ busy[p] <= Timeout /\ Timeout < Stale
    BY <1>0, <2>2, <2>3 DEF Retried, Hopeful, Asks, DeviceLoginAssumption
  <2>5. prevAge[file.device] \in Int
    BY <2>1 DEF Superseded
  <2>6. LossTold' /\ LeftAlone'
    BY <1>0, <2>2, <2>3, <2>4, <2>5 DEF LossTold, LeftAlone
  <2> QED BY <1>2, <2>1, <2>6
<1> QED BY <1>3, <1>4, <1>6, <1>7, <1>8 DEF Known

\* A process that dies leaves its lock, and its request on the way.
LEMMA DieKnown ==
  ASSUME DeviceLoginAssumption, IInv, Known, NEW p \in Ticks, Die(p)
  PROVE  Known'
<1> USE Types, Constants
<1>0. /\ UNCHANGED <<grant, revoked, minted, cur, prev, prevAge, file, lock, login, logout, raced, away>>
      /\ UNCHANGED netVars /\ request' = request /\ answer' = answer
      /\ at[p] # "idle" /\ at'[p] = "idle" /\ snap'[p] = NoToken /\ faults' = faults + 1
      /\ \A q \in Ticks \ {p} : at'[q] = at[q] /\ snap'[q] = snap[q] /\ busy'[q] = busy[q]
  BY DEF Die, serverVars, userVars, netVars, ghosts, Go
<1>1. Holders' = Holders \ {p}
  BY <1>0 DEF Holders, Inside
<1>2. faults' \in Int /\ faults' >= 1
  BY <1>0
<1>3. NewDevices'
  <2>1. ASSUME NEW d \in Grants, Untouched(d) PROVE Untouched(d)'
    BY <1>0, <2>1 DEF Untouched, NoToken
  <2> QED BY <1>0, <2>1 DEF Known, NewDevices, Unknown
<1>4. Chain' /\ OneHolder'
  <2>1. \A q \in Holders' : q \in Holders /\ busy'[q] = busy[q]
    BY <1>0, <1>1 DEF Holders
  <2> QED BY <1>0, <2>1 DEF Known, Chain, OneHolder, NoToken
<1>5. \A q \in Ticks : LateOf(q)'
  BY <1>0, LateMore
<1>6. EachProcess'
  <2> SUFFICES ASSUME NEW q \in Ticks PROVE AskedBy(q)' /\ WaitsWell(q)' /\ SeesFile(q)' /\ Parted(q)'
    BY <1>5 DEF EachProcess
  <2>1. CASE q = p
    <3>1. at'[p] = "idle" /\ ~Asks(p)' /\ ~Won(p)'
      BY <1>0 DEF Asks, Won
    <3> QED BY <1>0, <1>2, <2>1, <3>1 DEF AskedBy, WaitsWell, SeesFile, Parted
  <2>2. CASE q # p
    <3>0. AskedBy(q) /\ WaitsWell(q) /\ SeesFile(q) /\ Parted(q)
      BY DEF Known, EachProcess
    <3>1. at'[q] = at[q] /\ snap'[q] = snap[q] /\ busy'[q] = busy[q]
      BY <1>0, <2>2
    <3>2. AskedBy(q)'
      BY <1>0, <1>2, <2>2, <3>0, <3>1, OthersAsk DEF AskedBy, Refresh, Silent
    <3>3. WaitsWell(q)'
      BY <1>0, <2>2, <3>0, <3>1, OthersAsk DEF WaitsWell, Good, Forgiven
    <3>4. SeesFile(q)'
      BY <1>0, <3>0, <3>1 DEF SeesFile
    <3>5. Parted(q)'
      BY <1>0, <3>0, <3>1 DEF Parted, Superseded, Good, Asking, NoRefresh, Refresh
    <3> QED BY <3>2, <3>3, <3>4, <3>5
  <2> QED BY <2>1, <2>2
<1>7. Kept'
  BY <1>0 DEF Known, Kept, Good, Forgiven, NoToken
<1>8. InGrace'
  <2> SUFFICES ASSUME Superseded', ~Forgiven'
               PROVE  LossTold' /\ LeftAlone' /\ \A q \in Holders' : Retried(q)'
    BY DEF InGrace
  <2>1. ~raced /\ Superseded /\ ~Forgiven /\ faults = 0
    BY <1>0 DEF Superseded, Forgiven, Good
  <2>2. PICK r \in Ticks : Won(r) /\ prevAge[file.device] <= busy[r]
    BY <2>1 DEF Known, InGrace, LossTold
  <2>3. r \in Holders /\ \A q \in Holders : q = r
    BY <2>1, <2>2, OnlyHolder DEF Won, Holders, Inside
  <2>4. LossTold'
    BY <1>2 DEF LossTold
  <2>5. LeftAlone'
    <3>1. prevAge[file.device] \in Int /\ Timeout < Stale /\ busy[r] <= Timeout
      BY <2>1 DEF Superseded, DeviceLoginAssumption
    <3>2. lock = -1 \/ busy[r] <= lock
      BY <2>1, <2>3 DEF Known, OneHolder
    <3> QED BY <1>0, <2>2, <3>1, <3>2 DEF LeftAlone
  <2>6. ASSUME NEW q \in Holders' PROVE Retried(q)'
    <3>1. q = r /\ q # p /\ q \in Ticks
      BY <1>1, <2>3, <2>6 DEF Holders
    <3> QED BY <1>0, <2>2, <3>1 DEF Retried
  <2> QED BY <2>4, <2>5, <2>6
<1> QED BY <1>3, <1>4, <1>6, <1>7, <1>8 DEF Known

-----------------------------------------------------------------------------
(* The server, the network and the clock.                                  *)

\* A token that a process waits with in good time is accepted.
LEMMA InTimeAccepted ==
  ASSUME DeviceLoginAssumption, IInv, Known, NEW p \in Ticks, Asks(p),
         Good(snap[p].device), ~Forgiven
  PROVE  Accepted(snap[p].device, snap[p].refresh)
<1> USE Types
<1> DEFINE d == snap[p].device
           m == snap[p].refresh
<1>1. at[p] = "waiting" /\ d \in Grants /\ Asking(p)
  BY DEF Asks
<1>2. /\ m \in {cur[d], prev[d]}
      /\ m # cur[d] => prevAge[d] <= Stale + 1 + busy[p]
  BY <1>1 DEF Known, EachProcess, WaitsWell
<1>3. prevAge[d] \in Int /\ busy[p] <= Timeout /\ busy[p] \in Int
  BY <1>1
<1>4. m # cur[d] => prevAge[d] < Grace
  BY <1>2, <1>3 DEF DeviceLoginAssumption
<1> QED BY <1>2, <1>4 DEF Accepted, IsCurrent, IsPrevious, Good

\* What the server does with the request of process p, for the token n of d.
ServedFrame(p) ==
  /\ UNCHANGED <<grant, revoked, file, lock, at, snap, busy, login, logout, away>>
  /\ faults' \in Int /\ faults' >= faults
ServedRequests(p) ==
  /\ Asking(p) /\ ~Asking(p)' /\ request'[p] = NoRefresh
  /\ \A q \in Ticks \ {p} : request'[q] = request[q] /\ answer'[q] = answer[q]
ServedOthers(d) ==
  \A e \in Grants \ {d} : /\ cur'[e] = cur[e] /\ prev'[e] = prev[e]
                          /\ minted'[e] = minted[e] /\ prevAge'[e] = prevAge[e]
ServedToken(d, n) ==
  /\ IsCurrent(d, n) => prev'[d] = n /\ prevAge'[d] = 0
  /\ ~IsCurrent(d, n) => prev'[d] = prev[d] /\ prevAge'[d] = prevAge[d]
  /\ Accepted(d, n) => minted'[d] = minted[d] + 1 /\ cur'[d] = minted[d] + 1
  /\ ~Accepted(d, n) => minted'[d] = minted[d] /\ cur'[d] = cur[d]
ServedAnswer(p, d, n) ==
  \/ faults' = faults /\ Accepted(d, n)
     /\ answer'[p] = [status |-> "ok", refresh |-> minted[d] + 1]
  \/ faults' = faults /\ ~Accepted(d, n)
     /\ answer'[p] = [status |-> "invalid_grant", refresh |-> 0]
  \/ faults' = faults + 1 /\ answer'[p] = [status |-> "server_error", refresh |-> 0]
ServedWaiter(p, d, n) ==
  at[p] = "waiting" =>
    /\ snap[p].device = d /\ snap[p].refresh = n /\ ~snap[p].fresh /\ ~Won(p)
    /\ ServedAnswer(p, d, n)
Served(p, d, n) ==
  /\ d = request[p].device /\ n = request[p].refresh /\ d \in Grants /\ n \in Int
  /\ raced' = (raced \/ (at[p] # "waiting" /\ ~IsCurrent(d, n)))
  /\ ServedFrame(p) /\ ServedRequests(p) /\ ServedOthers(d) /\ ServedToken(d, n)
  /\ ServedWaiter(p, d, n)

LEMMA ServeDoes ==
  ASSUME DeviceLoginAssumption, IInv, Known, NEW p \in Ticks, Serve(p)
  PROVE  \E d, n : Served(p, d, n)
<1> DEFINE d == request[p].device
           n == request[p].refresh
<1> USE Types
<1>1. Asking(p) /\ d \in Grants /\ n \in Int
  BY DEF Serve, Asking
<1>2. /\ UNCHANGED <<grant, revoked, file, lock, at, snap, busy, login, logout, away>>
      /\ request' = [request EXCEPT ![p] = NoRefresh]
  BY DEF Serve, procVars, userVars
<1>3. request'[p] = NoRefresh /\ ~Asking(p)'
  BY <1>2 DEF Asking, NoRefresh, Refresh
<1>4. /\ raced' = (raced \/ (at[p] # "waiting" /\ ~IsCurrent(d, n)))
      /\ \/ IsCurrent(d, n) /\ Rotate(d) /\ Mint(d)
         \/ ~IsCurrent(d, n) /\ IsPrevious(d, n) /\ Recover(d) /\ Mint(d)
         \/ ~Accepted(d, n) /\ UNCHANGED <<minted, cur, prev, prevAge>>
  BY DEF Serve
<1>5. \A e \in Grants \ {d} : /\ cur'[e] = cur[e] /\ prev'[e] = prev[e]
                              /\ minted'[e] = minted[e] /\ prevAge'[e] = prevAge[e]
  BY <1>4 DEF Rotate, Recover, Mint
<1>6. IsCurrent(d, n) => prev'[d] = n /\ prevAge'[d] = 0
  BY <1>1, <1>4 DEF IsCurrent, Accepted, Rotate
<1>7. ~IsCurrent(d, n) => prev'[d] = prev[d] /\ prevAge'[d] = prevAge[d]
  BY <1>4 DEF Recover
<1>8. /\ Accepted(d, n) => minted'[d] = minted[d] + 1 /\ cur'[d] = minted[d] + 1
      /\ ~Accepted(d, n) => minted'[d] = minted[d] /\ cur'[d] = cur[d]
  BY <1>1, <1>4 DEF Mint, Accepted
<1>9. \/ faults' = faults /\ Accepted(d, n) /\ Replies(p, "ok", minted[d] + 1)
      \/ faults' = faults /\ ~Accepted(d, n) /\ Replies(p, "invalid_grant", 0)
      \/ faults' = faults + 1 /\ Replies(p, "server_error", 0)
  BY DEF Serve
<1>10. \A q \in Ticks \ {p} : request'[q] = request[q] /\ answer'[q] = answer[q]
  BY <1>2, <1>9 DEF Replies
<1>11. at[p] = "waiting" => ServedAnswer(p, d, n)
  BY <1>9 DEF Replies, ServedAnswer
<1>12. faults' \in Int /\ faults' >= faults
  BY <1>9
<1>13. at[p] = "waiting" =>
         snap[p].device = d /\ snap[p].refresh = n /\ ~snap[p].fresh /\ ~Won(p)
  BY <1>1 DEF Known, EachProcess, AskedBy, Asks, Won, Refresh, Silent
<1>14. ServedFrame(p) /\ ServedRequests(p) /\ ServedOthers(d)
  BY <1>1, <1>2, <1>3, <1>5, <1>10, <1>12 DEF ServedFrame, ServedRequests, ServedOthers
<1>15. ServedToken(d, n) /\ ServedWaiter(p, d, n)
  BY <1>6, <1>7, <1>8, <1>11, <1>13 DEF ServedToken, ServedWaiter
<1>16. Served(p, d, n)
  BY <1>1, <1>4, <1>14, <1>15 DEF Served
<1> QED BY <1>16

LEMMA ServeKnown ==
  ASSUME DeviceLoginAssumption, IInv, Known, NEW p \in Ticks, Serve(p)
  PROVE  Known'
<1> USE Types, Constants
<1>1. PICK d, n : Served(p, d, n)
  BY ServeDoes
<1>2. d = request[p].device /\ n = request[p].refresh /\ d \in Grants /\ n \in Int
  BY <1>1 DEF Served
<1>3. /\ UNCHANGED <<grant, revoked, file, lock, at, snap, busy, login, logout, away>>
      /\ faults' \in Int /\ faults' >= faults
  BY <1>1 DEF Served, ServedFrame
<1>4. /\ Asking(p) /\ ~Asking(p)' /\ request'[p] = NoRefresh
      /\ \A q \in Ticks \ {p} : request'[q] = request[q] /\ answer'[q] = answer[q]
  BY <1>1 DEF Served, ServedRequests
<1>5. \A e \in Grants \ {d} : /\ cur'[e] = cur[e] /\ prev'[e] = prev[e]
                              /\ minted'[e] = minted[e] /\ prevAge'[e] = prevAge[e]
  BY <1>1 DEF Served, ServedOthers
<1>6. raced' = (raced \/ (at[p] # "waiting" /\ ~IsCurrent(d, n)))
  BY <1>1 DEF Served
<1>7. /\ IsCurrent(d, n) => prev'[d] = n /\ prevAge'[d] = 0
      /\ ~IsCurrent(d, n) => prev'[d] = prev[d] /\ prevAge'[d] = prevAge[d]
      /\ Accepted(d, n) => minted'[d] = minted[d] + 1 /\ cur'[d] = minted[d] + 1
      /\ ~Accepted(d, n) => minted'[d] = minted[d] /\ cur'[d] = cur[d]
  BY <1>1 DEF Served, ServedToken
<1>8. at[p] = "waiting" =>
        /\ snap[p].device = d /\ snap[p].refresh = n /\ ~snap[p].fresh /\ ~Won(p)
        /\ ServedAnswer(p, d, n)
  BY <1>1 DEF Served, ServedWaiter
<1>9. Holders' = Holders
  BY <1>3 DEF Holders
<1>10. /\ ~raced' => ~raced
       /\ ~raced' /\ at[p] # "waiting" => IsCurrent(d, n)
       /\ ~Forgiven' => ~Forgiven
       /\ \A e : Good(e)' => Good(e)
  <2>1. ~raced' => ~raced
    BY <1>6
  <2>2. ~raced' /\ at[p] # "waiting" => IsCurrent(d, n)
    BY <1>6
  <2>3. ~Forgiven' => ~Forgiven
    BY <1>3 DEF Forgiven
  <2>4. \A e : Good(e)' => Good(e)
    BY <1>3, <2>1 DEF Good
  <2> QED BY <2>1, <2>2, <2>3, <2>4
<1>11. \A e \in Grants : ~revoked[e] => cur[e] = minted[e] /\ prev[e] <= cur[e]
  BY DEF Known, Chain
<1>12. Accepted(d, n) => ~revoked[d] /\ n <= minted[d] /\ minted[d] \in Int
  BY <1>2, <1>11 DEF Accepted, IsCurrent, IsPrevious
<1>13. IsCurrent(d, n) => Accepted(d, n) /\ n = cur[d]
  BY DEF Accepted, IsCurrent
<1>14. at[p] = "waiting" /\ Good(d) /\ ~Forgiven => Accepted(d, n)
  BY <1>4, <1>8, InTimeAccepted DEF Asks
<1>15. NewDevices'
  <2>1. ASSUME NEW e \in Grants, Untouched(e) PROVE Untouched(e)' /\ e # d
    <3>1. e # d
      BY <1>2, <2>1 DEF Untouched
    <3>2. NoRefresh.device # e
      BY DEF NoRefresh, Refresh
    <3> QED BY <1>3, <1>4, <2>1, <3>1, <3>2 DEF Untouched
  <2>2. login.got # 0 => login.grant \in Grants /\ Untouched(login.grant)
    BY DEF Known, NewDevices, Unknown, IInv, TokensOwned, LoginOwned
  <2> QED BY <1>3, <1>5, <2>1, <2>2 DEF Known, NewDevices, Unknown
<1>16. Chain'
  <2> SUFFICES ASSUME NEW e \in Grants, ~revoked[e] PROVE cur'[e] = minted'[e] /\ prev'[e] <= cur'[e]
    BY <1>3 DEF Chain
  <2>1. CASE e # d
    BY <1>5, <1>11, <2>1
  <2>2. CASE e = d
    BY <1>7, <1>11, <1>12, <1>13, <2>2
  <2> QED BY <2>1, <2>2
<1>17. OneHolder'
  BY <1>3, <1>9, <1>10 DEF Known, OneHolder, NoToken
<1>18. AskedBy(p)'
  <2>1. at[p] \in {"idle", "waiting", "done"} /\ (at[p] = "waiting" => ~snap[p].fresh)
    BY <1>4 DEF Known, EachProcess, AskedBy
  <2>2. Won(p)' => answer'[p].refresh > snap[p].refresh
    BY <1>3, <1>8, <1>12 DEF Won, ServedAnswer
  <2> QED BY <1>3, <1>4, <2>1, <2>2 DEF AskedBy, Asks
<1>19. WaitsWell(p)'
  <2> SUFFICES ASSUME at[p] = "waiting", Good(d)' PROVE WaitsWell(p)'
    BY <1>3, <1>8 DEF WaitsWell, Good
  <2>1. n \in {cur[d], prev[d]}
    BY <1>8, <1>10 DEF Known, EachProcess, WaitsWell
  <2>2. n \in {cur'[d], prev'[d]}
    BY <1>3, <1>7, <2>1 DEF Accepted, IsCurrent, Good
  <2>3. Won(p)' => answer'[p].refresh = cur'[d]
    BY <1>7, <1>8 DEF Won, ServedAnswer
  <2>4. answer'[p].status = "invalid_grant" => Forgiven'
    BY <1>8, <1>10, <1>14 DEF ServedAnswer
  <2> QED BY <1>3, <1>4, <1>8, <2>2, <2>3, <2>4 DEF WaitsWell
<1>20. SeesFile(p)' /\ LateOf(p)' /\ ~Late(p)'
  BY <1>3, <1>4, <1>10 DEF Known, EachProcess, SeesFile, LateOf, Late
\* A request that comes late and is accepted turns the newest token into the
\* previous one, under whoever waits with it.
<1>21. ASSUME NEW q \in Ticks, q # p PROVE AskedBy(q)' /\ WaitsWell(q)' /\ SeesFile(q)' /\ LateOf(q)'
  <2>0. AskedBy(q) /\ WaitsWell(q) /\ SeesFile(q) /\ LateOf(q)
    BY DEF Known, EachProcess
  <2>1. at'[q] = at[q] /\ request'[q] = request[q] /\ answer'[q] = answer[q] /\ snap'[q] = snap[q]
    BY <1>3, <1>4, <1>21
  <2>2. AskedBy(q)'
    BY <1>3, <1>21, <2>0, <2>1, OthersAsk DEF AskedBy, Refresh, Silent
  <2>3. SeesFile(q)'
    BY <1>3, <1>10, <2>0 DEF SeesFile
  <2>4. LateOf(q)'
    BY <1>3, <1>10, <1>21, <2>0, <2>1, OthersAsk DEF LateOf
  <2>5. WaitsWell(q)'
    <3> DEFINE e == snap[q].device
               m == snap[q].refresh
    <3> SUFFICES ASSUME at[q] = "waiting", Good(e)' PROVE WaitsWell(q)'
      BY <1>3 DEF WaitsWell
    <3>1. ~raced /\ ~raced' /\ Good(e) /\ e \in Grants
      BY <1>10, <1>3 DEF Good
    <3>2. CASE e # d
      <4>1. cur'[e] = cur[e] /\ prev'[e] = prev[e] /\ prevAge'[e] = prevAge[e]
        BY <1>5, <3>1, <3>2
      <4> QED BY <1>3, <1>10, <1>21, <2>0, <2>1, <3>1, <4>1, OthersAsk DEF WaitsWell
    <3>3. CASE e = d
      <4>1. at[p] # "waiting"
        BY <1>21, <3>1, OnlyHolder DEF Inside
      <4>2. IsCurrent(d, n) /\ Late(p) /\ n = cur[d]
        BY <1>4, <1>10, <1>13, <3>1, <4>1 DEF Late
      <4>3. n <= m
        <5>1. LateOf(p)
          BY DEF Known, EachProcess
        <5> QED BY <1>2, <3>1, <3>3, <4>2, <5>1 DEF LateOf
      <4>4. m \in {cur[d], prev[d]} /\ prev[d] <= cur[d] /\ cur[d] \in Int /\ prev[d] \in Int
        BY <1>11, <2>0, <3>1, <3>3 DEF WaitsWell, Good
      <4>5. m = n /\ m = prev'[d] /\ prevAge'[d] = 0
        <5>1. n <= m /\ n = cur[d] /\ m \in Int /\ n \in Int
          BY <1>2, <4>2, <4>3
        <5>2. m = n
          BY ONLY <4>4, <5>1
        <5> QED BY <1>7, <4>2, <5>2
      <4>6. ~Won(q)
        <5>1. Won(q) => answer[q].refresh = cur[d] /\ answer[q].refresh > m
          BY <2>0, <3>1, <3>3 DEF WaitsWell, AskedBy
        <5> QED BY <4>2, <4>5, <5>1
      <4>7. ~Won(q)' /\ (answer'[q].status = "invalid_grant" => Forgiven')
        BY <1>10, <1>21, <2>0, <2>1, <3>1, <4>6, OthersAsk DEF WaitsWell
      <4>8. 0 <= Stale + 1 + busy[q]
        OBVIOUS
      <4> QED BY <1>3, <3>3, <4>5, <4>7, <4>8 DEF WaitsWell
    <3> QED BY <3>2, <3>3
  <2> QED BY <2>2, <2>3, <2>4, <2>5
\* The file's own device: its token is current, or has just been superseded.
<1>22. ASSUME file.device = d, Good(d)', file.refresh # 0
       PROVE  /\ IsCurrent(d, n) => file.refresh = n /\ ~file.fresh
              /\ at[p] = "waiting" => file = snap[p]
  <2>1. Good(d) /\ ~raced' /\ ~raced
    BY <1>10, <1>22 DEF Good
  <2>2. at[p] = "waiting" => file = snap[p]
    BY <1>8, <1>22, <2>1 DEF Known, EachProcess, SeesFile
  <2>3. CASE at[p] = "waiting"
    BY <1>8, <2>2, <2>3
  <2>4. CASE at[p] # "waiting"
    <3>1. IsCurrent(d, n) /\ n = cur[d] /\ Late(p) /\ LateOf(p)
      BY <1>4, <1>10, <1>13, <2>1, <2>4 DEF Late, Known, EachProcess
    <3>2. n <= file.refresh /\ (file.fresh => n < file.refresh)
      BY <1>2, <1>22, <2>1, <3>1 DEF LateOf
    <3>3. file.refresh \in {cur[d], prev[d]} /\ prev[d] <= cur[d] /\ cur[d] \in Int /\ prev[d] \in Int
      <4>1. Kept /\ file # NoToken
        BY <1>22 DEF Known, NoToken
      <4> QED BY <1>2, <1>11, <1>22, <2>1, <4>1 DEF Kept, Good
    <3>4. n \in Int /\ file.refresh \in Int
      BY <1>2
    <3>5. file.refresh = n /\ ~file.fresh
      BY ONLY <3>1, <3>2, <3>3, <3>4
    <3> QED BY <2>4, <3>5
  <2> QED BY <2>2, <2>3, <2>4
<1>23. Kept'
  <2>1. file' = file /\ (file # NoToken => file.device \in Grants)
    BY <1>3 DEF Known, Kept
  <2> SUFFICES ASSUME file # NoToken, Good(file.device)'
               PROVE  /\ file.refresh = 0 => Forgiven'
                      /\ file.refresh # 0 => file.refresh \in {cur'[file.device], prev'[file.device]}
                      /\ file.refresh # 0 /\ file.fresh => file.refresh = cur'[file.device]
    BY <2>1 DEF Kept, NoToken
  <2>2. /\ file.refresh = 0 => Forgiven
        /\ file.refresh # 0 => file.refresh \in {cur[file.device], prev[file.device]}
        /\ file.refresh # 0 /\ file.fresh => file.refresh = cur[file.device]
    <3>1. Kept /\ Good(file.device)
      BY <1>10, <1>3 DEF Known
    <3> QED BY <3>1 DEF Kept
  <2>3. CASE file.device # d
    BY <1>5, <1>10, <2>1, <2>2, <2>3
  <2>4. CASE file.device = d
    <3>1. file.refresh # 0 /\ IsCurrent(d, n) => file.refresh = prev'[d] /\ ~file.fresh
      BY <1>3, <1>7, <1>22, <2>4
    <3>2. file.refresh # 0 /\ ~IsCurrent(d, n) /\ Accepted(d, n) => file.refresh = prev'[d] /\ ~file.fresh
      <4>1. SUFFICES ASSUME file.refresh # 0, ~IsCurrent(d, n), Accepted(d, n)
                     PROVE  file.refresh = prev'[d] /\ ~file.fresh
        OBVIOUS
      <4>2. at[p] = "waiting"
        BY <1>10, <2>4, <4>1 DEF Good
      <4>3. file = snap[p] /\ file.refresh = n /\ ~file.fresh
        BY <1>3, <1>8, <1>22, <2>4, <4>1, <4>2
      <4> QED BY <1>7, <4>1, <4>3 DEF Accepted, IsPrevious
    <3>3. ~Accepted(d, n) => cur'[d] = cur[d] /\ prev'[d] = prev[d]
      BY <1>7 DEF Accepted
    <3> QED BY <1>10, <2>2, <2>4, <3>1, <3>2, <3>3
  <2> QED BY <2>3, <2>4
<1>24. ASSUME NEW q \in Ticks PROVE Parted(q)'
  <2> SUFFICES ASSUME ~raced', at[q] = "waiting", snap[q].device # file.device PROVE Parted(q)'
    BY <1>3 DEF Parted
  <2>1. ~Superseded /\ \A r \in Ticks : Asking(r) => request[r].device # file.device
    BY <1>10 DEF Known, EachProcess, Parted
  <2>2. d # file.device
    BY <1>2, <1>4, <2>1
  <2>3. ~Superseded'
    BY <1>3, <1>5, <1>10, <2>1, <2>2 DEF Superseded
  <2>4. \A r \in Ticks : Asking(r)' => request'[r].device # file.device
    <3> SUFFICES ASSUME NEW r \in Ticks, Asking(r)' PROVE request'[r].device # file.device
      OBVIOUS
    <3>1. r # p /\ request'[r] = request[r]
      BY <1>4
    <3> QED BY <2>1, <3>1 DEF Asking, NoRefresh, Refresh
  <2> QED BY <1>3, <2>3, <2>4 DEF Parted
<1>25. EachProcess'
  BY <1>18, <1>19, <1>20, <1>21, <1>24 DEF EachProcess
<1>26. InGrace'
  <2> SUFFICES ASSUME Superseded', ~Forgiven'
               PROVE  LossTold' /\ LeftAlone' /\ \A q \in Holders' : Retried(q)'
    BY DEF InGrace
  <2>0. /\ file' = file /\ file.refresh # 0 /\ file.device \in Grants /\ Good(file.device)'
        /\ Good(file.device) /\ ~raced /\ ~raced' /\ ~Forgiven /\ file.refresh # cur'[file.device]
    BY <1>3, <1>10 DEF Superseded, Good
  <2>1. \A q \in Ticks \ {p} : /\ Won(q)' <=> Won(q)
                               /\ Hopeful(q)' <=> Hopeful(q)
    BY <1>3, <1>4, OthersAsk
  <2>2. CASE file.device # d
    <3>1. prevAge'[file.device] = prevAge[file.device] /\ Superseded
      BY <1>5, <2>0, <2>2 DEF Superseded
    <3>2. LossTold /\ LeftAlone /\ \A q \in Holders : Retried(q)
      BY <2>0, <3>1 DEF Known, InGrace
    <3>3. at[p] # "waiting"
      BY <1>8, <2>0, <2>2, <3>1 DEF Known, EachProcess, Parted
    <3>4. ~Hopeful(p)
      BY <1>4, <3>3 DEF Known, EachProcess, AskedBy, Hopeful, Asks, Won
    <3>5. LossTold'
      <4>1. ~Won(p)
        BY <3>3 DEF Won, ServedAnswer
      <4> QED BY <1>3, <2>1, <3>1, <3>2, <4>1 DEF LossTold
    <3>6. LeftAlone'
      BY <1>3, <1>9, <3>1, <3>2 DEF LeftAlone
    <3>7. ASSUME NEW q \in Holders' PROVE Retried(q)'
      <4>1. q \in Ticks /\ q \in Holders
        BY <1>9, <3>7 DEF Holders
      <4> QED BY <1>3, <2>1, <3>1, <3>2, <3>4, <4>1 DEF Retried
    <3> QED BY <3>5, <3>6, <3>7
  <2>3. CASE file.device = d
    <3>1. CASE at[p] = "waiting"
      <4>1. Accepted(d, n) /\ file = snap[p] /\ file.refresh = n /\ p \in Holders
        BY <1>8, <1>14, <1>22, <2>0, <2>3, <3>1 DEF Holders, Inside
      <4>2. \A q \in Ticks : at[q] \in Inside => q = p
        BY <2>0, <3>1, OnlyHolder DEF Inside
      <4>3. CASE IsCurrent(d, n)
        <5>1. prevAge'[d] = 0 /\ \A q \in Ticks : prevAge'[d] <= busy'[q]
          BY <1>3, <1>7, <4>3
        <5>2. faults' = 0 => Won(p)'
          BY <1>3, <1>8, <3>1, <4>1 DEF Won, ServedAnswer
        <5>3. LossTold'
          BY <2>0, <2>3, <5>1, <5>2 DEF LossTold
        <5>4. \A q \in Holders' : Retried(q)'
          BY <2>0, <2>3, <5>1 DEF Retried, Holders
        <5> QED BY <1>9, <4>1, <5>3, <5>4 DEF LeftAlone
      <4>4. CASE ~IsCurrent(d, n)
        <5>1. Superseded /\ prevAge'[d] = prevAge[d]
          BY <1>7, <2>0, <2>3, <4>1, <4>4 DEF Superseded, IsCurrent, Good
        <5>2. LossTold /\ Retried(p)
          BY <2>0, <4>1, <5>1 DEF Known, InGrace
        <5>3. faults # 0
          BY <1>8, <3>1, <4>2, <5>2 DEF LossTold, Won, Inside
        <5>4. faults' = faults /\ Won(p)'
          <6>0. faults \in Int /\ faults >= 1 /\ ~(faults' > 1)
            BY <5>3 DEF Forgiven
          <6>1. faults' # faults + 1
            BY ONLY <6>0
          <6>2. faults' = faults /\ answer'[p] = [status |-> "ok", refresh |-> minted[d] + 1]
            BY <1>8, <3>1, <4>1, <6>1 DEF ServedAnswer
          <6>3. at'[p] = "waiting" /\ answer'[p].status = "ok"
            BY <1>3, <3>1, <6>2
          <6> QED BY <6>2, <6>3 DEF Won
        <5>5. prevAge'[d] <= Stale + 1 + busy'[p]
          <6>1. prevAge[d] \in Int /\ busy[p] \in Int /\ Stale \in Nat
            BY <1>2
          <6> QED BY <1>3, <2>3, <5>1, <5>2, <6>1 DEF Retried
        <5>6. \A q \in Holders' : q = p
          BY <1>9, <4>2 DEF Holders
        <5> QED BY <1>9, <2>0, <2>3, <4>1, <5>3, <5>4, <5>5, <5>6
                   DEF LossTold, LeftAlone, Retried, Hopeful
      <4> QED BY <4>3, <4>4
    <3>2. CASE at[p] # "waiting"
      <4>1. IsCurrent(d, n)
        BY <1>10, <2>0, <3>2
      <4>2. prevAge'[d] = 0 /\ \A q \in Ticks : prevAge'[d] <= busy'[q]
        BY <1>3, <1>7, <4>1
      <4>3. faults' # 0
        BY <1>3, <1>4, <3>2 DEF Known, EachProcess, AskedBy
      <4>4. LossTold'
        BY <4>3 DEF LossTold
      <4>5. LeftAlone'
        BY <1>3, <2>0, <2>3, <4>2 DEF LeftAlone
      <4>6. \A q \in Holders' : Retried(q)'
        BY <2>0, <2>3, <4>2 DEF Retried, Holders
      <4> QED BY <4>4, <4>5, <4>6
    <3> QED BY <3>1, <3>2
  <2> QED BY <2>2, <2>3
<1> QED BY <1>15, <1>16, <1>17, <1>23, <1>25, <1>26 DEF Known

LEMMA LoseKnown ==
  ASSUME DeviceLoginAssumption, IInv, Known, NEW p \in Ticks, Lose(p)
  PROVE  Known'
<1> USE Types, Constants
<1>1. /\ UNCHANGED <<grant, revoked, minted, cur, prev, prevAge, file, lock, at, snap, busy, login,
                     logout, raced, away>>
      /\ faults' = faults + 1 /\ faults' \in Int
  BY DEF Lose, serverVars, procVars, userVars, ghosts
<1>2. /\ request'[p] \in {request[p], NoRefresh} /\ answer'[p] \in {answer[p], Silent}
      /\ \A q \in Ticks \ {p} : request'[q] = request[q] /\ answer'[q] = answer[q]
  BY DEF Lose
<1>3. /\ Holders' = Holders
      /\ \A e : Good(e)' => Good(e)
      /\ ~Forgiven' => ~Forgiven /\ faults = 0
  BY <1>1 DEF Holders, Good, Forgiven
<1>4. NoRefresh.device = NoGrant /\ Silent.status = "none"
  BY DEF NoRefresh, Refresh, Silent
<1>5. ASSUME NEW q \in Ticks
      PROVE  /\ request'[q] \in {request[q], NoRefresh} /\ answer'[q] \in {answer[q], Silent}
             /\ Asking(q)' => Asking(q) /\ request'[q] = request[q]
             /\ Won(q)' => Won(q) /\ answer'[q] = answer[q]
             /\ Late(q)' => Late(q)
  <2>1. request'[q] \in {request[q], NoRefresh} /\ answer'[q] \in {answer[q], Silent}
    BY <1>2
  <2>2. NoRefresh' = NoRefresh /\ Silent' = Silent
    BY DEF NoRefresh, Refresh, Silent
  <2> QED BY <1>1, <1>4, <2>1, <2>2 DEF Asking, Won, Late
<1>6. NewDevices'
  <2>1. ASSUME NEW e \in Grants, Untouched(e) PROVE Untouched(e)'
    BY <1>1, <1>4, <1>5, <2>1 DEF Untouched
  <2> QED BY <1>1, <2>1 DEF Known, NewDevices, Unknown
<1>7. Chain' /\ OneHolder'
  BY <1>1, <1>3 DEF Known, Chain, OneHolder, NoToken
<1>8. EachProcess'
  <2> SUFFICES ASSUME NEW q \in Ticks
               PROVE (AskedBy(q) /\ WaitsWell(q) /\ SeesFile(q) /\ LateOf(q) /\ Parted(q))'
    BY DEF EachProcess
  <2>0. AskedBy(q) /\ WaitsWell(q) /\ SeesFile(q) /\ LateOf(q) /\ Parted(q)
    BY DEF Known, EachProcess
  <2>1. AskedBy(q)'
    <3>1. Asks(q)' => Asks(q) /\ request'[q] = request[q] /\ answer'[q] = Silent
      BY <1>1, <1>5, <2>0 DEF Asks, AskedBy
    <3> QED BY <1>1, <1>5, <2>0, <3>1 DEF AskedBy, Refresh, Silent
  <2>2. WaitsWell(q)'
    BY <1>1, <1>3, <1>4, <1>5, <2>0 DEF WaitsWell
  <2>3. SeesFile(q)'
    BY <1>1, <2>0 DEF SeesFile
  <2>4. LateOf(q)'
    <3>1. Late(q)' => request'[q] = request[q] /\ Late(q)
      BY <1>5 DEF Late
    <3> QED BY <1>1, <2>0, <3>1 DEF LateOf
  <2>5. Parted(q)'
    <3>1. Superseded' => Superseded
      BY <1>1 DEF Superseded, Good
    <3> QED BY <1>1, <1>5, <2>0, <3>1 DEF Parted
  <2> QED BY <2>1, <2>2, <2>3, <2>4, <2>5
<1>9. Kept'
  <2>1. Kept
    BY DEF Known
  <2> QED BY <1>1, <1>3, <2>1 DEF Kept, NoToken
<1>10. InGrace'
  <2> SUFFICES ASSUME Superseded', ~Forgiven'
               PROVE  LossTold' /\ LeftAlone' /\ \A q \in Holders' : Retried(q)'
    BY DEF InGrace
  <2>1. ~raced /\ Superseded /\ ~Forgiven /\ faults = 0
    BY <1>1, <1>3 DEF Superseded, Good
  <2>2. PICK r \in Ticks : Won(r) /\ prevAge[file.device] <= busy[r]
    BY <2>1 DEF Known, InGrace, LossTold
  <2>3. r \in Holders /\ \A q \in Holders : q = r
    BY <2>1, <2>2, OnlyHolder DEF Won, Holders, Inside
  <2>4. faults' # 0
    BY <1>1, <2>1
  <2> QED BY <1>1, <1>3, <2>2, <2>3, <2>4 DEF LossTold, LeftAlone, Retried
<1> QED BY <1>6, <1>7, <1>8, <1>9, <1>10 DEF Known

\* While time goes by unnoticed by no process, the lock ages with the grace.
LEMMA ClockKnown ==
  ASSUME DeviceLoginAssumption, IInv, Known, Clock
  PROVE  Known'
<1> USE Types, Constants
<1>1. /\ UNCHANGED <<grant, revoked, minted, cur, prev, file, at, snap, login, logout, faults, raced>>
      /\ request' = request /\ answer' = answer
      /\ away' = (away \/ CouldRefresh)
      /\ lock' = IF lock = -1 THEN -1 ELSE Older(lock, Stale + 1)
  BY DEF Clock, netVars, userVars
<1>2. \A d \in Grants : prevAge'[d] \in Int /\ prevAge'[d] <= prevAge[d] + 1
  BY DEF Clock, Older
<1>3. Holders' = Holders
  BY <1>1 DEF Holders
<1>4. \A p \in Holders : p \in Ticks /\ busy'[p] = busy[p] + 1 /\ busy[p] < Timeout
  BY DEF Clock, Holders
<1>5. /\ \A e : Good(e)' => Good(e)
      /\ ~Forgiven' => ~Forgiven /\ ~CouldRefresh
  BY <1>1 DEF Good, Forgiven
<1>6. \A q : /\ Asking(q)' <=> Asking(q)
             /\ Asks(q)' <=> Asks(q)
             /\ Won(q)' <=> Won(q)
             /\ Late(q)' <=> Late(q)
             /\ Hopeful(q)' <=> Hopeful(q)
  BY <1>1 DEF Asking, Asks, Won, Late, Hopeful, NoRefresh, Refresh
<1>7. NewDevices' /\ Chain'
  BY <1>1 DEF Known, NewDevices, Unknown, Untouched, Chain
<1>8. OneHolder'
  <2>1. ASSUME NEW p \in Holders, lock = -1 \/ busy[p] <= lock
        PROVE  lock' = -1 \/ busy'[p] <= lock'
    <3>1. busy'[p] = busy[p] + 1 /\ busy[p] < Timeout /\ busy[p] \in Int /\ Timeout < Stale
      BY <1>4, <2>1 DEF DeviceLoginAssumption
    <3> QED BY <1>1, <2>1, <3>1 DEF Older
  <2> QED BY <1>1, <1>3, <2>1 DEF Known, OneHolder, NoToken
<1>9. EachProcess'
  <2> SUFFICES ASSUME NEW q \in Ticks
               PROVE (AskedBy(q) /\ WaitsWell(q) /\ SeesFile(q) /\ LateOf(q) /\ Parted(q))'
    BY DEF EachProcess
  <2>0. AskedBy(q) /\ WaitsWell(q) /\ SeesFile(q) /\ LateOf(q) /\ Parted(q)
    BY DEF Known, EachProcess
  <2>1. AskedBy(q)'
    BY <1>1, <1>6, <2>0 DEF AskedBy, Refresh, Silent
  <2>2. WaitsWell(q)'
    <3> SUFFICES ASSUME at[q] = "waiting", Good(snap[q].device)' PROVE WaitsWell(q)'
      BY <1>1 DEF WaitsWell
    <3>1. Good(snap[q].device) /\ snap[q].device \in Grants
      BY <1>1, <1>5
    <3>2. q \in Holders /\ busy'[q] = busy[q] + 1
      BY <1>4 DEF Holders, Inside
    <3>3. prevAge[snap[q].device] <= Stale + 1 + busy[q] => prevAge'[snap[q].device] <= Stale + 1 + busy'[q]
      <4>1. /\ prevAge[snap[q].device] \in Int /\ prevAge'[snap[q].device] \in Int /\ busy[q] \in Int
            /\ prevAge'[snap[q].device] <= prevAge[snap[q].device] + 1 /\ Stale \in Nat
        BY <1>2, <3>1
      <4> QED BY ONLY <3>2, <4>1
    <3> QED BY <1>1, <1>5, <1>6, <2>0, <3>1, <3>3 DEF WaitsWell
  <2>3. SeesFile(q)'
    BY <1>1, <2>0 DEF SeesFile
  <2>4. LateOf(q)'
    BY <1>1, <1>6, <2>0 DEF LateOf
  <2>5. Parted(q)'
    BY <1>1, <1>6, <2>0 DEF Parted, Superseded, Good
  <2> QED BY <2>1, <2>2, <2>3, <2>4, <2>5
<1>10. Kept'
  <2>1. Kept
    BY DEF Known
  <2> QED BY <1>1, <1>5, <2>1 DEF Kept, NoToken
<1>11. InGrace'
  <2> SUFFICES ASSUME Superseded', ~Forgiven'
               PROVE  LossTold' /\ LeftAlone' /\ \A q \in Holders' : Retried(q)'
    BY DEF InGrace
  <2> DEFINE age == prevAge[file.device]
  <2>1. Superseded /\ ~Forgiven /\ ~CouldRefresh /\ file.device \in Grants
    BY <1>1, <1>5 DEF Superseded, Good
  <2>2. LossTold /\ LeftAlone /\ \A q \in Holders : Retried(q)
    BY <2>1 DEF Known, InGrace
  <2>3. age \in Int /\ prevAge'[file.device] \in Int /\ prevAge'[file.device] <= age + 1
    BY <1>2, <2>1
  <2>4. LossTold'
    <3>1. ASSUME faults = 0 PROVE \E q \in Ticks : Won(q) /\ prevAge'[file.device] <= busy'[q]
      <4>1. PICK q \in Ticks : Won(q) /\ age <= busy[q]
        BY <2>2, <3>1 DEF LossTold
      <4>2. busy'[q] = busy[q] + 1 /\ busy[q] \in Int
        BY <1>4, <4>1 DEF Won, Holders, Inside
      <4>3. prevAge'[file.device] <= busy'[q]
        BY ONLY <2>3, <4>1, <4>2
      <4> QED BY <4>1, <4>3
    <3> QED BY <1>1, <1>6, <3>1 DEF LossTold
  <2>5. ASSUME NEW q \in Holders' PROVE Retried(q)'
    <3>1. q \in Holders /\ q \in Ticks /\ Retried(q)
      BY <1>3, <1>4, <2>2, <2>5
    <3>2. busy'[q] = busy[q] + 1 /\ busy[q] \in Int /\ Stale \in Nat
      BY <1>4, <3>1
    <3>3. /\ age <= busy[q] => prevAge'[file.device] <= busy'[q]
          /\ age <= Stale + 1 + busy[q] => prevAge'[file.device] <= Stale + 1 + busy'[q]
      BY ONLY <2>3, <3>2
    <3> QED BY <1>1, <1>6, <3>1, <3>3 DEF Retried
  <2>6. LeftAlone'
    <3> SUFFICES ASSUME Holders = {} PROVE LeftAlone'
      BY <1>3 DEF LeftAlone
    <3>1. Kept
      BY DEF Known
    <3>2. NeedsRefresh(file)
      BY <2>1, <3>1 DEF Kept, Superseded, NeedsRefresh, NoToken
    <3>3. lock # -1 /\ lock <= Stale
      BY <2>1, <3>2 DEF CouldRefresh
    <3>4. lock' = lock + 1 /\ lock' # -1
      BY <1>1, <3>3 DEF Older
    <3>5. age <= lock
      BY <2>2, <3>3 DEF LeftAlone
    <3>6. prevAge'[file.device] <= lock'
      BY <2>3, <3>4, <3>5
    <3> QED BY <1>1, <3>4, <3>6 DEF LeftAlone
  <2> QED BY <2>4, <2>5, <2>6
<1> QED BY <1>7, <1>8, <1>9, <1>10, <1>11 DEF Known

LEMMA StutterKnown ==
  ASSUME DeviceLoginAssumption, IInv, Known, UNCHANGED vars
  PROVE  Known'
<1>1. UNCHANGED <<revoked, prev, prevAge, file, lock, procVars, netVars, ghosts>>
      /\ UNCHANGED <<grant, cur, minted, login, logout, faults>>
  BY DEF vars, serverVars, userVars
<1>2. Chain'
  BY <1>1 DEF Known, Chain
<1>3. NewDevices'
  BY <1>1 DEF Known, NewDevices, Unknown, Untouched, procVars, netVars
<1> QED BY <1>1, <1>2, <1>3, Types, Elsewhere

LEMMA KnownInductive == Spec => [](IInv /\ Known)
<1>1. Init => IInv /\ Known
  BY InitInv, InitKnown, DeviceLoginAssumption
<1>2. IInv /\ Known /\ [Next]_vars => Known'
  BY DeviceLoginAssumption, LoginKnown, LoggedInKnown, RowsKnown, DueKnown, LockKnown, PostKnown,
     AnsweredKnown, AbortKnown, UnlockKnown, DieKnown, ServeKnown, LoseKnown, RevokeKnown,
     ClearKnown, ClockKnown, StutterKnown DEF Next
<1> QED BY <1>1, <1>2, Inductive, PTL DEF Spec

\* Neither a lost or late answer, nor a failed mint, nor a process that dies
\* under its lock logs an install out: the file's token is the current or the
\* previous one of its device, or it was dropped after the install was away
\* longer than a lock lasts or after a second fault, as long as no two
\* processes held the lock at once, no request arrived after its retry and no
\* logout crossed a refresh (getValidAccessToken, the grace arm of
\* device_refresh and the margin of c_grace over LOCK_STALE_MS).
THEOREM CredentialAlwaysKept == Spec => []CredentialKept
<1>1. Known => CredentialKept
  BY DEF Known, Kept, CredentialKept, Good, Forgiven
<1> QED BY <1>1, KnownInductive, PTL
=============================================================================
