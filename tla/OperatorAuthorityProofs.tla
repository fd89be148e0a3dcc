----------------------- MODULE OperatorAuthorityProofs -----------------------
(***************************************************************************)
(* What holds of the Operator's authority whatever the bounds: no browser  *)
(* session that has ended is honoured again, none outlives what ends every *)
(* session, and failing logins keep the delay that their number imposes.   *)
(***************************************************************************)
EXTENDS OperatorAuthority, TLAPS

BoundsAreNatural ==
    /\ IdleLifetime \in Nat /\ AbsoluteLifetime \in Nat
    /\ MaxTime \in Nat /\ MaxEpoch \in Nat /\ MaxSessions \in Nat

SessionRow == [opened : BOOLEAN, stored : BOOLEAN, created : Nat, last : Nat, under : Nat]

\* A row is of a session that was opened in this epoch.
SessionsInv ==
    /\ time \in Nat /\ epoch \in Nat
    /\ sessions \in [Sessions -> SessionRow]
    /\ \A s \in Sessions :
         sessions[s].stored => sessions[s].opened /\ sessions[s].under = epoch

\* The rows of a session before and after a step: a row that ended stays away,
\* and a row that stays keeps its age unless it is refreshed while it is
\* honoured.
Kept(s) ==
    sessions[s].opened =>
        \/ ~sessions'[s].stored
        \/ /\ sessions[s].stored
           /\ sessions'[s].created = sessions[s].created
           /\ sessions'[s].last = sessions[s].last \/ Authenticates(s)

-----------------------------------------------------------------------------
\* The unopened and the ended row have the type of a row.
LEMMA Rows == Unopened \in SessionRow /\ Gone \in SessionRow
BY DEF Unopened, Gone, SessionRow

\* What ends every session leaves no row, in its own epoch.
LEMMA EndSessionsKeeps ==
    ASSUME SessionsInv, EndSessions, UNCHANGED time
    PROVE  SessionsInv' /\ \A s \in Sessions : Kept(s)
<1>1. sessions' \in [Sessions -> SessionRow]
  BY Rows DEF SessionsInv, EndSessions
<1>2. \A s \in Sessions : ~sessions'[s].stored
  BY DEF EndSessions, Unopened, Gone
<1>3. epoch' \in Nat /\ time' \in Nat
  BY DEF SessionsInv, EndSessions
<1> QED
  BY <1>1, <1>2, <1>3 DEF SessionsInv, Kept

\* A step that changes the row of one session only.
LEMMA OneRowKeeps ==
    ASSUME SessionsInv, NEW s \in Sessions, NEW new \in SessionRow,
           sessions' = [sessions EXCEPT ![s] = new], UNCHANGED <<time, epoch>>,
           new.stored => new.opened /\ new.under = epoch,
           sessions[s].opened =>
               \/ ~new.stored
               \/ /\ sessions[s].stored /\ new.created = sessions[s].created
                  /\ new.last = sessions[s].last \/ Authenticates(s)
    PROVE  SessionsInv' /\ \A t \in Sessions : Kept(t)
<1>1. sessions' \in [Sessions -> SessionRow]
  BY DEF SessionsInv
<1>2. ASSUME NEW t \in Sessions
      PROVE  /\ sessions'[t].stored => sessions'[t].opened /\ sessions'[t].under = epoch
             /\ Kept(t)
  <2>1. CASE t = s
    BY <2>1 DEF SessionsInv, Kept
  <2>2. CASE t # s
    <3>1. sessions'[t] = sessions[t]
      BY <2>2 DEF SessionsInv
    <3> QED
      BY <3>1 DEF SessionsInv, Kept
  <2> QED
    BY <2>1, <2>2
<1> QED
  BY <1>1, <1>2 DEF SessionsInv

\* A step that changes no session and not the epoch.
LEMMA NoRowKeeps ==
    ASSUME SessionsInv, UNCHANGED <<sessions, epoch>>, time' \in Nat
    PROVE  SessionsInv' /\ \A s \in Sessions : Kept(s)
<1>1. SessionsInv'
  BY DEF SessionsInv
<1>2. \A s \in Sessions : Kept(s)
  BY DEF Kept, SessionsInv
<1> QED
  BY <1>1, <1>2

\* Every step keeps the invariant and the rows, and no step turns the clock
\* back.
LEMMA StepKeeps ==
    ASSUME BoundsAreNatural, SessionsInv, [Next]_vars
    PROVE  /\ SessionsInv' /\ time' >= time
           /\ \A s \in Sessions : Kept(s)
<1> USE DEF BoundsAreNatural
<1>t. time \in Nat /\ time >= time
  BY DEF SessionsInv
<1>1. ASSUME NEW s \in Sessions, Login(s)
      PROVE  SessionsInv' /\ time' >= time /\ \A t \in Sessions : Kept(t)
  <2> DEFINE new == [opened |-> TRUE, stored |-> TRUE, created |-> time, last |-> time,
                     under |-> epoch]
  <2>1. new \in SessionRow /\ new.opened /\ new.under = epoch
    BY DEF SessionsInv, SessionRow
  <2>2. ~sessions[s].opened /\ sessions' = [sessions EXCEPT ![s] = new]
    BY <1>1 DEF Login
  <2>3. UNCHANGED <<time, epoch>>
    BY <1>1 DEF Login
  <2> HIDE DEF new
  <2> QED
    BY <2>1, <2>2, <2>3, <1>t, OneRowKeeps
<1>2. ASSUME NEW s \in Sessions, Logout(s)
      PROVE  SessionsInv' /\ time' >= time /\ \A t \in Sessions : Kept(t)
  <2>1. ~Gone.stored
    BY DEF Gone, Unopened
  <2>2. sessions' = [sessions EXCEPT ![s] = Gone] /\ UNCHANGED <<time, epoch>>
    BY <1>2 DEF Logout
  <2> QED
    BY <2>1, <2>2, <1>t, Rows, OneRowKeeps
<1>3. ASSUME NEW s \in Sessions, Touch(s)
      PROVE  SessionsInv' /\ time' >= time /\ \A t \in Sessions : Kept(t)
  <2> DEFINE new == [sessions[s] EXCEPT !.last = time]
  <2>1. sessions[s] \in SessionRow /\ sessions[s].stored /\ Authenticates(s)
    BY <1>3 DEF SessionsInv, Touch, Authenticates
  <2>2. new \in SessionRow /\ new.created = sessions[s].created
    BY <2>1 DEF SessionsInv, SessionRow
  <2>3. new.opened = sessions[s].opened /\ new.under = sessions[s].under
    BY <2>1 DEF SessionRow
  <2>4. new.opened /\ new.under = epoch
    BY <2>1, <2>3 DEF SessionsInv
  <2>5. sessions' = [sessions EXCEPT ![s] = new] /\ UNCHANGED <<time, epoch>>
    BY <1>3 DEF Touch
  <2> HIDE DEF new
  <2> QED
    BY <2>1, <2>2, <2>4, <2>5, <1>t, OneRowKeeps
<1>4. ASSUME RemoveExpired
      PROVE  SessionsInv' /\ time' >= time /\ \A t \in Sessions : Kept(t)
  <2>1. UNCHANGED <<time, epoch>>
    BY <1>4 DEF RemoveExpired
  <2>2. ASSUME NEW t \in Sessions
        PROVE  sessions'[t] = sessions[t] \/ sessions'[t] = Gone
    BY <1>4, <2>2 DEF RemoveExpired
  <2>3. sessions' \in [Sessions -> SessionRow]
    BY <1>4, Rows DEF RemoveExpired, SessionsInv
  <2>4. ~Gone.stored
    BY DEF Gone, Unopened
  <2>5. SessionsInv'
    BY <2>1, <2>2, <2>3, <2>4 DEF SessionsInv
  <2>6. \A t \in Sessions : Kept(t)
    BY <2>2, <2>4 DEF SessionsInv, Kept
  <2> QED
    BY <2>1, <2>5, <2>6, <1>t
<1>5. ASSUME NEW q \in Mutations, ChangePassword(q) \/ RevokeAll(q)
      PROVE  SessionsInv' /\ time' >= time /\ \A t \in Sessions : Kept(t)
  <2>1. EndSessions /\ UNCHANGED time
    BY <1>5 DEF ChangePassword, RevokeAll
  <2> QED
    BY <2>1, <1>t, EndSessionsKeeps
<1>6. ASSUME Recover
      PROVE  SessionsInv' /\ time' >= time /\ \A t \in Sessions : Kept(t)
  <2>1. EndSessions /\ UNCHANGED time
    BY <1>6 DEF Recover
  <2> QED
    BY <2>1, <1>t, EndSessionsKeeps
<1>7. ASSUME NEW q \in Mutations,
             Pass(q) \/ ReplaceToken(q) \/ RevokeToken(q) \/ Refuse(q)
      PROVE  SessionsInv' /\ time' >= time /\ \A t \in Sessions : Kept(t)
  <2>1. UNCHANGED <<sessions, epoch, time>>
    BY <1>7 DEF Pass, ReplaceToken, RevokeToken, Refuse
  <2> QED
    BY <2>1, <1>t, NoRowKeeps
<1>8. ASSUME RejectLogin \/ Start \/ Stop \/ Bootstrap
      PROVE  SessionsInv' /\ time' >= time /\ \A t \in Sessions : Kept(t)
  <2>1. UNCHANGED <<sessions, epoch, time>>
    BY <1>8 DEF RejectLogin, Start, Stop, Bootstrap
  <2> QED
    BY <2>1, <1>t, NoRowKeeps
<1>9. ASSUME Tick
      PROVE  SessionsInv' /\ time' >= time /\ \A t \in Sessions : Kept(t)
  <2>1. UNCHANGED <<sessions, epoch>> /\ time' = time + 1
    BY <1>9 DEF Tick
  <2> QED
    BY <2>1, <1>t, NoRowKeeps
<1>10. ASSUME UNCHANGED vars
       PROVE  SessionsInv' /\ time' >= time /\ \A t \in Sessions : Kept(t)
  <2>1. UNCHANGED <<sessions, epoch, time>>
    BY <1>10 DEF vars
  <2> QED
    BY <2>1, <1>t, NoRowKeeps
<1> QED
  BY <1>1, <1>2, <1>3, <1>4, <1>5, <1>6, <1>7, <1>8, <1>9, <1>10 DEF Next

\* A row that is kept has not become younger, so that it has still expired.
LEMMA ExpiredStays ==
    ASSUME BoundsAreNatural, SessionsInv, SessionsInv', time' >= time,
           NEW s \in Sessions, Kept(s), sessions[s].opened, ~Authenticates(s)
    PROVE  ~Authenticates(s)'
<1> USE DEF BoundsAreNatural
<1>1. CASE ~sessions'[s].stored
  BY <1>1 DEF Authenticates
<1>2. CASE sessions'[s].stored
  <2>1. /\ sessions[s].stored /\ HasExpired(s)
        /\ sessions'[s].created = sessions[s].created
        /\ sessions'[s].last = sessions[s].last
    BY <1>2 DEF Kept, Authenticates
  <2>2. /\ time \in Nat /\ time' \in Nat
        /\ sessions[s].created \in Nat /\ sessions[s].last \in Nat
    BY DEF SessionsInv, SessionRow
  <2>3. HasExpired(s)'
    BY <2>1, <2>2 DEF HasExpired
  <2> QED
    BY <2>3 DEF Authenticates
<1> QED
  BY <1>1, <1>2

-----------------------------------------------------------------------------
(* The throttle *)

\* The powers of two are numbers: arithmetic that the provers do not have.
DelaysAreNatural ==
    MaxAttempts \in Nat \ {0} /\ \A n \in 1 .. MaxAttempts : Delay(n) \in Nat

\* The throttle holds the number of the failures since the last clearing and
\* the end of the delay after the last of them.
ThrottleInv ==
    /\ time \in Nat
    /\ rejected \in Seq(Nat)
    /\ throttle.attempts = Counted(Len(rejected))
    /\ Len(rejected) > 0 =>
           throttle.until = rejected[Len(rejected)] + Delay(Counted(Len(rejected)))
    /\ LoginsAreSpaced

\* A counted number of failures is one that has a delay, and the next is
\* counted from it.
LEMMA CountedIs ==
    ASSUME DelaysAreNatural, NEW n \in Nat
    PROVE  /\ Counted(Counted(n) + 1) = Counted(n + 1)
           /\ n > 0 => Delay(Counted(n)) \in Nat
<1>1. Counted(Counted(n) + 1) = Counted(n + 1)
  BY DEF Counted, DelaysAreNatural
<1>2. n > 0 => Counted(n) \in 1 .. MaxAttempts
  BY DEF Counted, DelaysAreNatural
<1> QED
  BY <1>1, <1>2 DEF DelaysAreNatural

\* A login is rejected only when the delay after the one before is over.
LEMMA RejectionKeeps ==
    ASSUME DelaysAreNatural, ThrottleInv, RejectLogin
    PROVE  ThrottleInv'
<1> DEFINE n == Len(rejected)
<1>1. /\ n \in Nat /\ time' = time /\ ~(throttle.until > time)
      /\ rejected' = Append(rejected, time)
      /\ throttle' = [attempts |-> Counted(throttle.attempts + 1),
                      until |-> time + Delay(Counted(throttle.attempts + 1))]
  BY DEF ThrottleInv, RejectLogin, Throttled
<1>2. Counted(throttle.attempts + 1) = Counted(n + 1)
  BY <1>1, CountedIs DEF ThrottleInv
<1>3. /\ Len(rejected') = n + 1 /\ rejected' \in Seq(Nat)
      /\ rejected'[n + 1] = time
      /\ \A i \in 1 .. n : rejected'[i] = rejected[i]
  BY <1>1 DEF ThrottleInv
<1>4. throttle'.attempts = Counted(n + 1) /\ throttle'.until = time + Delay(Counted(n + 1))
  BY <1>1, <1>2
<1>5. ASSUME NEW i \in 1 .. n PROVE rejected'[i + 1] - rejected'[i] >= Delay(Counted(i))
  <2>1. CASE i < n
    <3>1. i \in 1 .. n - 1 /\ i + 1 \in 1 .. n
      BY <1>1, <2>1
    <3> QED
      BY <1>3, <3>1 DEF ThrottleInv, LoginsAreSpaced
  <2>2. CASE i = n
    <3>0. n > 0 /\ n \in 1 .. n
      BY <1>1, <2>2
    <3>1. /\ throttle.until = rejected[n] + Delay(Counted(n))
          /\ Delay(Counted(n)) \in Nat /\ rejected[n] \in Nat /\ time \in Nat
      <4>1. Delay(Counted(n)) \in Nat
        BY <1>1, <3>0, CountedIs
      <4>2. throttle.until = rejected[n] + Delay(Counted(n)) /\ time \in Nat
        BY <3>0 DEF ThrottleInv
      <4>3. rejected[n] \in Nat
        BY <3>0 DEF ThrottleInv
      <4> QED
        BY <4>1, <4>2, <4>3
    <3>2. rejected'[i + 1] = time /\ rejected'[i] = rejected[n]
      BY <1>3, <2>2
    <3> HIDE DEF n
    <3>3. time - rejected[n] >= Delay(Counted(n))
      BY <1>1, <3>1
    <3> QED
      BY <2>2, <3>2, <3>3
  <2> QED
    BY <1>1, <2>1, <2>2
<1>6. LoginsAreSpaced'
  BY <1>1, <1>3, <1>5 DEF LoginsAreSpaced, Counted, Delay
<1> QED
  BY <1>1, <1>3, <1>4, <1>6 DEF ThrottleInv, Counted, Delay

LEMMA ThrottleKeeps ==
    ASSUME DelaysAreNatural, ThrottleInv, [Next]_vars
    PROVE  ThrottleInv'
<1>1. CASE RejectLogin
  BY <1>1, RejectionKeeps
<1>2. ASSUME ClearFailures, UNCHANGED time PROVE ThrottleInv'
  <2>1. rejected' = <<>> /\ throttle'.attempts = 0 /\ time' \in Nat
    BY <1>2 DEF ClearFailures, NoFailures, ThrottleInv
  <2>2. Counted(0) = 0
    BY DEF Counted, DelaysAreNatural
  <2> QED
    BY <2>1, <2>2 DEF ThrottleInv, LoginsAreSpaced, Counted
<1>3. ASSUME UNCHANGED failures, time' \in Nat PROVE ThrottleInv'
  BY <1>3 DEF failures, ThrottleInv, LoginsAreSpaced, Counted, Delay
<1>4. CASE Bootstrap \/ Recover \/ \E s \in Sessions : Login(s)
  BY <1>2, <1>4 DEF Bootstrap, Recover, Login
<1>5. CASE \E s \in Sessions : Logout(s) \/ Touch(s)
  BY <1>3, <1>5 DEF Logout, Touch, ThrottleInv
<1>6. CASE \E q \in Mutations :
             \/ Pass(q) \/ ChangePassword(q) \/ RevokeAll(q) \/ ReplaceToken(q)
             \/ RevokeToken(q) \/ Refuse(q)
  BY <1>3, <1>6
     DEF Pass, ChangePassword, RevokeAll, ReplaceToken, RevokeToken, Refuse, ThrottleInv
<1>7. CASE RemoveExpired \/ Start \/ Stop \/ Tick
  BY <1>3, <1>7 DEF RemoveExpired, Start, Stop, Tick, ThrottleInv
<1>8. CASE UNCHANGED vars
  BY <1>3, <1>8 DEF vars, failures, ThrottleInv
<1> QED
  BY <1>1, <1>4, <1>5, <1>6, <1>7, <1>8 DEF Next

LEMMA ThrottleBegins == ASSUME DelaysAreNatural, Init PROVE ThrottleInv
<1>1. Counted(0) = 0
  BY DEF Counted, DelaysAreNatural
<1> QED
  BY <1>1 DEF Init, NoFailures, ThrottleInv, LoginsAreSpaced

-----------------------------------------------------------------------------
\* The invariant the results below rest on.
THEOREM AuthorityInvariant == ASSUME BoundsAreNatural PROVE Spec => []SessionsInv
<1>1. Init => SessionsInv
  BY Rows DEF Init, SessionsInv, Unopened
<1>2. SessionsInv /\ [Next]_vars => SessionsInv'
  BY StepKeeps
<1> QED
  BY <1>1, <1>2, PTL DEF Spec

\* A session that is honoured was opened after the last change of the password,
\* revocation of all sessions and recovery.
THEOREM AuthoritySessionsAreCurrent ==
    ASSUME BoundsAreNatural PROVE Spec => []SessionsAreCurrent
<1>1. SessionsInv => SessionsAreCurrent
  BY DEF SessionsInv, SessionsAreCurrent, Authenticates
<1> QED
  BY <1>1, AuthorityInvariant, PTL

\* A session that has ended is never honoured again, however long its row
\* stays and whatever is recorded late.
THEOREM AuthorityEndedStaysEnded ==
    ASSUME BoundsAreNatural PROVE Spec => EndedStaysEnded
<1>1. SessionsInv /\ SessionsInv' /\ [Next]_vars =>
        [\A s \in Sessions :
            sessions[s].opened /\ ~Authenticates(s) => ~Authenticates(s)']_vars
  <2> SUFFICES ASSUME SessionsInv, SessionsInv', [Next]_vars
               PROVE  \A s \in Sessions :
                        sessions[s].opened /\ ~Authenticates(s) => ~Authenticates(s)'
    OBVIOUS
  <2> QED
    BY StepKeeps, ExpiredStays
<1> QED
  BY <1>1, AuthorityInvariant, PTL DEF Spec, EndedStaysEnded

\* The next wrong password is tried only when the delay after the one before
\* is over, across restarts and changes of the password.
THEOREM AuthorityLoginsAreSpaced ==
    ASSUME DelaysAreNatural PROVE Spec => []LoginsAreSpaced
<1>1. ThrottleInv => LoginsAreSpaced
  BY DEF ThrottleInv
<1> QED
  BY <1>1, ThrottleBegins, ThrottleKeeps, PTL DEF Spec
=============================================================================
