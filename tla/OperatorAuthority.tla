-------------------------- MODULE OperatorAuthority --------------------------
(***************************************************************************)
(* Who the installation obeys:                                             *)
(*   src/src/operator/operator-password.ts        the password             *)
(*   src/src/operator/operator-login-throttle.ts  the delay after failures *)
(*   src/src/operator/operator-password-host.ts   bootstrap, recovery      *)
(*   src/src/browser-session.ts, browser-session-route.ts                  *)
(*   src/src/implementer-token.ts                                          *)
(*                                                                         *)
(* The product hook looks at the session of a request before its body is   *)
(* read (onRequest); its handler runs when the body is there, and others   *)
(* run meanwhile.  The rows are durable, the requests die with the         *)
(* process, and the host replaces the password only of an installation     *)
(* that is stopped, under its lock.  Secrets are the ids of their rows; a  *)
(* wrong CSRF token or Origin is refused like a session that has ended.    *)
(***************************************************************************)
EXTENDS Naturals, Sequences, FiniteSets

CONSTANTS
    MaxPending,                 \* bound on the requests that await their bodies
    Passwords,
    MaxSessions,                \* bound on the browser sessions
    IdleLifetime, AbsoluteLifetime,
    MaxAttempts, MaxDelay,      \* of the throttle
    MaxTime,                    \* bound on the clock
    MaxEpoch                    \* bound on what ends every session

VARIABLES
    time,
    password,       \* operator_password_verifier
    sessions,       \* browser_sessions
    throttle,       \* failed_operator_login_attempts, failed_operator_login_until
    implementer,    \* whether there is an implementer_token_verifier
    pending,        \* the requests whose bodies are awaited
    serving,        \* whether the application runs
    epoch,          \* history: how often every session was ended
    rejected        \* history: when logins were rejected since the last clearing

vars == <<time, password, sessions, throttle, implementer, pending, serving, epoch,
          rejected>>

-----------------------------------------------------------------------------
NoPassword == "uninitialized"
Times == 0 .. MaxTime
Sessions == 1 .. MaxSessions

\* stored: its row is there; under: the epoch it was opened in.
SessionType == [opened : BOOLEAN, stored : BOOLEAN, created : Times, last : Times,
                under : 0 .. MaxEpoch]
Unopened == [opened |-> FALSE, stored |-> FALSE, created |-> 0, last |-> 0, under |-> 0]
Gone == [Unopened EXCEPT !.opened = TRUE]

Operations == {"change", "revokeAll", "create", "rotate", "revoke"}
Mutations == [operation : Operations, typed : Passwords]

NoFailures == [attempts |-> 0, until |-> 0]

Init ==
    /\ time = 0
    /\ password = NoPassword
    /\ sessions = [s \in Sessions |-> Unopened]
    /\ throttle = NoFailures
    /\ implementer = FALSE
    /\ pending = {}
    /\ serving = FALSE
    /\ epoch = 0
    /\ rejected = <<>>

failures == <<throttle, rejected>>

-----------------------------------------------------------------------------
(* Sessions *)

\* hasExpired.
HasExpired(s) ==
    \/ time - sessions[s].created >= AbsoluteLifetime
    \/ time - sessions[s].last >= IdleLifetime

Authenticates(s) == sessions[s].stored /\ ~HasExpired(s)

\* min(first * 2^(attempts - 1), most), with the first delay as the unit.
Delay(attempts) ==
    IF 2 ^ (attempts - 1) < MaxDelay THEN 2 ^ (attempts - 1) ELSE MaxDelay

\* How many of n failures in a row are counted.
Counted(n) == IF n < MaxAttempts THEN n ELSE MaxAttempts

Throttled == throttle.until > time
ClearFailures == throttle' = NoFailures /\ rejected' = <<>>

\* login with the right password opens a session.
Login(s) ==
    /\ serving /\ ~Throttled /\ password # NoPassword
    /\ ~sessions[s].opened /\ \A earlier \in 1 .. s - 1 : sessions[earlier].opened
    /\ sessions' = [sessions EXCEPT ![s] =
           [opened |-> TRUE, stored |-> TRUE, created |-> time, last |-> time,
            under |-> epoch]]
    /\ ClearFailures
    /\ UNCHANGED <<time, password, implementer, pending, serving, epoch>>

\* login with another one; recordFailedOperatorLogin.
RejectLogin ==
    LET attempts == Counted(throttle.attempts + 1) IN
    /\ serving /\ ~Throttled /\ password # NoPassword
    /\ throttle' = [attempts |-> attempts, until |-> time + Delay(attempts)]
    /\ rejected' = Append(rejected, time)
    /\ UNCHANGED <<time, password, sessions, implementer, pending, serving, epoch>>

\* logout, which has no body.
Logout(s) ==
    /\ serving /\ Authenticates(s)
    /\ sessions' = [sessions EXCEPT ![s] = Gone]
    /\ UNCHANGED <<time, password, failures, implementer, pending, serving, epoch>>

\* recordBrowserSessionActivity.
Touch(s) ==
    /\ serving /\ Authenticates(s) /\ sessions[s].last # time
    /\ sessions' = [sessions EXCEPT ![s].last = time]
    /\ UNCHANGED <<time, password, failures, implementer, pending, serving, epoch>>

\* removeExpiredBrowserSessions, in the cleanup of the storage.
RemoveExpired ==
    /\ \E s \in Sessions : sessions[s].stored /\ HasExpired(s)
    /\ serving
    /\ sessions' = [s \in Sessions |->
           IF sessions[s].stored /\ HasExpired(s) THEN Gone ELSE sessions[s]]
    /\ UNCHANGED <<time, password, failures, implementer, pending, serving, epoch>>

-----------------------------------------------------------------------------
(* Mutations that a session asks for *)

\* The product hook lets the request of a session pass.
Pass(q) ==
    /\ serving /\ Cardinality(pending) < MaxPending
    /\ \E s \in Sessions : Authenticates(s)
    /\ pending' = pending \cup {q}
    /\ UNCHANGED <<time, password, sessions, failures, implementer, serving, epoch>>

\* Its handler runs; another one just like it may wait on.
Handles(q) == q \in pending /\ pending' \in {pending, pending \ {q}}

\* verifyOperatorPassword.
Confirmed(q) == q.typed = password

\* DELETE FROM browser_sessions.
EndSessions ==
    /\ epoch < MaxEpoch /\ epoch' = epoch + 1
    /\ sessions' = [s \in Sessions |-> IF sessions[s].opened THEN Gone ELSE Unopened]

\* changePassword keeps the delay and the tokens.
ChangePassword(q) ==
    /\ q.operation = "change" /\ Handles(q) /\ Confirmed(q)
    /\ password' \in Passwords
    /\ EndSessions
    /\ UNCHANGED <<time, failures, implementer, serving>>

RevokeAll(q) ==
    /\ q.operation = "revokeAll" /\ Handles(q) /\ Confirmed(q)
    /\ EndSessions
    /\ UNCHANGED <<time, password, failures, implementer, serving>>

\* create and rotate of the implementer token: replace.
ReplaceToken(q) ==
    /\ q.operation = IF implementer THEN "rotate" ELSE "create"
    /\ Handles(q) /\ Confirmed(q)
    /\ implementer' = TRUE
    /\ UNCHANGED <<time, password, sessions, failures, serving, epoch>>

RevokeToken(q) ==
    /\ q.operation = "revoke" /\ implementer
    /\ Handles(q) /\ Confirmed(q)
    /\ implementer' = FALSE
    /\ UNCHANGED <<time, password, sessions, failures, serving, epoch>>

\* What cannot be confirmed, or finds no token, or finds one, or a new password
\* that is too short: the error.
Refuses(q) ==
    \/ ~Confirmed(q) \/ q.operation = "change"
    \/ q.operation = "create" /\ implementer
    \/ q.operation \in {"rotate", "revoke"} /\ ~implementer

Refuse(q) ==
    /\ Refuses(q) /\ q \in pending
    /\ pending' = pending \ {q}
    /\ UNCHANGED <<time, password, sessions, failures, implementer, serving, epoch>>

-----------------------------------------------------------------------------
(* The host *)

Start ==
    /\ ~serving
    /\ serving' = TRUE
    /\ UNCHANGED <<time, password, sessions, failures, implementer, pending, epoch>>

\* The process ends, in order or not.
Stop ==
    /\ serving
    /\ serving' = FALSE
    /\ pending' = {}
    /\ UNCHANGED <<time, password, sessions, failures, implementer, epoch>>

\* bootstrapOperatorPassword.
Bootstrap ==
    /\ ~serving /\ password = NoPassword
    /\ password' \in Passwords
    /\ ClearFailures
    /\ UNCHANGED <<time, sessions, implementer, pending, serving, epoch>>

\* recoverOperatorAuthority.
Recover ==
    /\ ~serving /\ password # NoPassword
    /\ password' \in Passwords
    /\ EndSessions
    /\ implementer' = FALSE
    /\ ClearFailures
    /\ UNCHANGED <<time, pending, serving>>

Tick ==
    /\ time < MaxTime
    /\ time' = time + 1
    /\ UNCHANGED <<password, sessions, failures, implementer, pending, serving, epoch>>

-----------------------------------------------------------------------------
Next ==
    \/ \E s \in Sessions : Login(s) \/ Logout(s) \/ Touch(s)
    \/ \E q \in Mutations :
         \/ Pass(q) \/ ChangePassword(q) \/ RevokeAll(q) \/ ReplaceToken(q)
         \/ RevokeToken(q) \/ Refuse(q)
    \/ RejectLogin \/ RemoveExpired
    \/ Start \/ Stop \/ Bootstrap \/ Recover \/ Tick

Spec == Init /\ [][Next]_vars

-----------------------------------------------------------------------------
TypeOK ==
    /\ time \in Times
    /\ password \in Passwords \cup {NoPassword}
    /\ sessions \in [Sessions -> SessionType]
    /\ throttle \in [attempts : 0 .. MaxAttempts, until : 0 .. MaxTime + MaxDelay]
    /\ implementer \in BOOLEAN
    /\ pending \subseteq Mutations
    /\ serving \in BOOLEAN
    /\ epoch \in 0 .. MaxEpoch
    /\ rejected \in Seq(Times)

\* A session that has ended, by whatever ended it, is never honoured again: an
\* activity that is recorded late revives none.
EndedStaysEnded ==
    [][\A s \in Sessions :
          sessions[s].opened /\ ~Authenticates(s) => ~Authenticates(s)']_vars

\* No session outlives a change of the password, a revocation of all sessions
\* or a recovery, whatever was in flight: those that are honoured were opened
\* since.
SessionsAreCurrent ==
    \A s \in Sessions : Authenticates(s) => sessions[s].under = epoch

\* Passwords that are tried wrongly in a row are apart by at least the delay their
\* number imposes, which is capped, across restarts and changes of the password.
LoginsAreSpaced ==
    \A i \in 1 .. Len(rejected) - 1 : rejected[i + 1] - rejected[i] >= Delay(Counted(i))
=============================================================================
