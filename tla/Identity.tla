------------------------------ MODULE Identity ------------------------------
(***************************************************************************)
(* One account of the identity service (core/identity/src/lib.rs) and the   *)
(* operator directory it is loaded from (directory.rs): login with a        *)
(* password and a second factor, lockout, sessions, and the changes of      *)
(* credentials that revoke them.  No operation touches two accounts.        *)
(*                                                                         *)
(* Hashing and code generation are abstracted: a password, a secret and a   *)
(* set of recovery codes are numbers that grow when they are replaced, and  *)
(* a one-time code is the secret it was made from and its time step.  One   *)
(* tick of the clock is one TOTP step; the lifetimes keep their order.      *)
(***************************************************************************)
EXTENDS Naturals, FiniteSets

CONSTANTS FailureLimit,     \* LOGIN_FAILURE_LIMIT and MFA_FAILURE_LIMIT
          LockoutTicks, ChallengeTicks, SessionTicks,
          RecoveryCodes,    \* the codes of one generation
          Tokens,           \* identities of challenges
          MaxNow,           \* bound: the clock
          MaxSessions,      \* bound: stored sessions
          MaxVersion        \* bound: changes of credentials

VARIABLES now,
          account,          \* the user record
          failures,         \* consecutive failures and the end of a lockout, 0 for none
          challenges,       \* open second-factor challenges
          sessions,         \* stored sessions
          spentFactors,     \* history: what has granted a session
          guesses           \* history: refusals since a success or a served lockout

identityVars == <<now, account, failures, challenges, sessions, spentFactors, guesses>>

NoFailures == [count |-> 0, until |-> 0]

(* import_user, from a validated directory entry: a password and a secret,  *)
(* no recovery codes yet.                                                   *)
Imported ==
    [enabled |-> TRUE, version |-> 1, secret |-> 1, lastStep |-> 0, generation |-> 0,
     codes |-> {}]

(* create_user: no second factor yet.                                       *)
Created == [Imported EXCEPT !.secret = 0]

Init ==
    /\ now = 1
    /\ account \in {Imported, Created}
    /\ failures = NoFailures
    /\ challenges = {} /\ sessions = {}
    /\ spentFactors = {} /\ guesses = 0

-----------------------------------------------------------------------------
(* is_locked: an elapsed lockout is forgotten with its count.               *)
Locked == failures.until # 0 /\ now < failures.until
Current == IF failures.until # 0 /\ now >= failures.until THEN NoFailures ELSE failures
Forgiven == Current # failures

(* record_failure.                                                          *)
AfterFailure ==
    LET count == Current.count + 1 IN
    [count |-> count, until |-> IF count >= FailureLimit THEN now + LockoutTicks
                                ELSE Current.until]

CountGuess == guesses' = IF Forgiven THEN 1 ELSE guesses + 1

(* issue_session.  `by` is the factor that completed the login; the opaque   *)
(* session token is new every time.                                         *)
Issue(by) ==
    /\ account.enabled
    /\ Cardinality(sessions) < MaxSessions
    /\ sessions' = sessions \union
           {[expires |-> now + SessionTicks, version |-> account.version, by |-> by]}
    /\ spentFactors' = spentFactors \union {by}
    /\ failures' = NoFailures
    /\ guesses' = 0

Fresh(token) == token \notin {c.token : c \in challenges}

Refused ==
    /\ failures' = AfterFailure
    /\ CountGuess
    /\ UNCHANGED <<now, account, sessions, spentFactors>>

-----------------------------------------------------------------------------
(* begin_login with a wrong password, or to a disabled account.             *)
RefuseLogin ==
    /\ ~Locked
    /\ Refused
    /\ UNCHANGED challenges

(* begin_login without an enrolled second factor.                           *)
LoginByPassword ==
    /\ ~Locked /\ account.secret = 0
    /\ Issue(<<"password">>)
    /\ UNCHANGED <<now, account, challenges>>

Challenge(token) == [token |-> token, expires |-> now + ChallengeTicks, attempts |-> 0]

(* Faulty: a right password clears the failures before the second factor.   *)
OpenChallengeForgiving(token) ==
    /\ ~Locked /\ account.enabled /\ account.secret # 0 /\ Fresh(token)
    /\ challenges' = challenges \union {Challenge(token)}
    /\ failures' = NoFailures
    /\ UNCHANGED <<now, account, sessions, spentFactors, guesses>>

(* begin_login with one: the failures stay until the login is complete.     *)
OpenChallenge(token) ==
    /\ ~Locked /\ account.enabled /\ account.secret # 0 /\ Fresh(token)
    /\ challenges' = challenges \union {Challenge(token)}
    /\ failures' = Current
    /\ guesses' = IF Forgiven THEN 0 ELSE guesses
    /\ UNCHANGED <<now, account, sessions, spentFactors>>

(* complete_totp and complete_recovery_code: a challenge that is late, used *)
(* up or of a locked account is dropped.                                    *)
Dead(c) == now > c.expires \/ c.attempts >= FailureLimit \/ Locked

DropChallenge(c) ==
    /\ Dead(c)
    /\ challenges' = challenges \ {c}
    /\ UNCHANGED <<now, account, failures, sessions, spentFactors, guesses>>

(* verify_totp: one step of tolerance, and later than the last accepted.    *)
Acceptable(step) == step \in {now - 1, now, now + 1} /\ step > account.lastStep

CompleteTotp(c, step) ==
    /\ ~Dead(c) /\ account.secret # 0 /\ Acceptable(step)
    /\ challenges' = challenges \ {c}
    /\ account' = [account EXCEPT !.lastStep = step]
    /\ Issue(<<"totp", account.secret, step>>)
    /\ UNCHANGED now

CompleteRecoveryCode(c, code) ==
    /\ ~Dead(c) /\ code \in account.codes
    /\ challenges' = challenges \ {c}
    /\ account' = [account EXCEPT !.codes = @ \ {code}]
    /\ Issue(<<"recovery", account.generation, code>>)
    /\ UNCHANGED now

(* A wrong code, or one used before, counts against the account.            *)
RefuseCode(c) ==
    /\ ~Dead(c)
    /\ challenges' = (challenges \ {c}) \union {[c EXCEPT !.attempts = @ + 1]}
    /\ Refused

-----------------------------------------------------------------------------
(* Every change of credentials or roles raises the security version and     *)
(* revokes the sessions; only disable_user drops the open challenges.       *)
ReplaceCredentials(record) ==
    /\ account' = [record EXCEPT !.version = @ + 1]
    /\ sessions' = {}
    /\ UNCHANGED <<now, failures, spentFactors, guesses>>

CanReplace == account.version < MaxVersion

(* set_totp_secret (enroll_totp): a new secret, nothing of the old one.     *)
SetTotpSecret ==
    /\ CanReplace
    /\ ReplaceCredentials([account EXCEPT !.secret = @ + 1, !.codes = {}, !.lastStep = 0])
    /\ UNCHANGED challenges

RotateRecoveryCodes ==
    /\ CanReplace /\ account.enabled /\ account.secret # 0
    /\ ReplaceCredentials([account EXCEPT !.codes = RecoveryCodes, !.generation = @ + 1])
    /\ UNCHANGED challenges

(* authorize and the guard of change_password.                              *)
Authorizes(s) == now <= s.expires /\ account.enabled /\ s.version = account.version

ChangePassword ==
    /\ CanReplace
    /\ \E s \in sessions : Authorizes(s)
    /\ ReplaceCredentials(account)
    /\ UNCHANGED challenges

SetRoles ==
    /\ CanReplace
    /\ ReplaceCredentials(account)
    /\ UNCHANGED challenges

DisableUser ==
    /\ CanReplace
    /\ ReplaceCredentials([account EXCEPT !.enabled = FALSE])
    /\ challenges' = {}

RevokeSession(s) ==
    /\ sessions' = sessions \ {s}
    /\ UNCHANGED <<now, account, failures, challenges, spentFactors, guesses>>

Tick ==
    /\ now < MaxNow
    /\ now' = now + 1
    /\ UNCHANGED <<account, failures, challenges, sessions, spentFactors, guesses>>

Next ==
    \/ RefuseLogin
    \/ LoginByPassword
    \/ \E t \in Tokens : OpenChallenge(t)
    \/ \E c \in challenges :
          \/ DropChallenge(c)
          \/ RefuseCode(c)
          \/ \E step \in 1..(MaxNow + 1) : CompleteTotp(c, step)
          \/ \E code \in RecoveryCodes : CompleteRecoveryCode(c, code)
    \/ SetTotpSecret \/ RotateRecoveryCodes \/ ChangePassword \/ SetRoles \/ DisableUser
    \/ \E s \in sessions : RevokeSession(s)
    \/ Tick

Spec == Init /\ [][Next]_identityVars

-----------------------------------------------------------------------------
TypeOK ==
    /\ now \in 1..MaxNow
    /\ account \in [enabled : BOOLEAN, version : 1..MaxVersion, secret : 0..MaxVersion,
                    lastStep : 0..(MaxNow + 1), generation : 0..MaxVersion,
                    codes : SUBSET RecoveryCodes]
    /\ failures \in [count : Nat, until : 0..(MaxNow + LockoutTicks)]
    /\ \A c \in challenges : c.token \in Tokens /\ c.attempts \in 0..FailureLimit
    /\ \A s \in sessions : s.version \in 1..MaxVersion /\ s.by \in spentFactors

(* A one-time code, a recovery code and a challenge grant at most one       *)
(* session each, whatever challenges are open side by side and however the  *)
(* secret is replaced meanwhile (complete_totp, complete_recovery_code).    *)
FactorGrantsOnce ==
    \A s \in sessions' \ sessions :
        /\ s.by[1] = "password" => account.secret = 0
        /\ s.by[1] # "password" =>
              s.by \notin spentFactors /\ Cardinality(challenges') < Cardinality(challenges)

(* However many challenges are opened, no more than FailureLimit wrong      *)
(* attempts are judged before a login succeeds or a lockout is served       *)
(* (record_failure, is_locked and the comment in begin_login).              *)
GuessesAreBounded == guesses <= FailureLimit

(* A stored session was issued under the credentials and roles that hold    *)
(* now; a disabled account has none (revoke_user_sessions, authorize).      *)
SessionsAreCurrent ==
    \A s \in sessions : s.version = account.version /\ account.enabled

(* All three: no factor, guess or session is worth more than the state that *)
(* permits it.                                                              *)
AccountIsGuarded ==
    /\ [][FactorGrantsOnce]_identityVars
    /\ [](GuessesAreBounded /\ SessionsAreCurrent)
=============================================================================
