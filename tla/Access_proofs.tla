---------------------------- MODULE Access_proofs ----------------------------
(***************************************************************************)
(* Who may use the platform, what becomes of their commands, of the        *)
(* questions to the processes that run their strategies, and of the orders *)
(* that pass the bridge to IBKR.                                           *)
(*                                                                         *)
(* An account, for any limits, lifetimes and codes: no factor grants a     *)
(* second session, no more guesses than the limit are judged, and no       *)
(* session outlives its credentials. The recorded failures are the guesses *)
(* judged since the last success, and the lockout is set when they reach   *)
(* the limit (GuessesAreCounted); a factor that granted a session is of an *)
(* earlier secret or generation, or no longer acceptable under the current *)
(* one (SpentIsSpent).                                                     *)
(*                                                                         *)
(* The routes of the trading API, for any operators, calls and scopes: an  *)
(* answered halt binds until its release, every change on record names an  *)
(* operator authorized for it, and an order happens once. A service that   *)
(* answers holds what its journal records (ServedIsRecorded), and every    *)
(* record is sound (RecordsAreSound).                                      *)
(*                                                                         *)
(* The pipe of a strategy worker, for any number of requests and frames: a *)
(* frame carries no identity, and yet no answer is taken for another. As   *)
(* long as the caller may ask, at most one frame is under way, and it is   *)
(* the question it waits for or what answers it (OneAtATime).              *)
(*                                                                         *)
(* The bridge to IBKR, for any orders and sessions: it places a client     *)
(* order once, places nothing anew that it knows was executed, takes no    *)
(* rejection back, and a refresh that succeeds has reported every earlier  *)
(* execution, once. What it remembers is of what IBKR has (MemorySound),   *)
(* what is under way is true (WireSound), its numbers are above all that   *)
(* IBKR holds (Numbered), and an end of a listing comes after what it      *)
(* lists (RefreshSound).                                                   *)
(***************************************************************************)
EXTENDS Identity, OperatorRoutes, StrategyWorker, IbkrBridge, FiniteSetTheorems,
        WellFoundedInduction, TLAPS

-----------------------------------------------------------------------------
(* The identity service.                                                    *)

(* The limits are positive numbers (LOGIN_FAILURE_LIMIT, LOCKOUT_SECONDS).  *)
FailureLimits == FailureLimit \in Nat \ {0} /\ LockoutTicks \in Nat

Account ==
    [enabled : BOOLEAN, version : Nat, secret : Nat, lastStep : Nat, generation : Nat,
     codes : SUBSET RecoveryCodes]

AccountTypes ==
    /\ now \in Nat \ {0}
    /\ account \in Account
    /\ failures \in [count : Nat, until : Nat]
    /\ IsFiniteSet(challenges)

GuessesAreCounted ==
    /\ guesses = failures.count
    /\ guesses <= FailureLimit
    /\ failures.until = 0 <=> failures.count < FailureLimit

(* It can grant no session any more.                                        *)
Spent(factor) ==
    \/ factor = <<"password">>
    \/ \E secret, step \in Nat :
          /\ factor = <<"totp", secret, step>>
          /\ secret < account.secret \/ (secret = account.secret /\ step <= account.lastStep)
    \/ \E generation \in Nat, code \in RecoveryCodes :
          /\ factor = <<"recovery", generation, code>>
          /\ \/ generation < account.generation
             \/ generation = account.generation /\ code \notin account.codes

SpentIsSpent == \A factor \in spentFactors : Spent(factor)

Inv == AccountTypes /\ GuessesAreCounted /\ SpentIsSpent /\ SessionsAreCurrent

-----------------------------------------------------------------------------
(* Each kind of step.                                                       *)

(* What a change of the account may do to what is spent.                    *)
LEMMA StaysSpent ==
    ASSUME account \in Account, account' \in Account,
           \/ account'.secret > account.secret
           \/ account'.secret = account.secret /\ account'.lastStep >= account.lastStep,
           \/ account'.generation > account.generation
           \/ account'.generation = account.generation /\ account'.codes \subseteq account.codes,
           NEW factor, Spent(factor)
    PROVE  Spent(factor)'
  <1>1. /\ account.secret \in Nat /\ account'.secret \in Nat
        /\ account.lastStep \in Nat /\ account'.lastStep \in Nat
        /\ account.generation \in Nat /\ account'.generation \in Nat
    BY DEF Account
  <1>2. CASE factor = <<"password">>
    BY <1>2 DEF Spent
  <1>3. ASSUME NEW secret \in Nat, NEW step \in Nat, factor = <<"totp", secret, step>>,
               secret < account.secret \/ (secret = account.secret /\ step <= account.lastStep)
        PROVE  Spent(factor)'
    <2>1. \/ secret < account'.secret
          \/ secret = account'.secret /\ step <= account'.lastStep
      BY <1>1, <1>3
    <2> QED BY <1>3, <2>1 DEF Spent
  <1>4. ASSUME NEW generation \in Nat, NEW code \in RecoveryCodes,
               factor = <<"recovery", generation, code>>,
               \/ generation < account.generation
               \/ generation = account.generation /\ code \notin account.codes
        PROVE  Spent(factor)'
    <2>1. \/ generation < account'.generation
          \/ generation = account'.generation /\ code \notin account'.codes
      BY <1>1, <1>4
    <2> QED BY <1>4, <2>1 DEF Spent
  <1> QED BY <1>2, <1>3, <1>4 DEF Spent

(* is_locked: what is left of the failures.                                 *)
LEMMA CurrentFailures ==
    ASSUME FailureLimits, Inv
    PROVE  /\ Current \in [count : Nat, until : Nat]
           /\ Current.until = 0 <=> Current.count < FailureLimit
           /\ (IF Forgiven THEN 0 ELSE guesses) = Current.count
           /\ ~Locked => Current.until = 0
  <1>1. /\ failures \in [count : Nat, until : Nat] /\ now \in Nat
        /\ FailureLimit \in Nat \ {0}
    BY DEF FailureLimits, Inv, AccountTypes
  <1>2. CASE Forgiven
    <2>1. /\ failures.until # 0 /\ now >= failures.until /\ Current = NoFailures
          /\ Current.count = 0 /\ Current.until = 0
      BY <1>1, <1>2 DEF Forgiven, Current, NoFailures
    <2> QED BY <1>1, <1>2, <2>1 DEF NoFailures
  <1>3. CASE ~Forgiven
    <2>1. Current = failures
      BY <1>3 DEF Forgiven
    <2>2. ~Locked => failures.until = 0
      <3> SUFFICES ASSUME ~Locked, failures.until # 0 PROVE FALSE
        OBVIOUS
      <3>1. Current = NoFailures /\ NoFailures.until = 0
        BY <1>1 DEF Locked, Current, NoFailures
      <3> QED BY <2>1, <3>1
    <2> QED BY <1>1, <1>3, <2>1, <2>2 DEF Inv, GuessesAreCounted
  <1> QED BY <1>2, <1>3

(* record_failure, outside a lockout.                                       *)
LEMMA Refusing ==
    ASSUME FailureLimits, Inv, ~Locked, Refused, IsFiniteSet(challenges')
    PROVE  Inv'
  <1>1. /\ Current \in [count : Nat, until : Nat] /\ now \in Nat \ {0}
        /\ FailureLimit \in Nat \ {0} /\ LockoutTicks \in Nat
        /\ Current.until = 0 /\ Current.count < FailureLimit
        /\ (IF Forgiven THEN 0 ELSE guesses) = Current.count
    BY CurrentFailures DEF FailureLimits, Inv, AccountTypes
  <1> DEFINE count == Current.count + 1
             until == IF count >= FailureLimit THEN now + LockoutTicks ELSE Current.until
  <1>2. /\ failures' = [count |-> count, until |-> until]
        /\ guesses' = IF Forgiven THEN 1 ELSE guesses + 1
        /\ UNCHANGED <<now, account, sessions, spentFactors>>
    BY DEF Refused, AfterFailure, CountGuess
  <1>3. /\ count \in Nat /\ count <= FailureLimit /\ until \in Nat
        /\ until = 0 <=> count < FailureLimit
    BY <1>1
  <1>4. guesses' = count
    BY <1>1, <1>2
  <1> HIDE DEF count, until
  <1>5. AccountTypes'
    BY <1>2, <1>3 DEF Inv, AccountTypes
  <1>6. GuessesAreCounted'
    BY <1>2, <1>3, <1>4 DEF GuessesAreCounted
  <1>7. SpentIsSpent' /\ SessionsAreCurrent'
    BY <1>2 DEF Inv, SpentIsSpent, Spent, SessionsAreCurrent
  <1> QED BY <1>5, <1>6, <1>7 DEF Inv

(* issue_session, by a factor that the step itself has used up.             *)
LEMMA Issuing ==
    ASSUME FailureLimits, Inv, NEW by, Issue(by), now' = now, IsFiniteSet(challenges'),
           account' \in Account, SpentIsSpent', account'.version = account.version,
           account'.enabled = account.enabled
    PROVE  Inv'
  <1>1. /\ failures' = NoFailures /\ guesses' = 0
        /\ sessions' = sessions \union
              {[expires |-> now + SessionTicks, version |-> account.version, by |-> by]}
        /\ account.enabled
    BY DEF Issue
  <1>2. NoFailures.count = 0 /\ NoFailures.until = 0 /\ NoFailures \in [count : Nat, until : Nat]
    BY DEF NoFailures
  <1>3. AccountTypes'
    BY <1>1, <1>2 DEF Inv, AccountTypes
  <1>4. GuessesAreCounted'
    BY <1>1, <1>2 DEF GuessesAreCounted, FailureLimits
  <1>5. SessionsAreCurrent'
    BY <1>1 DEF Inv, SessionsAreCurrent
  <1> QED BY <1>3, <1>4, <1>5 DEF Inv

(* Whoever changes the credentials revokes the sessions.                    *)
LEMMA Replacing ==
    ASSUME FailureLimits, Inv, NEW record \in Account, ReplaceCredentials(record),
           IsFiniteSet(challenges'),
           \/ record.secret > account.secret
           \/ record.secret = account.secret /\ record.lastStep >= account.lastStep,
           \/ record.generation > account.generation
           \/ record.generation = account.generation /\ record.codes \subseteq account.codes
    PROVE  Inv'
  <1>1. /\ account' = [record EXCEPT !.version = record.version + 1]
        /\ sessions' = {} /\ UNCHANGED <<now, failures, spentFactors, guesses>>
    BY DEF ReplaceCredentials
  <1>2. /\ account' \in Account
        /\ account'.secret = record.secret /\ account'.lastStep = record.lastStep
        /\ account'.generation = record.generation /\ account'.codes = record.codes
    BY <1>1 DEF Account
  <1>3. AccountTypes'
    BY <1>1, <1>2 DEF Inv, AccountTypes
  <1>4. GuessesAreCounted' /\ SessionsAreCurrent'
    BY <1>1 DEF Inv, GuessesAreCounted, SessionsAreCurrent
  <1>5. SpentIsSpent'
    BY <1>1, <1>2, StaysSpent DEF Inv, AccountTypes, SpentIsSpent
  <1> QED BY <1>3, <1>4, <1>5 DEF Inv

-----------------------------------------------------------------------------
(* The steps.                                                               *)

LEMMA Completing ==
    ASSUME FailureLimits, Inv, NEW c \in challenges
    PROVE  /\ \A step \in 1..(MaxNow + 1) : CompleteTotp(c, step) => Inv'
           /\ \A code \in RecoveryCodes : CompleteRecoveryCode(c, code) => Inv'
  <1>1. account \in Account /\ IsFiniteSet(challenges \ {c}) /\ now \in Nat
    BY FS_RemoveElement DEF Inv, AccountTypes
  <1>2. ASSUME NEW step \in 1..(MaxNow + 1), CompleteTotp(c, step)
        PROVE  Inv'
    <2> DEFINE by == <<"totp", account.secret, step>>
    <2>1. /\ account' = [account EXCEPT !.lastStep = step]
          /\ challenges' = challenges \ {c} /\ now' = now /\ Issue(by)
          /\ step \in {now - 1, now, now + 1} /\ step > account.lastStep
      BY <1>2 DEF CompleteTotp, Acceptable
    <2>2. step \in Nat /\ account.lastStep \in Nat /\ account.secret \in Nat
      BY <1>1, <2>1 DEF Account
    <2>3. /\ account' \in Account /\ account'.lastStep = step
          /\ account'.secret = account.secret /\ account'.generation = account.generation
          /\ account'.codes = account.codes /\ account'.version = account.version
          /\ account'.enabled = account.enabled
      BY <1>1, <2>1, <2>2 DEF Account
    <2>4. Spent(by)'
      BY <2>2, <2>3 DEF Spent
    <2>5. \A factor \in spentFactors : Spent(factor)'
      BY <1>1, <2>1, <2>2, <2>3, StaysSpent DEF Inv, SpentIsSpent
    <2>6. SpentIsSpent'
      BY <2>1, <2>4, <2>5 DEF Issue, SpentIsSpent
    <2> QED BY <1>1, <2>1, <2>3, <2>6, Issuing
  <1>3. ASSUME NEW code \in RecoveryCodes, CompleteRecoveryCode(c, code)
        PROVE  Inv'
    <2> DEFINE by == <<"recovery", account.generation, code>>
    <2>1. /\ account' = [account EXCEPT !.codes = account.codes \ {code}]
          /\ challenges' = challenges \ {c} /\ now' = now /\ Issue(by)
      BY <1>3 DEF CompleteRecoveryCode
    <2>2. account.lastStep \in Nat /\ account.secret \in Nat /\ account.generation \in Nat
      BY <1>1 DEF Account
    <2>3. /\ account' \in Account /\ account'.lastStep = account.lastStep
          /\ account'.secret = account.secret /\ account'.generation = account.generation
          /\ account'.codes = account.codes \ {code} /\ account'.version = account.version
          /\ account'.enabled = account.enabled
      BY <1>1, <2>1 DEF Account
    <2>4. Spent(by)'
      BY <2>2, <2>3 DEF Spent
    <2>5. \A factor \in spentFactors : Spent(factor)'
      BY <1>1, <2>2, <2>3, StaysSpent DEF Inv, SpentIsSpent
    <2>6. SpentIsSpent'
      BY <2>1, <2>4, <2>5 DEF Issue, SpentIsSpent
    <2> QED BY <1>1, <2>1, <2>3, <2>6, Issuing
  <1> QED BY <1>2, <1>3

LEMMA Changing ==
    ASSUME FailureLimits, Inv,
           SetTotpSecret \/ RotateRecoveryCodes \/ ChangePassword \/ SetRoles \/ DisableUser
    PROVE  Inv'
  <1>1. /\ account \in Account /\ IsFiniteSet(challenges)
        /\ account.secret \in Nat /\ account.lastStep \in Nat /\ account.generation \in Nat
    BY DEF Inv, AccountTypes, Account
  <1>2. IsFiniteSet(challenges')
    BY <1>1, FS_EmptySet
       DEF SetTotpSecret, RotateRecoveryCodes, ChangePassword, SetRoles, DisableUser
  <1>3. CASE SetTotpSecret
    <2> DEFINE record == [account EXCEPT !.secret = account.secret + 1, !.codes = {},
                                         !.lastStep = 0]
    <2>1. /\ record.secret = account.secret + 1
          /\ record.generation = account.generation /\ record.codes = {}
          /\ record \in Account
      <3> DEFINE first == [account EXCEPT !.secret = account.secret + 1]
                 second == [first EXCEPT !.codes = {}]
      <3>1. first \in Account /\ first.secret = account.secret + 1
            /\ first.generation = account.generation
        BY <1>1 DEF Account
      <3>2. record = [second EXCEPT !.lastStep = 0]
        OBVIOUS
      <3> HIDE DEF first, record
      <3>3. second \in Account /\ second.secret = first.secret
            /\ second.generation = first.generation /\ second.codes = {}
        BY <3>1 DEF Account
      <3> HIDE DEF second
      <3> QED BY <3>1, <3>2, <3>3 DEF Account
    <2>2. ReplaceCredentials(record)
      BY <1>3 DEF SetTotpSecret
    <2> HIDE DEF record
    <2> QED BY <1>1, <1>2, <2>1, <2>2, Replacing
  <1>4. CASE RotateRecoveryCodes
    <2> DEFINE record == [account EXCEPT !.codes = RecoveryCodes,
                                         !.generation = account.generation + 1]
    <2>1. /\ record.generation = account.generation + 1
          /\ record.secret = account.secret /\ record.lastStep = account.lastStep
          /\ record \in Account
      <3> DEFINE first == [account EXCEPT !.codes = RecoveryCodes]
      <3>1. first \in Account /\ first.secret = account.secret
            /\ first.lastStep = account.lastStep
        BY <1>1 DEF Account
      <3>2. record = [first EXCEPT !.generation = account.generation + 1]
        OBVIOUS
      <3> HIDE DEF first, record
      <3> QED BY <1>1, <3>1, <3>2 DEF Account
    <2>2. ReplaceCredentials(record)
      BY <1>4 DEF RotateRecoveryCodes
    <2> HIDE DEF record
    <2> QED BY <1>1, <1>2, <2>1, <2>2, Replacing
  <1>5. CASE ChangePassword \/ SetRoles
    BY <1>1, <1>2, <1>5, Replacing DEF ChangePassword, SetRoles
  <1>6. CASE DisableUser
    <2> DEFINE record == [account EXCEPT !.enabled = FALSE]
    <2>1. /\ record \in Account /\ record.generation = account.generation
          /\ record.codes = account.codes
          /\ record.secret = account.secret /\ record.lastStep = account.lastStep
      BY <1>1 DEF Account
    <2>2. ReplaceCredentials(record)
      BY <1>6 DEF DisableUser
    <2> HIDE DEF record
    <2> QED BY <1>1, <1>2, <2>1, <2>2, Replacing
  <1> QED BY <1>3, <1>4, <1>5, <1>6

(* A challenge is opened or dropped, a session revoked, time passes.        *)
LEMMA Others ==
    ASSUME FailureLimits, Inv,
           \/ \E t \in Tokens : OpenChallenge(t)
           \/ \E c \in challenges : DropChallenge(c)
           \/ \E s \in sessions : RevokeSession(s)
           \/ Tick
    PROVE  Inv'
  <1>1. CASE \E t \in Tokens : OpenChallenge(t)
    <2>1. PICK t \in Tokens : OpenChallenge(t)
      BY <1>1
    <2>2. /\ challenges' = challenges \union {Challenge(t)} /\ failures' = Current
          /\ guesses' = IF Forgiven THEN 0 ELSE guesses
          /\ UNCHANGED <<now, account, sessions, spentFactors>>
      BY <2>1 DEF OpenChallenge
    <2>3. /\ Current \in [count : Nat, until : Nat]
          /\ Current.until = 0 <=> Current.count < FailureLimit
          /\ guesses' = Current.count
      BY <2>2, CurrentFailures
    <2>4. Current.count <= FailureLimit
      <3>1. CASE Forgiven
        BY <2>2, <2>3, <3>1 DEF FailureLimits
      <3>2. CASE ~Forgiven
        BY <3>2 DEF Forgiven, Inv, GuessesAreCounted
      <3> QED BY <3>1, <3>2
    <2>5. IsFiniteSet(challenges')
      BY <2>2, FS_AddElement DEF Inv, AccountTypes
    <2>6. AccountTypes' /\ GuessesAreCounted'
      BY <2>2, <2>3, <2>4, <2>5 DEF Inv, AccountTypes, GuessesAreCounted
    <2> QED BY <2>2, <2>6 DEF Inv, SpentIsSpent, Spent, SessionsAreCurrent
  <1>2. CASE \E c \in challenges : DropChallenge(c)
    <2>1. /\ UNCHANGED <<now, account, failures, sessions, spentFactors, guesses>>
          /\ IsFiniteSet(challenges')
      BY <1>2, FS_RemoveElement DEF DropChallenge, Inv, AccountTypes
    <2> QED BY <2>1 DEF Inv, AccountTypes, GuessesAreCounted, SpentIsSpent, Spent,
                        SessionsAreCurrent
  <1>3. CASE \E s \in sessions : RevokeSession(s)
    <2>1. /\ UNCHANGED <<now, account, failures, challenges, spentFactors, guesses>>
          /\ sessions' \subseteq sessions
      BY <1>3 DEF RevokeSession
    <2> QED BY <2>1 DEF Inv, AccountTypes, GuessesAreCounted, SpentIsSpent, Spent,
                        SessionsAreCurrent
  <1>4. CASE Tick
    <2>1. /\ UNCHANGED <<account, failures, challenges, sessions, spentFactors, guesses>>
          /\ now' = now + 1
      BY <1>4 DEF Tick
    <2>2. now' \in Nat \ {0}
      BY <2>1 DEF Inv, AccountTypes
    <2> QED BY <2>1, <2>2 DEF Inv, AccountTypes, GuessesAreCounted, SpentIsSpent, Spent,
                              SessionsAreCurrent
  <1> QED BY <1>1, <1>2, <1>3, <1>4

LEMMA InvInit == FailureLimits /\ Init => Inv
  <1> SUFFICES ASSUME FailureLimits, Init PROVE Inv
    OBVIOUS
  <1>1. Imported \in Account /\ Created \in Account
    BY DEF Imported, Created, Account
  <1>2. NoFailures.count = 0 /\ NoFailures.until = 0 /\ NoFailures \in [count : Nat, until : Nat]
    BY DEF NoFailures
  <1>3. AccountTypes
    BY <1>1, <1>2, FS_EmptySet DEF Init, AccountTypes
  <1>4. GuessesAreCounted
    BY <1>2 DEF Init, GuessesAreCounted, FailureLimits
  <1> QED BY <1>3, <1>4 DEF Init, Inv, SpentIsSpent, SessionsAreCurrent

LEMMA InvNext == FailureLimits /\ Inv /\ [Next]_identityVars => Inv'
  <1> SUFFICES ASSUME FailureLimits, Inv, [Next]_identityVars PROVE Inv'
    OBVIOUS
  <1>1. CASE RefuseLogin
    <2>1. ~Locked /\ Refused /\ IsFiniteSet(challenges')
      BY <1>1 DEF RefuseLogin, Inv, AccountTypes
    <2> QED BY <2>1, Refusing
  <1>2. CASE LoginByPassword
    <2>1. Issue(<<"password">>) /\ UNCHANGED <<now, account, challenges>>
      BY <1>2 DEF LoginByPassword
    <2>2. SpentIsSpent'
      BY <2>1 DEF Inv, Issue, SpentIsSpent, Spent
    <2> QED BY <2>1, <2>2, Issuing DEF Inv, AccountTypes
  <1>3. CASE \E c \in challenges : RefuseCode(c)
    <2>1. PICK c \in challenges : RefuseCode(c)
      BY <1>3
    <2>2. IsFiniteSet(challenges')
      BY <2>1, FS_RemoveElement, FS_AddElement DEF RefuseCode, Inv, AccountTypes
    <2>3. ~Locked /\ Refused
      BY <2>1 DEF RefuseCode, Dead
    <2> QED BY <2>2, <2>3, Refusing
  <1>4. CASE \E c \in challenges :
                \/ \E step \in 1..(MaxNow + 1) : CompleteTotp(c, step)
                \/ \E code \in RecoveryCodes : CompleteRecoveryCode(c, code)
    BY <1>4, Completing
  <1>5. CASE SetTotpSecret \/ RotateRecoveryCodes \/ ChangePassword \/ SetRoles \/ DisableUser
    BY <1>5, Changing
  <1>6. CASE \/ \E t \in Tokens : OpenChallenge(t)
             \/ \E c \in challenges : DropChallenge(c)
             \/ \E s \in sessions : RevokeSession(s)
             \/ Tick
    BY <1>6, Others
  <1>7. CASE UNCHANGED identityVars
    BY <1>7 DEF identityVars, Inv, AccountTypes, GuessesAreCounted, SpentIsSpent, Spent,
                SessionsAreCurrent
  <1> QED BY <1>1, <1>2, <1>3, <1>4, <1>5, <1>6, <1>7 DEF Next

(* A session is granted by a factor not used before, and takes a challenge  *)
(* with it.                                                                 *)
LEMMA GrantsOnce ==
    ASSUME Inv, Next
    PROVE  FactorGrantsOnce
  <1> SUFFICES ASSUME NEW s \in sessions', s \notin sessions
               PROVE  /\ s.by[1] = "password" => account.secret = 0
                      /\ s.by[1] # "password" =>
                            /\ s.by \notin spentFactors
                            /\ Cardinality(challenges') < Cardinality(challenges)
    BY DEF FactorGrantsOnce
  <1>1. \A by : Issue(by) => s.by = by
    BY DEF Issue
  <1>2. \A c \in challenges :
           challenges' = challenges \ {c} => Cardinality(challenges') < Cardinality(challenges)
    <2> SUFFICES ASSUME NEW c \in challenges
                 PROVE  Cardinality(challenges \ {c}) < Cardinality(challenges)
      OBVIOUS
    <2>1. IsFiniteSet(challenges) /\ Cardinality(challenges) \in Nat
      BY FS_CardinalityType DEF Inv, AccountTypes
    <2>2. Cardinality(challenges \ {c}) = Cardinality(challenges) - 1
      BY <2>1, FS_RemoveElement
    <2> QED BY <2>1, <2>2
  <1>3. account \in Account /\ \A factor \in spentFactors : Spent(factor)
    BY DEF Inv, AccountTypes, SpentIsSpent
  <1>4. CASE LoginByPassword
    <2>1. s.by = <<"password">> /\ account.secret = 0
      BY <1>1, <1>4 DEF LoginByPassword
    <2> QED BY <2>1
  <1>5. ASSUME NEW c \in challenges, NEW step, CompleteTotp(c, step)
        PROVE  /\ s.by[1] = "totp" /\ s.by \notin spentFactors
               /\ Cardinality(challenges') < Cardinality(challenges)
    <2>1. /\ s.by = <<"totp", account.secret, step>> /\ step > account.lastStep
          /\ challenges' = challenges \ {c} /\ now \in Nat /\ step \in {now - 1, now, now + 1}
      BY <1>1, <1>5 DEF CompleteTotp, Acceptable, Inv, AccountTypes
    <2>2. ~Spent(s.by)
      BY <1>3, <2>1 DEF Spent, Account
    <2> QED BY <1>2, <1>3, <2>1, <2>2
  <1>6. ASSUME NEW c \in challenges, NEW code, CompleteRecoveryCode(c, code)
        PROVE  /\ s.by[1] = "recovery" /\ s.by \notin spentFactors
               /\ Cardinality(challenges') < Cardinality(challenges)
    <2>1. /\ s.by = <<"recovery", account.generation, code>> /\ code \in account.codes
          /\ challenges' = challenges \ {c}
      BY <1>1, <1>6 DEF CompleteRecoveryCode
    <2>2. ~Spent(s.by)
      BY <1>3, <2>1 DEF Spent, Account
    <2> QED BY <1>2, <1>3, <2>1, <2>2
  <1>7. CASE sessions' \subseteq sessions
    BY <1>7
  <1>8. CASE \/ RefuseLogin \/ SetTotpSecret \/ RotateRecoveryCodes \/ ChangePassword
             \/ SetRoles \/ DisableUser \/ Tick
             \/ \E t \in Tokens : OpenChallenge(t)
             \/ \E c \in challenges : DropChallenge(c) \/ RefuseCode(c)
             \/ \E r \in sessions : RevokeSession(r)
    <2>1. sessions' \subseteq sessions
      BY <1>8 DEF RefuseLogin, Refused, SetTotpSecret, RotateRecoveryCodes, ChangePassword,
                  SetRoles, DisableUser, ReplaceCredentials, Tick, OpenChallenge,
                  DropChallenge, RefuseCode, RevokeSession
    <2> QED BY <1>7, <2>1
  <1> QED BY <1>4, <1>5, <1>6, <1>8 DEF Next

-----------------------------------------------------------------------------
(* No factor, guess or session of an account is worth more than the state   *)
(* that permits it: a one-time code, a recovery code and a challenge grant  *)
(* one session at most (complete_totp, complete_recovery_code), no more     *)
(* than the limit of wrong attempts are judged before a success or a served *)
(* lockout (record_failure), and a session is of the present credentials of *)
(* an enabled account (revoke_user_sessions).                               *)
THEOREM AccountGuarded ==
    ASSUME FailureLimits
    PROVE  Spec => AccountIsGuarded
  <1>1. Init => Inv
    BY InvInit
  <1>2. Inv /\ [Next]_identityVars => Inv'
    BY InvNext
  <1>3. Inv => GuessesAreBounded /\ SessionsAreCurrent
    BY DEF Inv, GuessesAreCounted, GuessesAreBounded
  <1>4. Inv /\ [Next]_identityVars => [FactorGrantsOnce]_identityVars
    BY GrantsOnce
  <1> QED BY <1>1, <1>2, <1>3, <1>4, PTL DEF Spec, AccountIsGuarded

-----------------------------------------------------------------------------
(* The routes of the trading API.                                           *)

Rpcs == {"ACTIVATE", "RELEASE", "SUBMIT", "CANCEL", "RECONCILE", "RECONNECT", "ADJUST"}
Incoming == UNION Scenarios
Targets == {CallOf[c].on : c \in Incoming}

(* A call is one of the write requests of an operator, and orders are       *)
(* submitted and cancelled by their name.                                   *)
CallsAreRequests ==
    /\ SessionSeconds \in Nat
    /\ \A c \in Incoming :
          /\ CallOf[c].rpc \in Rpcs /\ CallOf[c].by \in Operators
          /\ CallOf[c].route \in Routes
          /\ CallOf[c].rpc \in {"SUBMIT", "CANCEL"} => CallOf[c].on \in Orders

OrderRecords ==
    [state : {"NONE", "PENDING_SUBMIT", "ACKNOWLEDGED", "UNKNOWN", "PENDING_CANCEL", "CANCELLED"},
     by : Operators \union {"nobody"}]
OperationRecords == [by : Operators, rpc : Rpcs, on : Targets, at : Nat]
ServiceRecords ==
    [switches : SUBSET Targets, orders : [Orders -> OrderRecords],
     operations : SUBSET OperationRecords]

RouteTypes ==
    /\ time \in Nat \ {0} /\ starts \in Nat
    /\ expires \in [Operators -> Nat]
    /\ DOMAIN calls \subseteq Incoming
    /\ calls \in [DOMAIN calls -> [at : {"NEW", "WAITING", "OK", "REFUSED"}, now : Nat]]
    /\ memory \in [Routes -> ServiceRecords] /\ journal \in [Routes -> ServiceRecords]
    /\ healthy \in [Routes -> BOOLEAN] /\ connected \in BOOLEAN
    /\ halted \subseteq Routes \X Targets
    /\ sent \subseteq [order : Orders, call : Incoming, halted : SUBSET (Routes \X Targets)]

(* Who may command now is remembered, and so is who waits for the lock.     *)
SessionsAreHeld == \A p \in Operators : time <= expires[p] => <<p, time>> \in held
WaitingIsAuthorized ==
    \A c \in DOMAIN calls : calls[c].at = "WAITING" =>
        /\ <<CallOf[c].by, calls[c].now>> \in held
        /\ Permission(CallOf[c].rpc) \in Grants[CallOf[c].by]

(* What a record of a service holds, in memory as on disk.                  *)
OperationsHeld(r, granted) ==
    \A op \in r.operations :
        <<op.by, op.at>> \in granted /\ Permission(op.rpc) \in Grants[op.by]
CancelsRecorded(r) ==
    \A o \in Orders : r.orders[o].state \in {"PENDING_CANCEL", "CANCELLED"} =>
        \E op \in r.operations : op.rpc = "CANCEL" /\ op.on = o
AdjustsOnce(r) ==
    \A op, other \in r.operations :
        op.rpc = "ADJUST" /\ other.rpc = "ADJUST" /\ op.on = other.on => op = other
Sound(r, granted) == OperationsHeld(r, granted) /\ CancelsRecorded(r) /\ AdjustsOnce(r)

RecordsAreSound ==
    \A r \in Routes : Sound(memory[r], held) /\ Sound(journal[r], held)

ServedIsRecorded == \A r \in Routes : healthy[r] => memory[r] = journal[r]

(* What was answered or sent stands in the journal.                         *)
HaltsStand == \A h \in halted : h[2] \in journal[h[1]].switches
SentUnhalted == \A s \in sent : \A h \in s.halted : h[1] = "PAPER" => s.order \notin Covers[h[2]]
CancelsStand ==
    \A c \in DOMAIN calls : CallOf[c].rpc = "CANCEL" /\ calls[c].at = "OK" =>
        \E op \in journal["PAPER"].operations : op.rpc = "CANCEL" /\ op.on = CallOf[c].on
OwnedBy(order, p) == order.state # "NONE" /\ order.by = p
SentStands ==
    /\ \A s, t \in sent : s.order = t.order => s = t
    /\ \A s \in sent : OwnedBy(journal["PAPER"].orders[s.order], CallOf[s.call].by)
SubmitsStand ==
    \A c \in DOMAIN calls : CallOf[c].rpc = "SUBMIT" /\ calls[c].at = "OK" =>
        OwnedBy(journal["PAPER"].orders[CallOf[c].on], CallOf[c].by)

RoutesInv ==
    /\ RouteTypes /\ SessionsAreHeld /\ WaitingIsAuthorized /\ RecordsAreSound
    /\ ServedIsRecorded /\ HaltsStand /\ SentUnhalted /\ CancelsStand /\ SentStands
    /\ SubmitsStand

-----------------------------------------------------------------------------
(* A service is opened with nothing on record (RoutesInit).                 *)
LEMMA RoutesStart ==
    ASSUME CallsAreRequests, RoutesInit
    PROVE  RoutesInv
  <1>1. Opened \in ServiceRecords
    BY DEF Opened, NoOrder, ServiceRecords, OrderRecords
  <1>2. Sound(Opened, {})
    BY DEF Opened, NoOrder, Sound, OperationsHeld, CancelsRecorded, AdjustsOnce
  <1>3. RouteTypes
    BY <1>1 DEF RoutesInit, RouteTypes, Incoming
  <1>4. SessionsAreHeld /\ WaitingIsAuthorized
    BY DEF RoutesInit, SessionsAreHeld, WaitingIsAuthorized
  <1>5. RecordsAreSound /\ ServedIsRecorded
    BY <1>2 DEF RoutesInit, RecordsAreSound, ServedIsRecorded
  <1>6. HaltsStand /\ SentUnhalted /\ CancelsStand /\ SentStands /\ SubmitsStand
    BY DEF RoutesInit, HaltsStand, SentUnhalted, CancelsStand, SentStands, SubmitsStand
  <1> QED BY <1>3, <1>4, <1>5, <1>6 DEF RoutesInv

(* More granted remembered make no record unsound.                         *)
LEMMA SoundGrows ==
    ASSUME NEW r, NEW some, NEW more, some \subseteq more, Sound(r, some)
    PROVE  Sound(r, more)
  BY DEF Sound, OperationsHeld

-----------------------------------------------------------------------------
(* Sessions, the clock and the first half of a handler.                     *)
LEMMA SessionsKeep ==
    ASSUME CallsAreRequests, RoutesInv,
           \/ \E p \in Operators : Login(p) \/ Revoke(p)
           \/ TimePasses
    PROVE  RoutesInv'
  <1> DEFINE apart == UNCHANGED <<starts, calls, memory, healthy, connected, journal, halted, sent>>
  <1> USE DEF RoutesInv
  <1>1. apart /\ held \subseteq held'
    BY DEF Login, Revoke, TimePasses
  <1>2. time' \in Nat \ {0} /\ expires' \in [Operators -> Nat] /\ SessionsAreHeld'
    <2>1. ASSUME NEW p \in Operators, Login(p)
          PROVE  time' \in Nat \ {0} /\ expires' \in [Operators -> Nat] /\ SessionsAreHeld'
      BY <2>1 DEF Login, RouteTypes, SessionsAreHeld, CallsAreRequests
    <2>2. ASSUME NEW p \in Operators, Revoke(p)
          PROVE  time' \in Nat \ {0} /\ expires' \in [Operators -> Nat] /\ SessionsAreHeld'
      BY <2>2 DEF Revoke, RouteTypes, SessionsAreHeld
    <2>3. CASE TimePasses
      <3>1. expires' = [p \in Operators |-> IF time < expires[p] THEN expires[p] ELSE 0]
            /\ time' = time + 1
            /\ held' = held \union {<<p, time + 1>> : p \in {q \in Operators : time < expires[q]}}
        BY <2>3 DEF TimePasses
      <3>2. time' \in Nat \ {0} /\ expires' \in [Operators -> Nat]
        BY <3>1 DEF RouteTypes
      <3>3. ASSUME NEW p \in Operators, time' <= expires'[p] PROVE <<p, time'>> \in held'
        BY <3>1, <3>3 DEF RouteTypes
      <3> QED BY <3>2, <3>3 DEF SessionsAreHeld
    <2> QED BY <2>1, <2>2, <2>3
  <1>3. RouteTypes'
    BY <1>1, <1>2 DEF RouteTypes
  <1>4. WaitingIsAuthorized'
    BY <1>1 DEF WaitingIsAuthorized
  <1>5. RecordsAreSound'
    BY <1>1, SoundGrows DEF RecordsAreSound
  <1>6. (ServedIsRecorded /\ HaltsStand /\ SentUnhalted /\ CancelsStand /\ SentStands
         /\ SubmitsStand)'
    BY <1>1 DEF ServedIsRecorded, HaltsStand, SentUnhalted, CancelsStand, SentStands, SubmitsStand
  <1> QED BY <1>2, <1>3, <1>4, <1>5, <1>6

LEMMA AuthorizeKeeps ==
    ASSUME CallsAreRequests, RoutesInv, NEW c \in DOMAIN calls, Authorize(c)
    PROVE  RoutesInv'
  <1> USE DEF RoutesInv
  <1>1. calls' = [calls EXCEPT ![c] = [at |-> "WAITING", now |-> time]]
        /\ UNCHANGED <<time, starts, expires, held, memory, healthy, connected, journal, halted, sent>>
    BY DEF Authorize, callVars
  <1>2. CallOf[c].by \in Operators /\ time <= expires[CallOf[c].by]
        /\ Permission(CallOf[c].rpc) \in Grants[CallOf[c].by]
    BY DEF Authorize, Authorized, CallsAreRequests, RouteTypes
  <1>3. RouteTypes'
    BY <1>1 DEF RouteTypes
  <1>4. WaitingIsAuthorized'
    BY <1>1, <1>2 DEF WaitingIsAuthorized, SessionsAreHeld, RouteTypes
  <1>5. (SessionsAreHeld /\ RecordsAreSound /\ ServedIsRecorded /\ HaltsStand /\ SentUnhalted
         /\ SentStands)'
    BY <1>1 DEF SessionsAreHeld, RecordsAreSound, ServedIsRecorded, HaltsStand, SentUnhalted, SentStands
  <1>6. (CancelsStand /\ SubmitsStand)'
    BY <1>1 DEF CancelsStand, SubmitsStand, RouteTypes
  <1> QED BY <1>3, <1>4, <1>5, <1>6

-----------------------------------------------------------------------------
(* Under the lock.                                                          *)

(* A later record of the same service: nothing on it is withdrawn.          *)
Follows(old, new) ==
    /\ old.operations \subseteq new.operations
    /\ \A o \in Orders : \A p : OwnedBy(old.orders[o], p) => OwnedBy(new.orders[o], p)

LEMMA LeaveKeeps ==
    ASSUME RoutesInv, UNCHANGED held, NEW route \in Routes,
           NEW state \in ServiceRecords, NEW recorded \in ServiceRecords, NEW append \in Appends,
           Sound(state, held), Sound(recorded, held),
           append = "WRITTEN" => recorded = state,
           Leave(route, state, recorded, append)
    PROVE  /\ memory' \in [Routes -> ServiceRecords] /\ journal' \in [Routes -> ServiceRecords]
           /\ healthy' \in [Routes -> BOOLEAN]
           /\ RecordsAreSound' /\ ServedIsRecorded'
           /\ journal'[route] = recorded
           /\ \A r \in Routes : r # route => journal'[r] = journal[r]
  <1> USE DEF RoutesInv
  <1>1. /\ memory' = [memory EXCEPT ![route] = state]
        /\ journal' = [journal EXCEPT ![route] = recorded]
        /\ healthy' = [healthy EXCEPT ![route] = append = "WRITTEN"]
    BY DEF Leave
  <1>2. /\ memory' \in [Routes -> ServiceRecords] /\ journal' \in [Routes -> ServiceRecords]
        /\ healthy' \in [Routes -> BOOLEAN]
    BY <1>1 DEF RouteTypes
  <1>3. /\ memory'[route] = state /\ journal'[route] = recorded
        /\ healthy'[route] = (append = "WRITTEN")
        /\ \A r \in Routes : r # route => /\ memory'[r] = memory[r] /\ journal'[r] = journal[r]
                                          /\ healthy'[r] = healthy[r]
    BY <1>1 DEF RouteTypes
  <1>4. RecordsAreSound'
    <2> SUFFICES ASSUME NEW r \in Routes
                 PROVE  Sound(memory'[r], held) /\ Sound(journal'[r], held)
      BY DEF RecordsAreSound
    <2> QED BY <1>3 DEF RecordsAreSound
  <1>5. ServedIsRecorded'
    BY <1>3 DEF ServedIsRecorded
  <1> QED BY <1>2, <1>3, <1>4, <1>5

LEMMA PersistKeeps ==
    ASSUME RoutesInv, UNCHANGED held, NEW route \in Routes,
           NEW state \in ServiceRecords, NEW append \in Appends,
           Sound(state, held), Persist(route, state, append)
    PROVE  /\ memory' \in [Routes -> ServiceRecords] /\ journal' \in [Routes -> ServiceRecords]
           /\ healthy' \in [Routes -> BOOLEAN]
           /\ RecordsAreSound' /\ ServedIsRecorded'
           /\ journal'[route] = IF OnDisk(append) THEN state ELSE journal[route]
           /\ \A r \in Routes : r # route => journal'[r] = journal[r]
  <1> DEFINE recorded == IF OnDisk(append) THEN state ELSE journal[route]
  <1>1. recorded \in ServiceRecords /\ Sound(recorded, held)
    BY DEF RoutesInv, RouteTypes, RecordsAreSound
  <1>2. append = "WRITTEN" => recorded = state
    BY DEF OnDisk
  <1>3. Leave(route, state, recorded, append)
    BY DEF Persist
  <1> HIDE DEF recorded
  <1>4. /\ memory' \in [Routes -> ServiceRecords] /\ journal' \in [Routes -> ServiceRecords]
        /\ healthy' \in [Routes -> BOOLEAN]
        /\ RecordsAreSound' /\ ServedIsRecorded'
        /\ journal'[route] = recorded
        /\ \A r \in Routes : r # route => journal'[r] = journal[r]
    BY <1>1, <1>2, <1>3, LeaveKeeps
  <1> QED BY <1>4 DEF recorded

(* Answering a call that waits, once the journal only went on.              *)
LEMMA AnswerKeeps ==
    ASSUME RoutesInv, NEW c \in DOMAIN calls, calls[c].at = "WAITING", UNCHANGED callVars,
           NEW answer \in {"OK", "REFUSED"}, Answer(c, answer), connected' \in BOOLEAN,
           memory' \in [Routes -> ServiceRecords], journal' \in [Routes -> ServiceRecords],
           healthy' \in [Routes -> BOOLEAN], RecordsAreSound', ServedIsRecorded',
           Follows(journal["PAPER"], journal'["PAPER"]),
           halted' \subseteq Routes \X Targets, HaltsStand',
           sent' \subseteq [order : Orders, call : Incoming,
                            halted : SUBSET (Routes \X Targets)],
           SentUnhalted', SentStands',
           CallOf[c].rpc \in {"SUBMIT", "CANCEL"} => CallOf[c].on \in Orders,
           CallsAreRequests,
           answer = "OK" /\ CallOf[c].rpc = "CANCEL" =>
               \E op \in journal'["PAPER"].operations : op.rpc = "CANCEL" /\ op.on = CallOf[c].on,
           answer = "OK" /\ CallOf[c].rpc = "SUBMIT" =>
               OwnedBy(journal'["PAPER"].orders[CallOf[c].on], CallOf[c].by)
    PROVE  RoutesInv'
  <1> USE DEF RoutesInv
  <1>1. /\ calls' = [calls EXCEPT ![c] = [at |-> answer, now |-> 0]]
        /\ UNCHANGED <<time, starts, expires, held>>
    BY DEF Answer, callVars
  <1>2. /\ DOMAIN calls' = DOMAIN calls
        /\ calls'[c] = [at |-> answer, now |-> 0]
        /\ \A d \in DOMAIN calls : d # c => calls'[d] = calls[d]
    BY <1>1 DEF RouteTypes
  <1>3. RouteTypes'
    BY <1>1 DEF RouteTypes
  <1>4. SessionsAreHeld'
    BY <1>1 DEF SessionsAreHeld
  <1>5. WaitingIsAuthorized'
    BY <1>1, <1>2 DEF WaitingIsAuthorized
  <1>6. CancelsStand'
    <2> SUFFICES ASSUME NEW d \in DOMAIN calls, CallOf[d].rpc = "CANCEL", calls'[d].at = "OK"
                 PROVE  \E op \in journal'["PAPER"].operations :
                           op.rpc = "CANCEL" /\ op.on = CallOf[d].on
      BY <1>2 DEF CancelsStand
    <2>1. CASE d = c
      BY <1>2, <2>1
    <2>2. CASE d # c
      BY <1>2, <2>2 DEF CancelsStand, Follows
    <2> QED BY <2>1, <2>2
  <1>7. SubmitsStand'
    <2> SUFFICES ASSUME NEW d \in DOMAIN calls, CallOf[d].rpc = "SUBMIT", calls'[d].at = "OK"
                 PROVE  OwnedBy(journal'["PAPER"].orders[CallOf[d].on], CallOf[d].by)
      BY <1>2 DEF SubmitsStand
    <2>1. CallOf[d].on \in Orders
      BY DEF RouteTypes, CallsAreRequests
    <2>2. CASE d = c
      BY <1>2, <2>2
    <2>3. CASE d # c
      BY <1>2, <2>1, <2>3 DEF SubmitsStand, Follows
    <2> QED BY <2>2, <2>3
  <1> QED BY <1>3, <1>4, <1>5, <1>6, <1>7

LEMMA FollowsItself ==
    ASSUME NEW r
    PROVE  Follows(r, r)
  BY DEF Follows

(* What stands while no switch moves and nothing is sent.                   *)
LEMMA HaltsKept ==
    ASSUME RouteTypes, HaltsStand, UNCHANGED halted,
           \A r \in Routes : journal'[r].switches = journal[r].switches
    PROVE  halted' \subseteq Routes \X Targets /\ HaltsStand'
  BY DEF RouteTypes, HaltsStand

LEMMA SentKept ==
    ASSUME RouteTypes, SentUnhalted, SentStands, UNCHANGED sent,
           Follows(journal["PAPER"], journal'["PAPER"])
    PROVE  /\ sent' \subseteq [order : Orders, call : Incoming,
                               halted : SUBSET (Routes \X Targets)]
           /\ SentUnhalted' /\ SentStands'
  <1>1. SentUnhalted' /\ sent' \subseteq [order : Orders, call : Incoming,
                               halted : SUBSET (Routes \X Targets)]
    BY DEF RouteTypes, SentUnhalted
  <1>2. SentStands'
    <2> SUFFICES ASSUME NEW s \in sent
                 PROVE  OwnedBy(journal'["PAPER"].orders[s.order], CallOf[s.call].by)
      BY DEF SentStands
    <2>1. s.order \in Orders /\ OwnedBy(journal["PAPER"].orders[s.order], CallOf[s.call].by)
      BY DEF RouteTypes, SentStands
    <2> QED BY <2>1 DEF Follows
  <1> QED BY <1>1, <1>2

(* A call that is answered without a change of the service.                 *)
LEMMA UnmovedKeeps ==
    ASSUME CallsAreRequests, RoutesInv, NEW c \in DOMAIN calls, calls[c].at = "WAITING",
           UNCHANGED callVars, NEW answer \in {"OK", "REFUSED"}, Answer(c, answer),
           UNCHANGED <<memory, healthy, journal, halted, sent>>, connected' \in BOOLEAN,
           answer = "OK" /\ CallOf[c].rpc = "CANCEL" =>
               \E op \in journal["PAPER"].operations : op.rpc = "CANCEL" /\ op.on = CallOf[c].on,
           answer = "OK" /\ CallOf[c].rpc = "SUBMIT" =>
               OwnedBy(journal["PAPER"].orders[CallOf[c].on], CallOf[c].by)
    PROVE  RoutesInv'
  <1> USE DEF RoutesInv
  <1>1. Follows(journal["PAPER"], journal'["PAPER"])
    BY FollowsItself
  <1>2. /\ memory' \in [Routes -> ServiceRecords] /\ journal' \in [Routes -> ServiceRecords]
        /\ healthy' \in [Routes -> BOOLEAN]
    BY DEF RouteTypes
  <1>3. RecordsAreSound' /\ ServedIsRecorded'
    BY DEF RecordsAreSound, ServedIsRecorded, callVars
  <1>4. halted' \subseteq Routes \X Targets /\ HaltsStand'
    BY HaltsKept
  <1>5. /\ sent' \subseteq [order : Orders, call : Incoming,
                            halted : SUBSET (Routes \X Targets)]
        /\ SentUnhalted' /\ SentStands'
    BY <1>1, SentKept
  <1>6. CallOf[c].rpc \in {"SUBMIT", "CANCEL"} => CallOf[c].on \in Orders
    BY DEF RouteTypes, CallsAreRequests
  <1> QED BY <1>1, <1>2, <1>3, <1>4, <1>5, <1>6, AnswerKeeps
-----------------------------------------------------------------------------
(* The handlers.                                                            *)

LEMMA CallIs ==
    ASSUME CallsAreRequests, RoutesInv, NEW c \in DOMAIN calls
    PROVE  /\ CallOf[c].rpc \in Rpcs /\ CallOf[c].by \in Operators /\ CallOf[c].route \in Routes
           /\ CallOf[c].on \in Targets /\ c \in Incoming
           /\ CallOf[c].rpc \in {"SUBMIT", "CANCEL"} => CallOf[c].on \in Orders
  BY DEF RoutesInv, RouteTypes, CallsAreRequests, Targets

LEMMA OperationIs ==
    ASSUME CallsAreRequests, RoutesInv, NEW c \in DOMAIN calls, calls[c].at = "WAITING"
    PROVE  /\ Operation(c) \in OperationRecords
           /\ <<Operation(c).by, Operation(c).at>> \in held
           /\ Permission(Operation(c).rpc) \in Grants[Operation(c).by]
           /\ Operation(c).rpc = CallOf[c].rpc /\ Operation(c).on = CallOf[c].on
  <1>1. /\ CallOf[c].rpc \in Rpcs /\ CallOf[c].by \in Operators /\ CallOf[c].on \in Targets
    BY CallIs
  <1>2. calls[c].now \in Nat
    BY DEF RoutesInv, RouteTypes
  <1> QED BY <1>1, <1>2 DEF RoutesInv, Operation, OperationRecords, WaitingIsAuthorized

(* A sound record with the operation of a waiting call is sound.            *)
LEMMA SoundWithOperation ==
    ASSUME CallsAreRequests, RoutesInv, NEW c \in DOMAIN calls, calls[c].at = "WAITING",
           NEW r \in ServiceRecords, NEW n \in ServiceRecords, Sound(r, held),
           n.operations = r.operations \union {Operation(c)},
           CallOf[c].rpc = "ADJUST" =>
               ~\E op \in r.operations : op.rpc = "ADJUST" /\ op.on = CallOf[c].on,
           \A o \in Orders : n.orders[o].state \in {"PENDING_CANCEL", "CANCELLED"} =>
               \/ r.orders[o].state \in {"PENDING_CANCEL", "CANCELLED"}
               \/ CallOf[c].rpc = "CANCEL" /\ CallOf[c].on = o
    PROVE  Sound(n, held)
  <1>1. /\ <<Operation(c).by, Operation(c).at>> \in held
        /\ Permission(Operation(c).rpc) \in Grants[Operation(c).by]
        /\ Operation(c).rpc = CallOf[c].rpc /\ Operation(c).on = CallOf[c].on
    BY OperationIs
  <1>2. OperationsHeld(n, held)
    BY <1>1 DEF Sound, OperationsHeld
  <1>3. CancelsRecorded(n)
    BY <1>1 DEF Sound, CancelsRecorded
  <1>4. AdjustsOnce(n)
    BY <1>1 DEF Sound, AdjustsOnce
  <1> QED BY <1>2, <1>3, <1>4 DEF Sound

(* A service that serves holds what its journal holds.                      *)
LEMMA ServedRecord ==
    ASSUME RoutesInv, NEW r \in Routes, healthy[r]
    PROVE  memory[r] = journal[r] /\ memory[r] \in ServiceRecords /\ Sound(memory[r], held)
  BY DEF RoutesInv, ServedIsRecorded, RouteTypes, RecordsAreSound

(* operate_paper_kill_switch and operate_live_kill_switch.                  *)
LEMMA SwitchKeeps ==
    ASSUME CallsAreRequests, RoutesInv, NEW c \in DOMAIN calls, OperateKillSwitch(c)
    PROVE  RoutesInv'
  <1> DEFINE call == CallOf[c]
             state == memory[call.route]
             switches == IF call.rpc = "ACTIVATE" THEN state.switches \union {call.on}
                         ELSE state.switches \ {call.on}
             persists == \/ switches # state.switches
                         \/ call.route = "LIVE" /\ call.rpc = "ACTIVATE"
             operated == [state EXCEPT !.switches = switches,
                                       !.operations = @ \union {Operation(c)}]
             switch == {<<call.route, call.on>>}
  <1>1. /\ calls[c].at = "WAITING" /\ call.rpc \in {"ACTIVATE", "RELEASE"}
        /\ healthy[call.route]
        /\ UNCHANGED callVars /\ UNCHANGED <<connected, sent>>
    BY DEF OperateKillSwitch, Holds
  <1>2. call.route \in Routes /\ call.on \in Targets
    BY CallIs
  <1>3. PICK append \in (IF persists THEN Appends ELSE {"WRITTEN"}) :
              /\ IF persists THEN Persist(call.route, operated, append) ELSE Unmoved
              /\ Answer(c, IF append = "WRITTEN" THEN "OK" ELSE "REFUSED")
              /\ halted' = CASE call.rpc = "RELEASE" /\ OnDisk(append) -> halted \ switch
                             [] call.rpc = "ACTIVATE" /\ append = "WRITTEN" -> halted \union switch
                             [] OTHER -> halted
    BY DEF OperateKillSwitch
  <1>4. state = journal[call.route] /\ state \in ServiceRecords /\ Sound(state, held)
    BY <1>1, <1>2, ServedRecord
  <1>5. /\ operated \in ServiceRecords /\ operated.switches = switches
        /\ operated.operations = state.operations \union {Operation(c)}
        /\ operated.orders = state.orders
    BY <1>1, <1>2, <1>4, OperationIs DEF ServiceRecords
  <1>6. Sound(operated, held)
    <2> HIDE DEF operated
    <2> QED BY <1>1, <1>4, <1>5, SoundWithOperation
  <1>7. append \in Appends
    BY <1>3 DEF Appends
  <1>8. /\ memory' \in [Routes -> ServiceRecords] /\ journal' \in [Routes -> ServiceRecords]
        /\ healthy' \in [Routes -> BOOLEAN] /\ RecordsAreSound' /\ ServedIsRecorded'
        /\ \A r \in Routes : r # call.route => journal'[r] = journal[r]
        /\ journal'[call.route] = IF persists /\ OnDisk(append) THEN operated ELSE state
    <2>1. CASE persists
      <3>1. Persist(call.route, operated, append)
        BY <1>3, <2>1
      <3> HIDE DEF operated
      <3> QED BY <1>1, <1>2, <1>4, <1>5, <1>6, <1>7, <2>1, <3>1, PersistKeeps DEF callVars
    <2>2. CASE ~persists
      <3>1. Unmoved
        BY <1>3, <2>2
      <3> QED BY <1>1, <1>4, <2>2, <3>1
              DEF Unmoved, RoutesInv, RouteTypes, RecordsAreSound, ServedIsRecorded, callVars
    <2> QED BY <2>1, <2>2
  <1>9. Follows(journal["PAPER"], journal'["PAPER"])
    <2>1. CASE call.route = "PAPER" /\ persists /\ OnDisk(append)
      <3> HIDE DEF operated
      <3> QED BY <1>4, <1>5, <1>8, <2>1 DEF Follows
    <2>2. CASE ~(call.route = "PAPER" /\ persists /\ OnDisk(append))
      <3>1. journal'["PAPER"] = journal["PAPER"]
        BY <1>4, <1>8, <2>2 DEF Routes
      <3> QED BY <3>1, FollowsItself
    <2> QED BY <2>1, <2>2
  <1>10. /\ \A r \in Routes : r # call.route => journal'[r].switches = journal[r].switches
         /\ journal'[call.route].switches = IF OnDisk(append) THEN switches ELSE state.switches
    <2> HIDE DEF operated
    <2> QED BY <1>5, <1>8
  <1>11. halted' \subseteq Routes \X Targets /\ HaltsStand'
    <2> HIDE DEF persists, operated, state
    <2>1. halted' \subseteq halted \union switch
      BY <1>3
    <2>2. halted' \subseteq Routes \X Targets
      BY <1>2, <2>1 DEF RoutesInv, RouteTypes
    <2>3. ASSUME NEW h \in halted' PROVE h[2] \in journal'[h[1]].switches
      <3>1. PICK r \in Routes, x \in Targets : h = <<r, x>>
        BY <2>2
      <3>2. CASE r # call.route
        <4>1. h \in halted
          BY <2>1, <3>1, <3>2
        <4> QED BY <1>10, <3>1, <3>2, <4>1 DEF RoutesInv, HaltsStand
      <3>3. CASE r = call.route /\ x = call.on
        <4>1. CASE call.rpc = "ACTIVATE"
          <5>1. CASE append = "WRITTEN"
            <6>1. journal'[call.route].switches = switches
              BY <1>10, <5>1 DEF OnDisk
            <6> QED BY <3>1, <3>3, <4>1, <6>1
          <5>2. CASE append # "WRITTEN"
            <6>1. h \in halted
              BY <1>3, <4>1, <5>2
            <6>2. x \in state.switches
              BY <1>4, <3>1, <3>3, <6>1 DEF RoutesInv, HaltsStand
            <6> QED BY <1>10, <3>1, <3>3, <4>1, <6>2
          <5> QED BY <5>1, <5>2
        <4>2. CASE call.rpc = "RELEASE"
          <5>1. ~OnDisk(append) /\ h \in halted
            BY <1>3, <2>3, <3>1, <3>3, <4>2
          <5> QED BY <1>4, <1>10, <3>1, <3>3, <5>1 DEF RoutesInv, HaltsStand
        <4> QED BY <1>1, <4>1, <4>2
      <3>4. CASE r = call.route /\ x # call.on
        <4>1. h \in halted
          BY <2>1, <3>1, <3>4
        <4>2. x \in state.switches
          BY <1>4, <3>1, <3>4, <4>1 DEF RoutesInv, HaltsStand
        <4> QED BY <1>10, <3>1, <3>4, <4>2
      <3> QED BY <3>2, <3>3, <3>4
    <2> QED BY <2>2, <2>3 DEF HaltsStand
  <1>12. /\ sent' \subseteq [order : Orders, call : Incoming,
                             halted : SUBSET (Routes \X Targets)]
         /\ SentUnhalted' /\ SentStands'
    BY <1>1, <1>9, SentKept DEF RoutesInv
  <1>13. connected' \in BOOLEAN
    BY <1>1 DEF RoutesInv, RouteTypes
  <1> DEFINE answer == IF append = "WRITTEN" THEN "OK" ELSE "REFUSED"
  <1>14. answer \in {"OK", "REFUSED"} /\ Answer(c, answer)
    BY <1>3
  <1> HIDE DEF answer, operated, persists, switches, state, switch
  <1> QED BY <1>1, <1>8, <1>9, <1>11, <1>12, <1>13, <1>14, AnswerKeeps

(* submit_paper_order, of what is on record or while nothing is connected.  *)
LEMMA RefusalsKeep ==
    ASSUME CallsAreRequests, RoutesInv, NEW c \in DOMAIN calls, Refuse(c) \/ RefuseOrder(c)
    PROVE  RoutesInv'
  <1>1. CASE Refuse(c)
    <2>1. /\ calls[c].at = "WAITING" /\ Answer(c, "REFUSED") /\ UNCHANGED callVars
          /\ UNCHANGED <<memory, healthy, journal, halted, sent>> /\ connected' \in BOOLEAN
      BY <1>1 DEF Refuse, RoutesInv, RouteTypes
    <2> QED BY <2>1, UnmovedKeeps
  <1>2. CASE RefuseOrder(c)
    <2> DEFINE known == Paper.orders[CallOf[c].on]
               answer == IF connected /\ known.by = CallOf[c].by THEN "OK" ELSE "REFUSED"
    <2>1. /\ calls[c].at = "WAITING" /\ CallOf[c].rpc = "SUBMIT" /\ healthy["PAPER"]
          /\ ~connected \/ known.state # "NONE"
          /\ Answer(c, answer) /\ UNCHANGED callVars
          /\ UNCHANGED <<memory, healthy, journal, halted, sent>> /\ connected' \in BOOLEAN
      BY <1>2 DEF RefuseOrder, Holds, RoutesInv, RouteTypes
    <2>2. memory["PAPER"] = journal["PAPER"]
      BY <2>1, ServedRecord DEF Routes
    <2>3. answer = "OK" => OwnedBy(journal["PAPER"].orders[CallOf[c].on], CallOf[c].by)
      BY <2>1, <2>2 DEF OwnedBy, Paper
    <2>4. answer \in {"OK", "REFUSED"}
      OBVIOUS
    <2> HIDE DEF answer, known
    <2> QED BY <2>1, <2>3, <2>4, UnmovedKeeps
  <1> QED BY <1>1, <1>2
(* An append to the PAPER journal, and the answer that follows it.          *)
LEMMA PaperKeeps ==
    ASSUME CallsAreRequests, RoutesInv, NEW c \in DOMAIN calls, calls[c].at = "WAITING",
           UNCHANGED callVars, healthy["PAPER"],
           NEW state \in ServiceRecords, NEW recorded \in ServiceRecords, NEW append \in Appends,
           Sound(state, held), Sound(recorded, held), append = "WRITTEN" => recorded = state,
           Leave("PAPER", state, recorded, append),
           Follows(Paper, recorded), recorded.switches = Paper.switches,
           NEW answer \in {"OK", "REFUSED"}, Answer(c, answer), connected' \in BOOLEAN,
           UNCHANGED halted,
           \/ UNCHANGED sent
           \/ /\ sent' \subseteq [order : Orders, call : Incoming,
                                  halted : SUBSET (Routes \X Targets)]
              /\ SentUnhalted' /\ SentStands',
           answer = "OK" /\ CallOf[c].rpc = "CANCEL" =>
               \E op \in recorded.operations : op.rpc = "CANCEL" /\ op.on = CallOf[c].on,
           answer = "OK" /\ CallOf[c].rpc = "SUBMIT" =>
               OwnedBy(recorded.orders[CallOf[c].on], CallOf[c].by)
    PROVE  RoutesInv'
  <1> USE DEF RoutesInv
  <1>1. "PAPER" \in Routes /\ Paper = journal["PAPER"]
    BY ServedRecord DEF Routes, Paper
  <1>2. /\ memory' \in [Routes -> ServiceRecords] /\ journal' \in [Routes -> ServiceRecords]
        /\ healthy' \in [Routes -> BOOLEAN] /\ RecordsAreSound' /\ ServedIsRecorded'
        /\ journal'["PAPER"] = recorded
        /\ \A r \in Routes : r # "PAPER" => journal'[r] = journal[r]
    BY <1>1, LeaveKeeps DEF callVars
  <1>3. Follows(journal["PAPER"], journal'["PAPER"])
    BY <1>1, <1>2
  <1>4. halted' \subseteq Routes \X Targets /\ HaltsStand'
    BY <1>1, <1>2, HaltsKept
  <1>5. /\ sent' \subseteq [order : Orders, call : Incoming,
                            halted : SUBSET (Routes \X Targets)]
        /\ SentUnhalted' /\ SentStands'
    BY <1>3, SentKept
  <1>6. CallOf[c].rpc \in {"SUBMIT", "CANCEL"} => CallOf[c].on \in Orders
    BY CallIs
  <1>7. answer = "OK" /\ CallOf[c].rpc = "CANCEL" =>
            \E op \in journal'["PAPER"].operations : op.rpc = "CANCEL" /\ op.on = CallOf[c].on
    BY <1>2
  <1>8. answer = "OK" /\ CallOf[c].rpc = "SUBMIT" =>
            OwnedBy(journal'["PAPER"].orders[CallOf[c].on], CallOf[c].by)
    BY <1>2
  <1> QED BY <1>2, <1>3, <1>4, <1>5, <1>6, <1>7, <1>8, AnswerKeeps

(* persist, once: what the file is left at is the new record or the old one. *)
LEMMA PersistPaperKeeps ==
    ASSUME CallsAreRequests, RoutesInv, NEW c \in DOMAIN calls, calls[c].at = "WAITING",
           UNCHANGED callVars, healthy["PAPER"],
           NEW state \in ServiceRecords, NEW append \in Appends,
           Sound(state, held), Persist("PAPER", state, append),
           Follows(Paper, state), state.switches = Paper.switches,
           NEW answer \in {"OK", "REFUSED"}, Answer(c, answer), connected' \in BOOLEAN,
           UNCHANGED <<halted, sent>>,
           answer = "OK" => append = "WRITTEN",
           answer = "OK" /\ CallOf[c].rpc = "CANCEL" =>
               \E op \in state.operations : op.rpc = "CANCEL" /\ op.on = CallOf[c].on,
           answer = "OK" /\ CallOf[c].rpc = "SUBMIT" =>
               OwnedBy(state.orders[CallOf[c].on], CallOf[c].by)
    PROVE  RoutesInv'
  <1> DEFINE recorded == IF OnDisk(append) THEN state ELSE journal["PAPER"]
  <1>1. "PAPER" \in Routes
    BY DEF Routes
  <1>2. Paper = journal["PAPER"] /\ Paper \in ServiceRecords /\ Sound(Paper, held)
    BY <1>1, ServedRecord DEF Paper
  <1>3. recorded \in ServiceRecords /\ Sound(recorded, held)
    BY <1>2
  <1>4. append = "WRITTEN" => recorded = state
    BY DEF OnDisk
  <1>5. Leave("PAPER", state, recorded, append)
    BY DEF Persist
  <1>6. Follows(Paper, recorded) /\ recorded.switches = Paper.switches
    BY <1>2, FollowsItself
  <1>7. answer = "OK" => recorded = state
    BY <1>4
  <1> HIDE DEF recorded
  <1> QED BY <1>3, <1>4, <1>5, <1>6, <1>7, PaperKeeps

(* What a submission makes of the record: an order that was not there.      *)
LEMMA BookedRecord ==
    ASSUME CallsAreRequests, RoutesInv, NEW c \in DOMAIN calls, CanDecide(c),
           NEW state \in {"PENDING_SUBMIT", "ACKNOWLEDGED", "UNKNOWN"},
           NEW n, n = [Paper EXCEPT !.orders[CallOf[c].on] =
                          [state |-> state, by |-> CallOf[c].by]]
    PROVE  /\ n \in ServiceRecords /\ Sound(n, held)
           /\ Follows(Paper, n) /\ n.switches = Paper.switches
           /\ OwnedBy(n.orders[CallOf[c].on], CallOf[c].by)
  <1> DEFINE on == CallOf[c].on
             order == [state |-> state, by |-> CallOf[c].by]
  <1>1. /\ healthy["PAPER"] /\ Paper.orders[on].state = "NONE" /\ on \in Orders
        /\ CallOf[c].by \in Operators
    BY CallIs DEF CanDecide, Holds
  <1>2. Paper \in ServiceRecords /\ Sound(Paper, held)
    BY <1>1, ServedRecord DEF Paper, Routes
  <1>3. order \in OrderRecords
    BY <1>1 DEF OrderRecords
  <1>4. /\ n.switches = Paper.switches /\ n.operations = Paper.operations
        /\ n.orders = [Paper.orders EXCEPT ![on] = order] /\ n \in ServiceRecords
    BY <1>1, <1>2, <1>3 DEF ServiceRecords
  <1>5. /\ n.orders[on] = order
        /\ \A o \in Orders : o # on => n.orders[o] = Paper.orders[o]
    BY <1>1, <1>2, <1>4 DEF ServiceRecords
  <1>6. Sound(n, held)
    <2>1. OperationsHeld(n, held) /\ AdjustsOnce(n)
      BY <1>2, <1>4 DEF Sound, OperationsHeld, AdjustsOnce
    <2>2. CancelsRecorded(n)
      BY <1>2, <1>4, <1>5 DEF Sound, CancelsRecorded
    <2> QED BY <2>1, <2>2 DEF Sound
  <1>7. Follows(Paper, n)
    BY <1>1, <1>4, <1>5 DEF Follows, OwnedBy
  <1>8. OwnedBy(n.orders[on], CallOf[c].by)
    BY <1>5 DEF OwnedBy
  <1> QED BY <1>4, <1>6, <1>7, <1>8

(* submit_paper_order, under a switch and not.                              *)
LEMMA RejectKeeps ==
    ASSUME CallsAreRequests, RoutesInv, NEW c \in DOMAIN calls, RejectOrder(c)
    PROVE  RoutesInv'
  <1>1. /\ calls[c].at = "WAITING" /\ CallOf[c].rpc = "SUBMIT" /\ healthy["PAPER"]
        /\ UNCHANGED callVars /\ UNCHANGED <<halted, sent>> /\ connected' \in BOOLEAN
    BY DEF RejectOrder, CanDecide, Holds, RoutesInv, RouteTypes
  <1>2. PICK append \in Appends : Persist("PAPER", Paper, append) /\ Answer(c, "REFUSED")
    BY DEF RejectOrder
  <1>3. Paper \in ServiceRecords /\ Sound(Paper, held)
    BY <1>1, ServedRecord DEF Paper, Routes
  <1> DEFINE state == Paper
  <1>4. Follows(Paper, state)
    BY FollowsItself
  <1> QED BY <1>1, <1>2, <1>3, <1>4, PersistPaperKeeps

LEMMA BookKeeps ==
    ASSUME CallsAreRequests, RoutesInv, NEW c \in DOMAIN calls, BookOrder(c)
    PROVE  RoutesInv'
  <1> DEFINE on == CallOf[c].on
             Booked(state) == [Paper EXCEPT !.orders[on] = [state |-> state, by |-> CallOf[c].by]]
             pending == Booked("PENDING_SUBMIT")
  <1>1. /\ CanDecide(c) /\ ~Halts(Paper.switches, on)
        /\ UNCHANGED callVars /\ UNCHANGED halted
        /\ calls[c].at = "WAITING" /\ healthy["PAPER"] /\ CallOf[c].rpc = "SUBMIT"
        /\ Paper.orders[on].state = "NONE"
    BY DEF BookOrder, CanDecide, Holds
  <1>2. on \in Orders /\ c \in Incoming
    BY <1>1, CallIs
  <1>3. Paper = journal["PAPER"]
    BY <1>1, ServedRecord DEF Paper, Routes
  <1>4. /\ pending \in ServiceRecords /\ Sound(pending, held)
        /\ Follows(Paper, pending) /\ pending.switches = Paper.switches
        /\ OwnedBy(pending.orders[on], CallOf[c].by)
    BY <1>1, BookedRecord
  <1>5. CASE Unsent(c, pending)
    <2>1. PICK append \in Appends : Persist("PAPER", pending, append) /\ Answer(c, "REFUSED")
      BY <1>5 DEF Unsent
    <2>2. UNCHANGED sent /\ connected' \in BOOLEAN
      BY <1>5 DEF Unsent, RoutesInv, RouteTypes
    <2> HIDE DEF pending
    <2> QED BY <1>1, <1>4, <2>1, <2>2, PersistPaperKeeps
  <1>6. ASSUME NEW outcome \in Outcomes, NEW append \in Appends,
               Sent(c, pending, Booked(IF outcome = "DONE" THEN "ACKNOWLEDGED" ELSE "UNKNOWN"),
                    outcome, append),
               sent' = sent \union {[order |-> on, call |-> c, halted |-> halted]}
        PROVE  RoutesInv'
    <2> DEFINE after == IF outcome = "DONE" THEN "ACKNOWLEDGED" ELSE "UNKNOWN"
               then == Booked(after)
               recorded == IF OnDisk(append) THEN then ELSE pending
               answer == IF outcome = "DONE" /\ append = "WRITTEN" THEN "OK" ELSE "REFUSED"
    <2>1. after \in {"PENDING_SUBMIT", "ACKNOWLEDGED", "UNKNOWN"}
      OBVIOUS
    <2>2. /\ then \in ServiceRecords /\ Sound(then, held)
          /\ Follows(Paper, then) /\ then.switches = Paper.switches
          /\ OwnedBy(then.orders[on], CallOf[c].by)
      <3> HIDE DEF after
      <3> QED BY <1>1, <2>1, BookedRecord
    <2>3. /\ Leave("PAPER", then, recorded, append) /\ Answer(c, answer)
          /\ connected' \in BOOLEAN /\ answer \in {"OK", "REFUSED"}
      BY <1>6 DEF Sent
    <2> HIDE DEF then, pending, answer
    <2>4. /\ recorded \in ServiceRecords /\ Sound(recorded, held)
          /\ Follows(Paper, recorded) /\ recorded.switches = Paper.switches
          /\ OwnedBy(recorded.orders[on], CallOf[c].by)
      BY <1>4, <2>2
    <2>5. append = "WRITTEN" => recorded = then
      BY DEF OnDisk
    <2> HIDE DEF recorded
    <2>6. journal'["PAPER"] = recorded
      BY <2>3, <2>4 DEF Leave, RoutesInv, RouteTypes, Routes
    <2> DEFINE new == [order |-> on, call |-> c, halted |-> halted]
    <2>7. sent' \subseteq [order : Orders, call : Incoming,
                           halted : SUBSET (Routes \X Targets)]
      BY <1>2, <1>6 DEF RoutesInv, RouteTypes
    <2>8. SentUnhalted'
      <3> SUFFICES ASSUME NEW h \in halted, h[1] = "PAPER" PROVE on \notin Covers[h[2]]
        BY <1>6 DEF SentUnhalted, RoutesInv
      <3>1. h[2] \in Paper.switches
        BY <1>3 DEF RoutesInv, HaltsStand
      <3> QED BY <1>1, <3>1 DEF Halts
    <2>9. SentStands'
      <3>1. \A s \in sent : s.order \in Orders /\ s.order # on
        BY <1>1, <1>3 DEF RoutesInv, RouteTypes, SentStands, OwnedBy
      <3>2. \A s \in sent : OwnedBy(recorded.orders[s.order], CallOf[s.call].by)
        BY <1>3, <2>4, <3>1 DEF RoutesInv, SentStands, Follows
      <3>3. new.order = on /\ new.call = c
        OBVIOUS
      <3> HIDE DEF new, on
      <3>4. sent' = sent \union {new}
        BY <1>6 DEF new, on
      <3> QED BY <2>4, <2>6, <3>1, <3>2, <3>3, <3>4 DEF RoutesInv, SentStands
    <2> HIDE DEF on
    <2>10. answer = "OK" /\ CallOf[c].rpc = "SUBMIT" =>
               OwnedBy(recorded.orders[CallOf[c].on], CallOf[c].by)
      BY <2>4 DEF on
    <2> QED BY <1>1, <2>2, <2>3, <2>4, <2>5, <2>7, <2>8, <2>9, <2>10, PaperKeeps
  <1> QED BY <1>5, <1>6 DEF BookOrder
(* cancel_paper_order.                                                      *)
LEMMA CancelledRecord ==
    ASSUME CallsAreRequests, RoutesInv, NEW c \in DOMAIN calls, Holds(c, {"CANCEL"}), healthy["PAPER"],
           Paper.orders[CallOf[c].on].state = "ACKNOWLEDGED",
           NEW next \in {"PENDING_CANCEL", "UNKNOWN"},
           NEW n, n = [Paper EXCEPT !.orders[CallOf[c].on].state = next,
                                    !.operations = @ \union {Operation(c)}]
    PROVE  /\ n \in ServiceRecords /\ Sound(n, held)
           /\ Follows(Paper, n) /\ n.switches = Paper.switches
           /\ Operation(c) \in n.operations
           /\ Operation(c).rpc = "CANCEL" /\ Operation(c).on = CallOf[c].on
  <1> DEFINE on == CallOf[c].on
             order == [Paper.orders[on] EXCEPT !.state = next]
  <1>1. /\ on \in Orders /\ calls[c].at = "WAITING" /\ CallOf[c].rpc = "CANCEL"
    BY CallIs DEF Holds
  <1>2. Paper \in ServiceRecords /\ Sound(Paper, held)
    BY ServedRecord DEF Paper, Routes
  <1>3. /\ Operation(c) \in OperationRecords
        /\ Operation(c).rpc = "CANCEL" /\ Operation(c).on = on
    BY <1>1, OperationIs
  <1>4. Paper.orders[on] \in OrderRecords
    BY <1>1, <1>2 DEF ServiceRecords
  <1>5. order \in OrderRecords /\ order.state = next /\ order.by = Paper.orders[on].by
    BY <1>4 DEF OrderRecords
  <1>6. /\ n.switches = Paper.switches
        /\ n.operations = Paper.operations \union {Operation(c)}
        /\ n.orders = [Paper.orders EXCEPT ![on] = order]
        /\ n = [switches |-> n.switches, orders |-> n.orders, operations |-> n.operations]
    BY <1>1, <1>2 DEF ServiceRecords
  <1>7. /\ n.orders[on] = order
        /\ \A o \in Orders : o # on => n.orders[o] = Paper.orders[o]
        /\ n.orders \in [Orders -> OrderRecords]
    BY <1>1, <1>2, <1>5, <1>6 DEF ServiceRecords
  <1> HIDE DEF order
  <1>8. n \in ServiceRecords
    BY <1>2, <1>3, <1>6, <1>7 DEF ServiceRecords
  <1>9. Sound(n, held)
    BY <1>1, <1>2, <1>6, <1>7, <1>8, SoundWithOperation
  <1>10. Follows(Paper, n)
    BY <1>5, <1>6, <1>7 DEF Follows, OwnedBy
  <1> QED BY <1>3, <1>6, <1>8, <1>9, <1>10

LEMMA CancelKeeps ==
    ASSUME CallsAreRequests, RoutesInv, NEW c \in DOMAIN calls, CancelPaperOrder(c)
    PROVE  RoutesInv'
  <1> DEFINE on == CallOf[c].on
             state == Paper.orders[on].state
             Cancelling(next) == [Paper EXCEPT !.orders[on].state = next,
                                               !.operations = @ \union {Operation(c)}]
             pending == Cancelling("PENDING_CANCEL")
             unknown == Cancelling("UNKNOWN")
  <1>1. /\ Holds(c, {"CANCEL"}) /\ healthy["PAPER"]
        /\ UNCHANGED callVars /\ UNCHANGED halted
        /\ calls[c].at = "WAITING" /\ CallOf[c].rpc = "CANCEL"
    BY DEF CancelPaperOrder, Holds
  <1>2. on \in Orders
    BY <1>1, CallIs
  <1>3. Paper = journal["PAPER"] /\ Sound(Paper, held)
    BY <1>1, ServedRecord DEF Paper, Routes
  <1>4. CASE /\ ~connected \/ state # "ACKNOWLEDGED"
             /\ Answer(c, IF connected /\ state \in {"PENDING_CANCEL", "CANCELLED"}
                          THEN "OK" ELSE "REFUSED")
             /\ Unmoved /\ UNCHANGED <<connected, sent>>
    <2> DEFINE answer == IF connected /\ state \in {"PENDING_CANCEL", "CANCELLED"}
                         THEN "OK" ELSE "REFUSED"
    <2>1. answer = "OK" => \E op \in journal["PAPER"].operations :
                              op.rpc = "CANCEL" /\ op.on = CallOf[c].on
      BY <1>2, <1>3 DEF Sound, CancelsRecorded
    <2>2. answer \in {"OK", "REFUSED"} /\ Answer(c, answer) /\ connected' \in BOOLEAN
          /\ UNCHANGED <<memory, healthy, journal, halted, sent>>
      BY <1>1, <1>4 DEF Unmoved, RoutesInv, RouteTypes
    <2> HIDE DEF answer
    <2> QED BY <1>1, <2>1, <2>2, UnmovedKeeps
  <1>5. CASE connected /\ state = "ACKNOWLEDGED" /\ Unsent(c, pending)
    <2>1. PICK append \in Appends : Persist("PAPER", pending, append) /\ Answer(c, "REFUSED")
      BY <1>5 DEF Unsent
    <2>2. UNCHANGED sent /\ connected' \in BOOLEAN
      BY <1>5 DEF Unsent, RoutesInv, RouteTypes
    <2>3. /\ pending \in ServiceRecords /\ Sound(pending, held)
          /\ Follows(Paper, pending) /\ pending.switches = Paper.switches
      BY <1>1, <1>5, CancelledRecord
    <2> HIDE DEF pending
    <2> QED BY <1>1, <2>1, <2>2, <2>3, PersistPaperKeeps
  <1>6. CASE /\ connected /\ state = "ACKNOWLEDGED"
             /\ Sent(c, pending, pending, "DONE", "WRITTEN") /\ UNCHANGED sent
    <2>1. /\ pending \in ServiceRecords /\ Sound(pending, held)
          /\ Follows(Paper, pending) /\ pending.switches = Paper.switches
          /\ \E op \in pending.operations : op.rpc = "CANCEL" /\ op.on = CallOf[c].on
      BY <1>1, <1>6, CancelledRecord
    <2> HIDE DEF pending
    <2>2. /\ Leave("PAPER", pending, pending, "WRITTEN") /\ Answer(c, "OK")
          /\ connected' \in BOOLEAN /\ UNCHANGED sent
      BY <1>6 DEF Sent
    <2>3. "WRITTEN" \in Appends
      BY DEF Appends
    <2> QED BY <1>1, <2>1, <2>2, <2>3, PaperKeeps
  <1>7. ASSUME NEW append \in Appends, connected, state = "ACKNOWLEDGED", UNCHANGED sent,
               Sent(c, pending, Cancelling("UNKNOWN"), "UNKNOWN", append)
        PROVE  RoutesInv'
    <2>1. /\ pending \in ServiceRecords /\ Sound(pending, held)
          /\ Follows(Paper, pending) /\ pending.switches = Paper.switches
      BY <1>1, <1>7, CancelledRecord
    <2>2. /\ unknown \in ServiceRecords /\ Sound(unknown, held)
          /\ Follows(Paper, unknown) /\ unknown.switches = Paper.switches
      BY <1>1, <1>7, CancelledRecord
    <2> DEFINE recorded == IF OnDisk(append) THEN unknown ELSE pending
    <2>3. /\ Leave("PAPER", unknown, recorded, append) /\ Answer(c, "REFUSED")
          /\ connected' \in BOOLEAN
      BY <1>7 DEF Sent
    <2> HIDE DEF pending, unknown
    <2>4. /\ recorded \in ServiceRecords /\ Sound(recorded, held)
          /\ Follows(Paper, recorded) /\ recorded.switches = Paper.switches
          /\ (append = "WRITTEN" => recorded = unknown)
      BY <2>1, <2>2 DEF OnDisk
    <2> HIDE DEF recorded
    <2> QED BY <1>1, <1>7, <2>2, <2>3, <2>4, PaperKeeps
  <1> QED BY <1>4, <1>5, <1>6, <1>7 DEF CancelPaperOrder

(* reconcile_paper_account: what the broker settles was asked for.          *)
LEMMA ReconcileKeeps ==
    ASSUME CallsAreRequests, RoutesInv, NEW c \in DOMAIN calls, ReconcilePaperAccount(c)
    PROVE  RoutesInv'
  <1>1. /\ calls[c].at = "WAITING" /\ CallOf[c].rpc \in {"RECONCILE", "RECONNECT"}
        /\ healthy["PAPER"] /\ UNCHANGED callVars /\ UNCHANGED <<halted, sent>>
    BY DEF ReconcilePaperAccount, Holds
  <1>2. Paper = journal["PAPER"] /\ Paper \in ServiceRecords /\ Sound(Paper, held)
    BY <1>1, ServedRecord DEF Paper, Routes
  <1>3. CASE Answer(c, "REFUSED") /\ Unmoved /\ UNCHANGED connected
    <2>1. connected' \in BOOLEAN /\ UNCHANGED <<memory, healthy, journal, halted, sent>>
      BY <1>1, <1>3 DEF Unmoved, RoutesInv, RouteTypes
    <2> QED BY <1>1, <1>3, <2>1, UnmovedKeeps
  <1>4. ASSUME NEW known \in SUBSET {s.order : s \in sent}, NEW append \in Appends,
               Persist("PAPER", [Paper EXCEPT !.orders =
                    [o \in Orders |-> IF o \in known THEN Settled(Paper.orders[o])
                                      ELSE Paper.orders[o]]], append),
               connected' = TRUE,
               Answer(c, IF append = "WRITTEN" THEN "OK" ELSE "REFUSED")
        PROVE  RoutesInv'
    <2> DEFINE orders == [o \in Orders |-> IF o \in known THEN Settled(Paper.orders[o])
                                           ELSE Paper.orders[o]]
               n == [Paper EXCEPT !.orders = orders]
               answer == IF append = "WRITTEN" THEN "OK" ELSE "REFUSED"
    <2>1. \A o \in Orders : /\ orders[o] \in OrderRecords
                            /\ \A p : OwnedBy(Paper.orders[o], p) => OwnedBy(orders[o], p)
                            /\ orders[o].state \in {"PENDING_CANCEL", "CANCELLED"} =>
                                  Paper.orders[o].state \in {"PENDING_CANCEL", "CANCELLED"}
      <3> SUFFICES ASSUME NEW o \in Orders
                   PROVE  LET before == Paper.orders[o] IN
                            /\ orders[o] \in OrderRecords
                            /\ \A p : OwnedBy(before, p) => OwnedBy(orders[o], p)
                            /\ orders[o].state \in {"PENDING_CANCEL", "CANCELLED"} =>
                                  before.state \in {"PENDING_CANCEL", "CANCELLED"}
        OBVIOUS
      <3> DEFINE before == Paper.orders[o]
      <3>1. before \in OrderRecords
        BY <1>2 DEF ServiceRecords
      <3>2. orders[o] \in {before, Settled(before)}
        OBVIOUS
      <3> HIDE DEF before, orders
      <3>3. Settled(before) \in {before, [before EXCEPT !.state = "ACKNOWLEDGED"],
                                 [before EXCEPT !.state = "CANCELLED"]}
            /\ (Settled(before) = [before EXCEPT !.state = "CANCELLED"] =>
                  before.state \in {"PENDING_CANCEL", "CANCELLED"})
            /\ (Settled(before).state # "NONE" \/ before.state = "NONE")
        BY <3>1 DEF Settled, OrderRecords
      <3>4. orders[o].by = before.by /\ orders[o] \in OrderRecords
        BY <3>1, <3>2, <3>3 DEF OrderRecords
      <3>5. before.state # "NONE" => orders[o].state # "NONE"
        BY <3>2, <3>3
      <3>6. orders[o].state \in {"PENDING_CANCEL", "CANCELLED"} =>
              before.state \in {"PENDING_CANCEL", "CANCELLED"}
        BY <3>1, <3>2, <3>3 DEF OrderRecords
      <3>7. \A p : OwnedBy(before, p) => OwnedBy(orders[o], p)
        BY <3>4, <3>5 DEF OwnedBy
      <3> QED BY <3>4, <3>6, <3>7 DEF before
    <2>2. orders \in [Orders -> OrderRecords]
      BY <2>1
    <2> HIDE DEF orders
    <2>3. n \in ServiceRecords /\ n.orders = orders /\ n.operations = Paper.operations
          /\ n.switches = Paper.switches
      BY <1>2, <2>2 DEF ServiceRecords
    <2>4. Persist("PAPER", n, append) /\ Answer(c, answer) /\ connected' \in BOOLEAN
          /\ answer \in {"OK", "REFUSED"} /\ (answer = "OK" => append = "WRITTEN")
      BY <1>4 DEF orders
    <2> HIDE DEF n, answer
    <2>5. Sound(n, held)
      BY <1>2, <2>1, <2>3 DEF Sound, OperationsHeld, CancelsRecorded, AdjustsOnce
    <2>6. Follows(Paper, n)
      BY <2>1, <2>3 DEF Follows
    <2> QED BY <1>1, <2>3, <2>4, <2>5, <2>6, PersistPaperKeeps
  <1>5. ASSUME NEW append \in Appends, Persist("PAPER", Paper, append), connected' = FALSE,
               Answer(c, "REFUSED")
        PROVE  RoutesInv'
    <2> DEFINE state == Paper
    <2>1. Follows(Paper, state)
      BY FollowsItself
    <2> QED BY <1>1, <1>2, <1>5, <2>1, PersistPaperKeeps
  <1> QED BY <1>3, <1>4, <1>5 DEF ReconcilePaperAccount

(* apply_paper_corporate_action.                                            *)
LEMMA AdjustKeeps ==
    ASSUME CallsAreRequests, RoutesInv, NEW c \in DOMAIN calls, ApplyPaperCorporateAction(c)
    PROVE  RoutesInv'
  <1>1. /\ calls[c].at = "WAITING" /\ CallOf[c].rpc = "ADJUST"
        /\ healthy["PAPER"] /\ UNCHANGED callVars /\ UNCHANGED <<connected, halted, sent>>
        /\ connected' \in BOOLEAN
    BY DEF ApplyPaperCorporateAction, Holds, RoutesInv, RouteTypes
  <1>2. Paper = journal["PAPER"] /\ Paper \in ServiceRecords /\ Sound(Paper, held)
    BY <1>1, ServedRecord DEF Paper, Routes
  <1>3. CASE /\ Answer(c, IF Applied(CallOf[c].on) THEN "OK" ELSE "REFUSED") /\ Unmoved
    <2> DEFINE answer == IF Applied(CallOf[c].on) THEN "OK" ELSE "REFUSED"
    <2>1. answer \in {"OK", "REFUSED"} /\ Answer(c, answer)
          /\ UNCHANGED <<memory, healthy, journal, halted, sent>>
      BY <1>1, <1>3 DEF Unmoved
    <2> HIDE DEF answer
    <2> QED BY <1>1, <2>1, UnmovedKeeps
  <1>4. ASSUME NEW append \in Appends, ~Applied(CallOf[c].on),
               Persist("PAPER", [Paper EXCEPT !.operations = @ \union {Operation(c)}], append),
               Answer(c, IF append = "WRITTEN" THEN "OK" ELSE "REFUSED")
        PROVE  RoutesInv'
    <2> DEFINE n == [Paper EXCEPT !.operations = @ \union {Operation(c)}]
               answer == IF append = "WRITTEN" THEN "OK" ELSE "REFUSED"
    <2>1. Operation(c) \in OperationRecords
      BY <1>1, OperationIs
    <2>2. /\ n \in ServiceRecords /\ n.orders = Paper.orders /\ n.switches = Paper.switches
          /\ n.operations = Paper.operations \union {Operation(c)}
      BY <1>2, <2>1 DEF ServiceRecords
    <2>3. Persist("PAPER", n, append) /\ Answer(c, answer)
          /\ answer \in {"OK", "REFUSED"} /\ (answer = "OK" => append = "WRITTEN")
      BY <1>4
    <2> HIDE DEF n, answer
    <2>4. Sound(n, held)
      BY <1>1, <1>2, <1>4, <2>2, SoundWithOperation DEF Applied
    <2>5. Follows(Paper, n)
      BY <2>2 DEF Follows
    <2> QED BY <1>1, <2>2, <2>3, <2>4, <2>5, PersistPaperKeeps
  <1> QED BY <1>3, <1>4 DEF ApplyPaperCorporateAction

(* main, on the journals: what memory held beyond them is gone, and so are  *)
(* the calls that waited.                                                   *)
LEMMA RestartKeeps ==
    ASSUME CallsAreRequests, RoutesInv, Restart
    PROVE  RoutesInv'
  <1> USE DEF RoutesInv
  <1>1. /\ starts' = starts + 1 /\ expires' = [p \in Operators |-> 0]
        /\ calls' = [c \in DOMAIN calls |->
               IF calls[c].at = "WAITING" THEN [at |-> "REFUSED", now |-> 0] ELSE calls[c]]
        /\ memory' = journal /\ healthy' = [r \in Routes |-> TRUE] /\ connected' = FALSE
        /\ UNCHANGED <<time, journal, halted, sent, held>>
    BY DEF Restart
  <1>2. \A c \in DOMAIN calls : calls'[c] \in [at : {"NEW", "WAITING", "OK", "REFUSED"}, now : Nat]
                                /\ calls'[c].at # "WAITING"
                                /\ (calls'[c].at = "OK" => calls[c].at = "OK")
    BY <1>1 DEF RouteTypes
  <1>3. DOMAIN calls' = DOMAIN calls
    BY <1>1
  <1>4. calls' \in [DOMAIN calls' -> [at : {"NEW", "WAITING", "OK", "REFUSED"}, now : Nat]]
    <2> DEFINE Ended(c) == IF calls[c].at = "WAITING" THEN [at |-> "REFUSED", now |-> 0]
                           ELSE calls[c]
    <2>1. calls' = [c \in DOMAIN calls |-> Ended(c)]
      BY <1>1
    <2>2. \A c \in DOMAIN calls :
             Ended(c) \in [at : {"NEW", "WAITING", "OK", "REFUSED"}, now : Nat]
      BY DEF RouteTypes
    <2> HIDE DEF Ended
    <2> QED BY <2>1, <2>2
  <1>5. RouteTypes'
    <2>1. expires' \in [Operators -> Nat] /\ healthy' \in [Routes -> BOOLEAN]
      BY <1>1
    <2>2. memory' \in [Routes -> ServiceRecords]
      BY <1>1 DEF RouteTypes
    <2>3. time' \in Nat \ {0} /\ starts' \in Nat
      BY <1>1 DEF RouteTypes
    <2>8. connected' \in BOOLEAN
      BY <1>1, Zenon
    <2>4. DOMAIN calls' \subseteq Incoming
      BY <1>3 DEF RouteTypes
    <2>5. journal' \in [Routes -> ServiceRecords]
      BY <1>1 DEF RouteTypes
    <2>6. halted' \subseteq Routes \X Targets
      BY <1>1 DEF RouteTypes
    <2>7. sent' \subseteq [order : Orders, call : Incoming, halted : SUBSET (Routes \X Targets)]
      BY <1>1 DEF RouteTypes
    <2> QED
      BY <1>4, <2>1, <2>2, <2>3, <2>4, <2>5, <2>6, <2>7, <2>8 DEF RouteTypes
  <1>6. SessionsAreHeld'
    BY <1>1 DEF SessionsAreHeld, RouteTypes
  <1>7. WaitingIsAuthorized'
    BY <1>2, <1>3 DEF WaitingIsAuthorized
  <1>8. (RecordsAreSound /\ ServedIsRecorded /\ HaltsStand /\ SentUnhalted /\ SentStands)'
    BY <1>1 DEF RecordsAreSound, ServedIsRecorded, HaltsStand, SentUnhalted, SentStands
  <1>9. (CancelsStand /\ SubmitsStand)'
    BY <1>1, <1>2, <1>3 DEF CancelsStand, SubmitsStand
  <1> QED BY <1>5, <1>6, <1>7, <1>8, <1>9

LEMMA RoutesStep ==
    ASSUME CallsAreRequests, RoutesInv, [RoutesNext]_routeVars
    PROVE  RoutesInv'
  <1>1. CASE UNCHANGED routeVars
    BY <1>1 DEF routeVars, RoutesInv, RouteTypes, SessionsAreHeld, WaitingIsAuthorized, RecordsAreSound,
                ServedIsRecorded, HaltsStand, SentUnhalted, CancelsStand, SentStands, SubmitsStand
  <1>2. CASE \/ \E p \in Operators : Login(p) \/ Revoke(p)
             \/ TimePasses
    BY <1>2, SessionsKeep
  <1>3. CASE Restart
    BY <1>3, RestartKeeps
  <1>4. ASSUME NEW c \in DOMAIN calls,
               \/ Authorize(c) \/ Refuse(c)
               \/ OperateKillSwitch(c)
               \/ RefuseOrder(c) \/ RejectOrder(c) \/ BookOrder(c)
               \/ CancelPaperOrder(c) \/ ReconcilePaperAccount(c)
               \/ ApplyPaperCorporateAction(c)
        PROVE  RoutesInv'
    BY <1>4, AuthorizeKeeps, RefusalsKeep, SwitchKeeps, RejectKeeps, BookKeeps, CancelKeeps,
       ReconcileKeeps, AdjustKeeps
  <1> QED BY <1>1, <1>2, <1>3, <1>4 DEF RoutesNext

-----------------------------------------------------------------------------
(* What the invariant comes to for a caller.                                *)

LEMMA RoutesAccount ==
    ASSUME CallsAreRequests, RoutesInv
    PROVE  CommandsAreAccountable
  <1> USE DEF RoutesInv
  <1>1. HaltsAreBinding
    <2>1. ASSUME NEW h \in halted
          PROVE  /\ h[2] \in journal[h[1]].switches
                 /\ healthy[h[1]] => h[2] \in memory[h[1]].switches
      <3>1. h[1] \in Routes
        BY DEF RouteTypes
      <3> QED BY <3>1 DEF HaltsStand, ServedIsRecorded
    <2> QED BY <2>1 DEF HaltsAreBinding, SentUnhalted
  <1>2. RecordsAreAuthorized
    BY DEF RecordsAreAuthorized, RecordsAreSound, Sound, OperationsHeld, CancelsStand
  <1>3. OrdersAreSignedOnce
    <2>1. AdjustsOnce(journal["PAPER"])
      BY DEF RecordsAreSound, Sound, Routes
    <2> QED BY <2>1 DEF OrdersAreSignedOnce, AdjustsOnce, SentStands, SubmitsStand, OwnedBy
  <1> QED BY <1>1, <1>2, <1>3 DEF CommandsAreAccountable

(* Whatever is called at once, retried or denied, and whatever append of a  *)
(* service fails: an answered halt is in force and on record until its      *)
(* release is, no order it covers is sent, every change on record names an  *)
(* operator authorized for it at that time, and an order and a corporate    *)
(* action happen once (operate_paper_kill_switch, submit_paper_order,       *)
(* apply_paper_corporate_action).                                           *)
THEOREM RoutesAccountable ==
    ASSUME CallsAreRequests
    PROVE  RoutesSpec => []CommandsAreAccountable
  <1>1. RoutesInit => RoutesInv
    BY RoutesStart
  <1>2. RoutesInv /\ [RoutesNext]_routeVars => RoutesInv'
    BY RoutesStep
  <1>3. RoutesInv => CommandsAreAccountable
    BY RoutesAccount
  <1> QED BY <1>1, <1>2, <1>3, PTL DEF RoutesSpec

-----------------------------------------------------------------------------
(* The pipe of a strategy worker.                                           *)

Answers == [kind : {"WHOLE", "CUT", "LONG"}, answers : Nat]
Results == [kind : {"FRAME", "CLOSED", "TRUNCATED", "OVERSIZED"}, answers : Nat]

Callers ==
    [phase : {"STARTING", "IDLE", "WAITING", "DROPPED"}, asked : Nat, terminated : BOOLEAN,
     paired : BOOLEAN]
Senders == [frames : Seq(Nat), open : BOOLEAN]
Processes == [alive : BOOLEAN, ready : BOOLEAN, busy : Nat]
Readers == [state : {"READING", "HOLDING", "DONE"}, outcome : Results]

PipeTypes ==
    /\ client \in Callers /\ outgoing \in Senders /\ process \in Processes
    /\ reader \in Readers
    /\ stdin \in Seq(Nat) /\ stdout \in Seq(Answers) /\ incoming \in Seq(Results)

(* What is on its way from the caller to the worker and back; the ready     *)
(* frame counts from the start.                                             *)
One(b) == IF b THEN 1 ELSE 0
HoldsAnswer == reader.state = "HOLDING" /\ reader.outcome.kind # "CLOSED"
Arrived == incoming # <<>> /\ incoming[1].kind # "CLOSED"

Queued == Len(outgoing.frames)
Piped == Len(stdin)
Worked == One(process.busy # 0)
Awaited == One(~process.ready)
Written == Len(stdout)
Held == One(HoldsAnswer)
Passed == One(Arrived)
UnderWay == Queued + Piped + Worked + Awaited + Written + Held + Passed

(* As long as the caller may ask, nothing is under way but the answer it    *)
(* waits for, or what will be answered with it.                             *)
OneAtATime ==
    /\ UnderWay <= One(Waiting)
    /\ outgoing.frames # <<>> => outgoing.frames[1] = client.asked
    /\ stdin # <<>> => stdin[1] = client.asked
    /\ process.busy # 0 => process.busy = client.asked
    /\ ~process.ready => client.asked = 0 /\ process.busy = 0
    /\ stdout # <<>> => stdout[1].answers = client.asked
    /\ HoldsAnswer => reader.outcome.answers = client.asked
    /\ Arrived => incoming[1].answers = client.asked

PipeInv ==
    /\ PipeTypes /\ client.paired
    /\ Waiting => ~client.terminated
    /\ ~client.terminated /\ client.phase # "DROPPED" => OneAtATime

-----------------------------------------------------------------------------
LEMMA PipeStarts ==
    ASSUME WorkerInit
    PROVE  PipeInv
  <1>1. /\ client = [phase |-> "STARTING", asked |-> 0, terminated |-> FALSE, paired |-> TRUE]
        /\ outgoing = [frames |-> <<>>, open |-> TRUE]
        /\ stdin = <<>> /\ stdout = <<>> /\ incoming = <<>>
        /\ process = [alive |-> TRUE, ready |-> FALSE, busy |-> 0]
        /\ reader = [state |-> "READING", outcome |-> NoOutcome]
    BY DEF WorkerInit
  <1>2. PipeTypes
    BY <1>1 DEF PipeTypes, Callers, Senders, Processes, Readers, NoOutcome, Results
  <1>3. OneAtATime
    BY <1>1 DEF OneAtATime, UnderWay, Queued, Piped, Worked, Awaited, Written, Held, Passed, One,
                HoldsAnswer, Arrived, Waiting
  <1> QED BY <1>1, <1>2, <1>3 DEF PipeInv, Waiting

(* A caller that may not ask takes nothing more.                            *)
LEMMA PipeClosed ==
    ASSUME PipeTypes', client'.paired, client'.phase \in {"IDLE", "DROPPED"},
           client'.terminated \/ client'.phase = "DROPPED"
    PROVE  PipeInv'
  BY DEF PipeInv, Waiting

LEMMA Total ==
    \A a, b, c, d, e, f, g \in Nat :
        LET n == a + b + c + d + e + f + g
        IN  /\ n \in Nat
            /\ a <= n /\ b <= n /\ c <= n /\ d <= n /\ e <= n /\ f <= n /\ g <= n
  OBVIOUS

(* What is under way, in numbers, before a step and after it.              *)
LEMMA Numbers ==
    ASSUME PipeTypes
    PROVE  /\ Queued \in Nat /\ Piped \in Nat /\ Worked \in Nat /\ Awaited \in Nat
           /\ Written \in Nat /\ Held \in Nat /\ Passed \in Nat
           /\ outgoing.frames # <<>> <=> Queued > 0
           /\ stdin # <<>> <=> Piped > 0
           /\ stdout # <<>> <=> Written > 0
           /\ Worked = IF process.busy # 0 THEN 1 ELSE 0
           /\ Awaited = IF ~process.ready THEN 1 ELSE 0
           /\ Held = IF HoldsAnswer THEN 1 ELSE 0
           /\ Passed = IF Arrived THEN 1 ELSE 0
           /\ UnderWay = Queued + Piped + Worked + Awaited + Written + Held + Passed
           /\ UnderWay \in Nat /\ One(Waiting) \in Nat /\ One(Waiting) <= 1
  <1>1. /\ Queued \in Nat /\ Piped \in Nat /\ Written \in Nat
        /\ outgoing.frames # <<>> <=> Queued > 0
        /\ stdin # <<>> <=> Piped > 0
        /\ stdout # <<>> <=> Written > 0
    BY DEF PipeTypes, Senders, Queued, Piped, Written
  <1>2. /\ Worked = IF process.busy # 0 THEN 1 ELSE 0
        /\ Awaited = IF ~process.ready THEN 1 ELSE 0
        /\ Held = IF HoldsAnswer THEN 1 ELSE 0
        /\ Passed = IF Arrived THEN 1 ELSE 0
    BY DEF One, Worked, Awaited, Held, Passed
  <1>3. One(Waiting) \in Nat /\ One(Waiting) <= 1
    BY DEF One
  <1>4. UnderWay = Queued + Piped + Worked + Awaited + Written + Held + Passed
    BY DEF UnderWay
  <1>5. Worked \in Nat /\ Awaited \in Nat /\ Held \in Nat /\ Passed \in Nat
    BY <1>2
  <1>6. UnderWay \in Nat
    <2>1. Queued \in Nat /\ Piped \in Nat /\ Written \in Nat
      BY <1>1
    <2> QED BY <2>1, <1>4, <1>5, Total
  <1> QED BY <1>1, <1>2, <1>3, <1>4, <1>5, <1>6

LEMMA NumbersNext ==
    ASSUME PipeTypes'
    PROVE  /\ Queued' \in Nat /\ Piped' \in Nat /\ Worked' \in Nat /\ Awaited' \in Nat
           /\ Written' \in Nat /\ Held' \in Nat /\ Passed' \in Nat
           /\ outgoing'.frames # <<>> <=> Queued' > 0
           /\ stdin' # <<>> <=> Piped' > 0
           /\ stdout' # <<>> <=> Written' > 0
           /\ Worked' = IF process'.busy # 0 THEN 1 ELSE 0
           /\ Awaited' = IF ~process'.ready THEN 1 ELSE 0
           /\ Held' = IF HoldsAnswer' THEN 1 ELSE 0
           /\ Passed' = IF Arrived' THEN 1 ELSE 0
           /\ UnderWay' = Queued' + Piped' + Worked' + Awaited' + Written' + Held' + Passed'
           /\ UnderWay' \in Nat /\ One(Waiting') \in Nat /\ One(Waiting') <= 1
  <1>1. /\ Queued' \in Nat /\ Piped' \in Nat /\ Written' \in Nat
        /\ outgoing'.frames # <<>> <=> Queued' > 0
        /\ stdin' # <<>> <=> Piped' > 0
        /\ stdout' # <<>> <=> Written' > 0
    BY DEF PipeTypes, Senders, Queued, Piped, Written
  <1>2. /\ Worked' = IF process'.busy # 0 THEN 1 ELSE 0
        /\ Awaited' = IF ~process'.ready THEN 1 ELSE 0
        /\ Held' = IF HoldsAnswer' THEN 1 ELSE 0
        /\ Passed' = IF Arrived' THEN 1 ELSE 0
    BY DEF One, Worked, Awaited, Held, Passed
  <1>3. One(Waiting') \in Nat /\ One(Waiting') <= 1
    BY DEF One
  <1>4. UnderWay' = Queued' + Piped' + Worked' + Awaited' + Written' + Held' + Passed'
    BY DEF UnderWay
  <1>5. Worked' \in Nat /\ Awaited' \in Nat /\ Held' \in Nat /\ Passed' \in Nat
    BY <1>2
  <1>6. UnderWay' \in Nat
    <2>1. Queued' \in Nat /\ Piped' \in Nat /\ Written' \in Nat
      BY <1>1
    <2> QED BY <2>1, <1>4, <1>5, Total
  <1> QED BY <1>1, <1>2, <1>3, <1>4, <1>5, <1>6

LEMMA Counts ==
    ASSUME PipeTypes, PipeTypes'
    PROVE  /\ Queued \in Nat /\ Piped \in Nat /\ Worked \in Nat /\ Awaited \in Nat
           /\ Written \in Nat /\ Held \in Nat /\ Passed \in Nat
           /\ Queued' \in Nat /\ Piped' \in Nat /\ Worked' \in Nat /\ Awaited' \in Nat
           /\ Written' \in Nat /\ Held' \in Nat /\ Passed' \in Nat
           /\ UnderWay = Queued + Piped + Worked + Awaited + Written + Held + Passed
           /\ UnderWay' = Queued' + Piped' + Worked' + Awaited' + Written' + Held' + Passed'
  BY Numbers, NumbersNext

(* What is alone under way.                                                 *)
LEMMA Alone ==
    ASSUME PipeTypes, UnderWay <= 1
    PROVE  /\ Queued + Piped <= 1 /\ Worked + Written <= 1 /\ Awaited + Written <= 1
  <1>1. /\ Queued \in Nat /\ Piped \in Nat /\ Worked \in Nat /\ Awaited \in Nat
        /\ Written \in Nat /\ Held \in Nat /\ Passed \in Nat
        /\ UnderWay = Queued + Piped + Worked + Awaited + Written + Held + Passed
    BY Numbers
  <1> QED BY <1>1

(* What each step does to the records, field by field.                      *)
LEMMA Terminates ==
    ASSUME PipeTypes, NEW phase \in {"STARTING", "IDLE", "WAITING", "DROPPED"}, Terminate(phase)
    PROVE  /\ client' \in Callers /\ outgoing' \in Senders /\ process' \in Processes
           /\ client'.phase = phase /\ client'.terminated /\ client'.paired = client.paired
  <1>1. client' \in Callers /\ client'.phase = phase /\ client'.terminated
    BY DEF Terminate, PipeTypes, Callers
  <1>2. client'.paired = client.paired
    BY DEF Terminate, PipeTypes, Callers
  <1>3. outgoing' \in Senders
    BY DEF Terminate, PipeTypes, Senders
  <1>4. process' \in Processes
    BY DEF Terminate, PipeTypes, Processes
  <1> QED BY <1>1, <1>2, <1>3, <1>4

LEMMA RequestIs ==
    ASSUME PipeTypes, Request, writer # "DONE"
    PROVE  /\ client' \in Callers /\ outgoing' \in Senders
           /\ client'.phase = "WAITING" /\ client'.asked = client.asked + 1
           /\ client'.terminated = client.terminated /\ client'.paired = client.paired
           /\ outgoing'.frames = Append(outgoing.frames, client.asked + 1)
           /\ client.phase = "IDLE" /\ ~client.terminated
           /\ UNCHANGED <<process, stdin, stdout, reader, incoming>>
  <1> DEFINE more == client.asked + 1  frames == Append(outgoing.frames, more)
  <1>1. more \in Nat
    BY DEF PipeTypes, Callers
  <1>2. frames \in Seq(Nat)
    BY <1>1 DEF PipeTypes, Senders
  <1>3. /\ client' = [client EXCEPT !.phase = "WAITING", !.asked = more]
        /\ outgoing' = [outgoing EXCEPT !.frames = frames]
        /\ UNCHANGED <<process, stdin, stdout, reader, incoming>>
        /\ client.phase = "IDLE" /\ ~client.terminated
    BY DEF Request
  <1>4. more = client.asked + 1 /\ frames = Append(outgoing.frames, client.asked + 1)
    OBVIOUS
  <1> HIDE DEF more, frames
  <1>5. client' \in Callers /\ client'.phase = "WAITING" /\ client'.asked = more
    BY <1>1, <1>3 DEF PipeTypes, Callers
  <1>6. client'.terminated = client.terminated /\ client'.paired = client.paired
    BY <1>3 DEF PipeTypes, Callers
  <1>7. outgoing' \in Senders /\ outgoing'.frames = frames
    BY <1>2, <1>3 DEF PipeTypes, Senders
  <1> QED BY <1>3, <1>4, <1>5, <1>6, <1>7

LEMMA WriteIs ==
    ASSUME PipeTypes, WriteFrame
    PROVE  /\ outgoing.frames # <<>> /\ outgoing' \in Senders
           /\ outgoing'.frames = Tail(outgoing.frames)
           /\ stdin' = Append(stdin, Head(outgoing.frames)) \/ stdin' = stdin
           /\ UNCHANGED <<client, process, stdout, reader, incoming>>
  <1> DEFINE frames == Tail(outgoing.frames)
  <1>1. outgoing.frames # <<>> /\ outgoing.frames \in Seq(Nat)
    BY DEF WriteFrame, PipeTypes, Senders
  <1>2. frames \in Seq(Nat)
    BY <1>1
  <1>3. outgoing' = [outgoing EXCEPT !.frames = frames]
    BY DEF WriteFrame
  <1> HIDE DEF frames
  <1>4. outgoing' \in Senders /\ outgoing'.frames = frames
    BY <1>2, <1>3 DEF PipeTypes, Senders
  <1> QED BY <1>1, <1>4 DEF WriteFrame, frames

LEMMA SayIs ==
    ASSUME PipeTypes, NEW kind \in {"WHOLE", "CUT", "LONG"}, Say(kind)
    PROVE  /\ stdout' \in Seq(Answers) /\ Len(stdout') = Len(stdout) + 1
           /\ stdout = <<>> => stdout'[1].answers = process.busy
  <1> DEFINE frame == [kind |-> kind, answers |-> process.busy]
  <1>1. frame \in Answers /\ frame.answers = process.busy
    BY DEF PipeTypes, Processes, Answers
  <1>2. stdout' = Append(stdout, frame) /\ stdout \in Seq(Answers)
    BY DEF Say, PipeTypes
  <1> HIDE DEF frame
  <1>3. stdout' \in Seq(Answers) /\ Len(stdout') = Len(stdout) + 1
    BY <1>1, <1>2
  <1>4. stdout = <<>> => stdout'[1] = frame
    BY <1>1, <1>2
  <1> QED BY <1>1, <1>3, <1>4

LEMMA ReadIs ==
    ASSUME PipeTypes, ReadFrame
    PROVE  /\ reader' \in Readers /\ reader'.state = "HOLDING" /\ reader.state = "READING"
           /\ stdout' \in Seq(Answers)
           /\ \/ /\ stdout # <<>> /\ stdout' = Tail(stdout)
                 /\ reader'.outcome.answers = stdout[1].answers
              \/ stdout' = stdout /\ reader'.outcome.kind = "CLOSED"
           /\ UNCHANGED <<client, outgoing, stdin, process, incoming>>
  <1>1. reader.state = "READING" /\ UNCHANGED <<client, outgoing, stdin, process, incoming>>
    BY DEF ReadFrame
  <1>2. CASE stdout # <<>> /\ stdout' = Tail(stdout)
                 /\ reader' = [state |-> "HOLDING", outcome |-> OutcomeOf(Head(stdout))]
    <2>1. stdout[1] \in Answers /\ Head(stdout) = stdout[1] /\ Tail(stdout) \in Seq(Answers)
      BY <1>2 DEF PipeTypes
    <2>2. PICK outcome : outcome = OutcomeOf(stdout[1])
      OBVIOUS
    <2>3. outcome \in Results /\ outcome.answers = stdout[1].answers
      BY <2>1, <2>2 DEF OutcomeOf, Answers, Results
    <2>4. reader' = [state |-> "HOLDING", outcome |-> outcome]
      BY <1>2, <2>1, <2>2
    <2>5. reader' \in Readers /\ reader'.state = "HOLDING" /\ reader'.outcome = outcome
      BY <2>3, <2>4 DEF Readers
    <2> QED BY <1>1, <1>2, <2>1, <2>3, <2>5
  <1>3. CASE UNCHANGED stdout /\ reader' = [state |-> "HOLDING", outcome |-> NoOutcome]
    <2>1. NoOutcome \in Results /\ NoOutcome.kind = "CLOSED"
      BY DEF NoOutcome, Results
    <2>2. reader' \in Readers /\ reader'.state = "HOLDING" /\ reader'.outcome = NoOutcome
      BY <1>3, <2>1 DEF Readers
    <2> QED BY <1>1, <1>3, <2>1, <2>2 DEF PipeTypes
  <1> QED BY <1>2, <1>3 DEF ReadFrame

-----------------------------------------------------------------------------
(* Steps that leave the caller: only what is under way can matter.          *)
LEMMA PipeMoves ==
    ASSUME PipeInv, PipeTypes', client' = client,
           OneAtATime /\ UnderWay <= 1 =>
               /\ UnderWay' <= UnderWay
               /\ outgoing'.frames # <<>> => outgoing'.frames[1] = client.asked
               /\ stdin' # <<>> => stdin'[1] = client.asked
               /\ process'.busy # 0 => process'.busy = client.asked
               /\ ~process'.ready => client.asked = 0 /\ process'.busy = 0
               /\ stdout' # <<>> => stdout'[1].answers = client.asked
               /\ HoldsAnswer' => reader'.outcome.answers = client.asked
               /\ Arrived' => incoming'[1].answers = client.asked
    PROVE  PipeInv'
  <1>1. One(Waiting') = One(Waiting) /\ PipeTypes
    BY DEF Waiting, PipeInv
  <1>2. UnderWay \in Nat /\ One(Waiting) \in Nat /\ One(Waiting) <= 1
    BY <1>1, Numbers
  <1>3. UnderWay' \in Nat
    BY NumbersNext
  <1>4. OneAtATime => UnderWay <= 1
    BY <1>2 DEF OneAtATime
  <1>5. OneAtATime => UnderWay' <= One(Waiting')
    <2> SUFFICES ASSUME OneAtATime PROVE UnderWay' <= One(Waiting')
      OBVIOUS
    <2>1. UnderWay' <= UnderWay
      BY <1>4
    <2>2. UnderWay <= One(Waiting)
      BY DEF OneAtATime
    <2> QED BY <1>1, <1>2, <1>3, <2>1, <2>2
  <1>6. OneAtATime => OneAtATime'
    BY <1>4, <1>5 DEF OneAtATime
  <1> QED BY <1>6 DEF PipeInv, Waiting

LEMMA WriteKeeps ==
    ASSUME PipeInv, WriteFrame
    PROVE  PipeInv'
  <1>1. PipeTypes
    BY DEF PipeInv
  <1>2. /\ outgoing.frames # <<>> /\ outgoing' \in Senders
        /\ outgoing'.frames = Tail(outgoing.frames)
        /\ stdin' = Append(stdin, Head(outgoing.frames)) \/ stdin' = stdin
        /\ UNCHANGED <<client, process, stdout, reader, incoming>>
    BY <1>1, WriteIs
  <1>3. /\ stdin \in Seq(Nat)
        /\ Head(outgoing.frames) = outgoing.frames[1] /\ Head(outgoing.frames) \in Nat
        /\ Queued' = Queued - 1
    BY <1>1, <1>2 DEF PipeTypes, Senders, Queued
  <1>4. PipeTypes'
    <2>1. stdin' \in Seq(Nat)
      BY <1>2, <1>3
    <2> QED BY <1>1, <1>2, <2>1 DEF PipeTypes
  <1>5. /\ Piped' = Piped \/ Piped' = Piped + 1
        /\ stdin = <<>> /\ stdin' # <<>> => stdin'[1] = outgoing.frames[1]
    BY <1>2, <1>3 DEF Piped
  <1>6. /\ Worked' = Worked /\ Awaited' = Awaited /\ Written' = Written /\ Held' = Held
        /\ Passed' = Passed /\ HoldsAnswer' = HoldsAnswer /\ Arrived' = Arrived
    BY <1>2 DEF Worked, Awaited, Written, Held, Passed, HoldsAnswer, Arrived
  <1>7. UnderWay' <= UnderWay
    <2>1. (Piped' = Piped \/ Piped' = Piped + 1) /\ Queued' = Queued - 1
      BY <1>3, <1>5
    <2>2. /\ Worked' = Worked /\ Awaited' = Awaited /\ Written' = Written /\ Held' = Held
          /\ Passed' = Passed
      BY <1>6
    <2> QED BY <1>1, <1>4, <2>1, <2>2, Counts
  <1>8. UnderWay <= 1 => Queued' = 0 /\ Piped = 0
    BY <1>1, <1>2, <1>3, Alone, Numbers
  <1>9. UnderWay <= 1 => outgoing'.frames = <<>> /\ stdin = <<>>
    BY <1>1, <1>4, <1>8, Numbers, NumbersNext
  <1> QED BY <1>2, <1>4, <1>5, <1>6, <1>7, <1>9, PipeMoves DEF OneAtATime

LEMMA ReadKeeps ==
    ASSUME PipeInv, ReadFrame
    PROVE  PipeInv'
  <1>1. PipeTypes
    BY DEF PipeInv
  <1>2. /\ reader' \in Readers /\ reader'.state = "HOLDING" /\ reader.state = "READING"
        /\ stdout' \in Seq(Answers)
        /\ \/ /\ stdout # <<>> /\ stdout' = Tail(stdout)
              /\ reader'.outcome.answers = stdout[1].answers
           \/ stdout' = stdout /\ reader'.outcome.kind = "CLOSED"
        /\ UNCHANGED <<client, outgoing, stdin, process, incoming>>
    BY <1>1, ReadIs
  <1>3. PipeTypes'
    BY <1>1, <1>2 DEF PipeTypes
  <1>4. /\ Queued' = Queued /\ Piped' = Piped /\ Worked' = Worked /\ Awaited' = Awaited
        /\ Passed' = Passed /\ Arrived' = Arrived /\ ~HoldsAnswer
    BY <1>2 DEF Queued, Piped, Worked, Awaited, Passed, HoldsAnswer, Arrived
  <1>5. CASE stdout # <<>> /\ stdout' = Tail(stdout)
                 /\ reader'.outcome.answers = stdout[1].answers
    <2>1. Written' = Written - 1
      BY <1>1, <1>5 DEF PipeTypes, Written
    <2>2. UnderWay' <= UnderWay
      <3>1. Held = 0 /\ Held' <= 1
        BY <1>4 DEF Held, One
      <3> QED BY <1>1, <1>3, <1>4, <2>1, <3>1, Counts
    <2>3. UnderWay <= 1 => Written' = 0
      BY <1>1, <1>5, <2>1, Alone, Numbers
    <2>4. UnderWay <= 1 => stdout' = <<>>
      BY <1>3, <2>3, NumbersNext
    <2> QED BY <1>2, <1>3, <1>4, <1>5, <2>2, <2>4, PipeMoves DEF OneAtATime, Arrived
  <1>6. CASE stdout' = stdout /\ reader'.outcome.kind = "CLOSED"
    <2>1. ~HoldsAnswer' /\ Written' = Written
      BY <1>6 DEF HoldsAnswer, Written
    <2>2. UnderWay' <= UnderWay
      BY <1>1, <1>3, <1>4, <2>1, Numbers, NumbersNext
    <2> QED BY <1>2, <1>3, <1>4, <1>6, <2>1, <2>2, PipeMoves DEF OneAtATime, Arrived
  <1> QED BY <1>2, <1>5, <1>6

LEMMA HandOverKeeps ==
    ASSUME PipeInv, HandOver
    PROVE  PipeInv'
  <1>1. PipeTypes
    BY DEF PipeInv
  <1>2. /\ reader.state = "HOLDING"
        /\ reader \in Readers /\ incoming \in Seq(Results)
        /\ UNCHANGED <<client, outgoing, stdin, process, stdout>>
    BY <1>1 DEF HandOver, PipeTypes
  <1>3. PICK state \in {"READING", "DONE"} : reader' = [reader EXCEPT !.state = state]
    BY DEF HandOver
  <1>4. reader' \in Readers /\ reader'.state = state /\ ~HoldsAnswer'
    BY <1>2, <1>3 DEF Readers, HoldsAnswer
  <1>5. \/ incoming' = incoming
        \/ incoming = <<>> /\ incoming' = <<reader.outcome>>
    BY DEF HandOver
  <1>6. PipeTypes'
    <2>1. reader.outcome \in Results
      BY <1>2 DEF Readers
    <2>2. <<reader.outcome>> \in Seq(Results)
      BY <2>1
    <2>3. incoming' \in Seq(Results)
      BY <1>2, <1>5, <2>2
    <2> QED BY <1>1, <1>2, <1>4, <2>3 DEF PipeTypes
  <1>7. /\ Queued' = Queued /\ Piped' = Piped /\ Worked' = Worked /\ Awaited' = Awaited
        /\ Written' = Written /\ Held' = 0
    BY <1>2, <1>4 DEF Queued, Piped, Worked, Awaited, Written, Held, One
  <1>8. CASE incoming' = incoming
    <2>1. Arrived' = Arrived /\ Passed' = Passed
      BY <1>8 DEF Arrived, Passed
    <2>2. UnderWay' <= UnderWay
      BY <1>1, <1>6, <1>7, <2>1, Counts
    <2> QED BY <1>2, <1>4, <1>6, <1>8, <2>1, <2>2, PipeMoves DEF OneAtATime
  <1>9. CASE incoming = <<>> /\ incoming' = <<reader.outcome>>
    <2>1. incoming'[1] = reader.outcome /\ incoming' # <<>> /\ ~Arrived
      BY <1>9 DEF Arrived
    <2>2. Arrived' <=> HoldsAnswer
      BY <1>2, <2>1 DEF Arrived, HoldsAnswer
    <2>3. Passed' = Held /\ Passed = 0
      BY <2>1, <2>2 DEF Passed, Held, One
    <2>4. UnderWay' <= UnderWay
      BY <1>1, <1>6, <1>7, <2>3, Counts
    <2> QED BY <1>2, <1>4, <1>6, <2>1, <2>2, <2>4, PipeMoves DEF OneAtATime
  <1> QED BY <1>5, <1>8, <1>9

(* The worker says one frame, of the request it works on or of its start.   *)
LEMMA SayKeeps ==
    ASSUME PipeInv, NEW kind \in {"WHOLE", "CUT", "LONG"}, Say(kind), process' \in Processes,
           process'.busy = 0, process'.ready, process.busy # 0 \/ ~process.ready,
           UNCHANGED <<client, outgoing, stdin, reader, incoming>>
    PROVE  PipeInv'
  <1>1. PipeTypes
    BY DEF PipeInv
  <1>2. /\ stdout' \in Seq(Answers) /\ Len(stdout') = Len(stdout) + 1
        /\ stdout = <<>> => stdout'[1].answers = process.busy
    BY <1>1, SayIs
  <1>3. PipeTypes'
    BY <1>1, <1>2 DEF PipeTypes
  <1>4. /\ Queued' = Queued /\ Piped' = Piped /\ Held' = Held /\ Passed' = Passed
        /\ HoldsAnswer' = HoldsAnswer /\ Arrived' = Arrived /\ Written' = Written + 1
    BY <1>2 DEF Queued, Piped, Held, Passed, HoldsAnswer, Arrived, Written
  <1>5. Worked' = 0 /\ Awaited' = 0 /\ Worked + Awaited >= 1
    BY DEF Worked, Awaited, One
  <1>6. UnderWay' <= UnderWay
    BY <1>1, <1>3, <1>4, <1>5, Counts
  <1>7. UnderWay <= 1 => Written = 0
    <2>1. Worked \in Nat /\ Awaited \in Nat /\ Written \in Nat
      BY <1>1, Numbers
    <2>2. UnderWay <= 1 => Worked + Written <= 1 /\ Awaited + Written <= 1
      BY <1>1, Alone
    <2> QED BY <1>5, <2>1, <2>2
  <1>8. UnderWay <= 1 => stdout = <<>>
    BY <1>1, <1>7, Numbers
  <1>9. OneAtATime => process.busy = client.asked
    BY DEF OneAtATime
  <1> QED BY <1>2, <1>3, <1>4, <1>6, <1>8, <1>9, PipeMoves DEF OneAtATime

(* Whatever is said once the caller may not ask any more.                   *)
LEMMA SayAnything ==
    ASSUME PipeInv, ~OneAtATime, NEW kind \in {"WHOLE", "CUT", "LONG"}, Say(kind),
           process' \in Processes, UNCHANGED <<client, outgoing, stdin, reader, incoming>>
    PROVE  PipeInv'
  <1>1. PipeTypes
    BY DEF PipeInv
  <1>2. stdout' \in Seq(Answers)
    BY <1>1, SayIs
  <1>3. PipeTypes'
    BY <1>1, <1>2 DEF PipeTypes
  <1> QED BY <1>3, PipeMoves

LEMMA WorkerKeeps ==
    ASSUME PipeInv,
           \/ Announce \/ \E exits \in BOOLEAN : AnswerRequest(exits)
           \/ \E kind \in {"CUT", "LONG"} : BreakFrame(kind)
    PROVE  PipeInv'
  <1>1. process \in Processes
    BY DEF PipeInv, PipeTypes
  <1>2. CASE Announce
    <2>1. process' \in Processes /\ process'.ready /\ process'.busy = process.busy
      BY <1>1, <1>2 DEF Announce, Processes
    <2>2. process.busy = 0 \/ ~OneAtATime
      BY <1>2 DEF Announce, OneAtATime
    <2>3. CASE process.busy = 0
      BY <1>2, <2>1, <2>3, SayKeeps DEF Announce
    <2>4. CASE ~OneAtATime
      BY <1>2, <2>1, <2>4, SayAnything DEF Announce
    <2> QED BY <2>2, <2>3, <2>4
  <1>3. ASSUME NEW exits \in BOOLEAN, AnswerRequest(exits)
        PROVE  PipeInv'
    <2>1. process' \in Processes /\ process'.busy = 0 /\ process'.ready = process.ready
      BY <1>1, <1>3 DEF AnswerRequest, Processes
    <2>2. process.ready \/ ~OneAtATime
      BY <1>3 DEF AnswerRequest, OneAtATime
    <2>3. CASE process.ready
      BY <1>3, <2>1, <2>3, SayKeeps DEF AnswerRequest
    <2>4. CASE ~OneAtATime
      BY <1>3, <2>1, <2>4, SayAnything DEF AnswerRequest
    <2> QED BY <2>2, <2>3, <2>4
  <1>4. ASSUME NEW kind \in {"CUT", "LONG"}, BreakFrame(kind)
        PROVE  PipeInv'
    <2>1. process' \in Processes /\ process'.busy = 0 /\ process'.ready
      BY <1>1, <1>4 DEF BreakFrame, Processes
    <2> QED BY <1>4, <2>1, SayKeeps DEF BreakFrame
  <1> QED BY <1>2, <1>3, <1>4

LEMMA TakeKeeps ==
    ASSUME PipeInv, TakeRequest
    PROVE  PipeInv'
  <1>1. PipeTypes
    BY DEF PipeInv
  <1>2. /\ stdin # <<>> /\ stdin' = Tail(stdin) /\ stdin \in Seq(Nat)
        /\ process.busy = 0 /\ process.ready
        /\ UNCHANGED <<client, outgoing, stdout, reader, incoming>>
    BY <1>1 DEF TakeRequest, PipeTypes
  <1>3. /\ Head(stdin) = stdin[1] /\ Head(stdin) \in Nat /\ stdin' \in Seq(Nat)
        /\ Piped' = Piped - 1
    BY <1>2 DEF Piped
  <1>4. process' \in Processes /\ process'.busy = stdin[1] /\ process'.ready
    <2>1. process' = [process EXCEPT !.busy = stdin[1]] /\ stdin[1] \in Nat
      BY <1>3 DEF TakeRequest
    <2> QED BY <1>1, <1>2, <2>1 DEF PipeTypes, Processes
  <1>5. PipeTypes'
    BY <1>1, <1>2, <1>3, <1>4 DEF PipeTypes
  <1>6. /\ Queued' = Queued /\ Written' = Written /\ Held' = Held /\ Passed' = Passed
        /\ HoldsAnswer' = HoldsAnswer /\ Arrived' = Arrived /\ Awaited' = Awaited
    BY <1>2, <1>4 DEF Queued, Written, Held, Passed, HoldsAnswer, Arrived, Awaited, One
  <1>7. Worked = 0 /\ (Worked' = 0 \/ Worked' = 1)
    BY <1>2 DEF Worked, One
  <1>8. UnderWay' <= UnderWay
    <2>1. Piped' + Worked' <= Piped + Worked
      <3>1. Piped \in Nat /\ Piped' = Piped - 1
        BY <1>1, <1>3, Numbers
      <3> QED BY <1>7, <3>1
    <2>2. /\ Queued' = Queued /\ Written' = Written /\ Held' = Held /\ Passed' = Passed
          /\ Awaited' = Awaited
      BY <1>6
    <2> QED BY <1>1, <1>5, <2>1, <2>2, Counts
  <1>9. UnderWay <= 1 => stdin' = <<>>
    <2>1. Queued \in Nat /\ Piped \in Nat
      BY <1>1, Numbers
    <2>2. UnderWay <= 1 => Queued + Piped <= 1
      BY <1>1, Alone
    <2>3. UnderWay <= 1 => ~(Piped' > 0)
      BY <1>3, <2>1, <2>2
    <2> QED BY <1>5, <2>3, NumbersNext
  <1> QED BY <1>2, <1>4, <1>5, <1>6, <1>8, <1>9, PipeMoves DEF OneAtATime

LEMMA ExitKeeps ==
    ASSUME PipeInv, Exit
    PROVE  PipeInv'
  <1>1. PipeTypes
    BY DEF PipeInv
  <1>2. /\ process' \in Processes /\ process'.busy = process.busy
        /\ process'.ready = process.ready
        /\ UNCHANGED <<client, outgoing, stdin, stdout, reader, incoming>>
    BY <1>1 DEF Exit, PipeTypes, Processes
  <1>3. PipeTypes'
    BY <1>1, <1>2 DEF PipeTypes
  <1>4. /\ Queued' = Queued /\ Piped' = Piped /\ Worked' = Worked /\ Awaited' = Awaited
        /\ Written' = Written /\ Held' = Held /\ Passed' = Passed
        /\ HoldsAnswer' = HoldsAnswer /\ Arrived' = Arrived
    BY <1>2 DEF Queued, Piped, Worked, Awaited, Written, Held, Passed, HoldsAnswer, Arrived
  <1>5. UnderWay' <= UnderWay
    BY <1>1, <1>3, <1>4, Counts
  <1> QED BY <1>2, <1>3, <1>4, <1>5, PipeMoves DEF OneAtATime

-----------------------------------------------------------------------------
(* Steps of the caller.                                                     *)
LEMMA TerminateKeeps ==
    ASSUME PipeInv, NEW phase \in {"IDLE", "DROPPED"},
           client' \in Callers, outgoing' \in Senders, process' \in Processes,
           client'.phase = phase, client'.terminated \/ phase = "DROPPED",
           client'.paired = client.paired,
           incoming' \in Seq(Results), UNCHANGED <<stdin, stdout, reader>>
    PROVE  PipeInv'
  <1>1. PipeTypes'
    BY DEF PipeInv, PipeTypes
  <1> QED BY <1>1, PipeClosed DEF PipeInv

LEMMA RequestKeeps ==
    ASSUME PipeInv, Request
    PROVE  PipeInv'
  <1>1. PipeTypes
    BY DEF PipeInv
  <1>2. CASE writer = "DONE"
    <2>1. Terminate("IDLE") /\ UNCHANGED <<stdin, stdout, reader, incoming>>
      BY <1>2 DEF Request
    <2>2. incoming' \in Seq(Results)
      BY <1>1, <2>1 DEF PipeTypes
    <2> QED BY <1>1, <2>1, <2>2, Terminates, TerminateKeeps
  <1>3. CASE writer # "DONE"
    <2>1. /\ client' \in Callers /\ outgoing' \in Senders
          /\ client'.phase = "WAITING" /\ client'.asked = client.asked + 1
          /\ client'.terminated = client.terminated /\ client'.paired = client.paired
          /\ outgoing'.frames = Append(outgoing.frames, client.asked + 1)
          /\ client.phase = "IDLE" /\ ~client.terminated
          /\ UNCHANGED <<process, stdin, stdout, reader, incoming>>
      BY <1>1, <1>3, RequestIs
    <2>2. PipeTypes'
      BY <1>1, <2>1 DEF PipeTypes
    <2>3. OneAtATime /\ One(Waiting) = 0 /\ One(Waiting') = 1
      BY <2>1 DEF PipeInv, Waiting, One
    <2>4. UnderWay <= 0
      BY <2>3 DEF OneAtATime
    <2>5. /\ Queued = 0 /\ Piped = 0 /\ Worked = 0 /\ Awaited = 0 /\ Written = 0
          /\ Held = 0 /\ Passed = 0
      <3>1. /\ Queued \in Nat /\ Piped \in Nat /\ Worked \in Nat /\ Awaited \in Nat
            /\ Written \in Nat /\ Held \in Nat /\ Passed \in Nat
            /\ UnderWay = Queued + Piped + Worked + Awaited + Written + Held + Passed
        BY <1>1, Numbers
      <3> QED BY <2>4, <3>1
    <2>6. /\ outgoing.frames = <<>> /\ stdin = <<>> /\ process.busy = 0 /\ process.ready
          /\ stdout = <<>> /\ ~HoldsAnswer /\ ~Arrived
      BY <1>1, <2>5, Numbers
    <2>7. Queued' = 1 /\ outgoing'.frames[1] = client'.asked
      BY <2>1, <2>6 DEF Queued
    <2>8. /\ Piped' = 0 /\ Worked' = 0 /\ Awaited' = 0 /\ Written' = 0
          /\ Held' = 0 /\ Passed' = 0 /\ ~HoldsAnswer' /\ ~Arrived'
      BY <2>1, <2>5, <2>6 DEF Piped, Worked, Awaited, Written, Held, Passed, HoldsAnswer, Arrived
    <2>9. UnderWay' = 1
      BY <1>1, <2>2, <2>7, <2>8, Counts
    <2>10. OneAtATime'
      BY <2>1, <2>3, <2>6, <2>7, <2>8, <2>9 DEF OneAtATime
    <2> QED BY <2>1, <2>2, <2>10 DEF PipeInv
  <1> QED BY <1>2, <1>3

LEMMA ReceiveKeeps ==
    ASSUME PipeInv, Receive
    PROVE  PipeInv'
  <1>1. PipeTypes
    BY DEF PipeInv
  <1>2. /\ Waiting /\ incoming # <<>> /\ incoming' = <<>> /\ incoming' \in Seq(Results)
        /\ incoming \in Seq(Results) /\ Head(incoming) = incoming[1]
        /\ incoming[1] \in Results
        /\ UNCHANGED <<stdin, stdout, reader>>
    BY <1>1 DEF Receive, PipeTypes
  <1>3. CASE incoming[1].kind # "FRAME"
    <2>1. Terminate("IDLE")
      BY <1>2, <1>3 DEF Receive
    <2> QED BY <1>1, <1>2, <2>1, Terminates, TerminateKeeps
  <1>4. CASE incoming[1].kind = "FRAME"
    <2>1. /\ Arrived /\ OneAtATime /\ client.paired /\ One(Waiting) = 1
          /\ ~client.terminated
      BY <1>2, <1>4 DEF Arrived, PipeInv, Waiting, One
    <2>2. incoming[1].answers = client.asked
      BY <2>1 DEF OneAtATime
    <2>3. UNCHANGED <<outgoing, process>>
      BY <1>2, <1>4 DEF Receive
    <2>4. /\ client' \in Callers /\ client'.phase = "IDLE" /\ client'.asked = client.asked
          /\ client'.terminated = client.terminated /\ client'.paired
      <3>1. client' = [client EXCEPT !.phase = "IDLE",
                                     !.paired = client.paired /\ incoming[1].answers = client.asked]
        BY <1>2, <1>4 DEF Receive
      <3>2. client' = [client EXCEPT !.phase = "IDLE", !.paired = TRUE]
        BY <2>1, <2>2, <3>1
      <3> QED BY <1>1, <3>2 DEF PipeTypes, Callers
    <2>5. PipeTypes'
      BY <1>1, <1>2, <2>3, <2>4 DEF PipeTypes
    <2>6. /\ Queued' = Queued /\ Piped' = Piped /\ Worked' = Worked /\ Awaited' = Awaited
          /\ Written' = Written /\ Held' = Held /\ HoldsAnswer' = HoldsAnswer
      BY <1>2, <2>3 DEF Queued, Piped, Worked, Awaited, Written, Held, HoldsAnswer
    <2>7. Passed = 1 /\ Passed' = 0 /\ ~Arrived' /\ One(Waiting') = 0
      BY <1>2, <2>1, <2>4 DEF Passed, Arrived, Waiting, One
    <2>8. UnderWay <= 1
      BY <2>1 DEF OneAtATime
    <2>9. UnderWay' <= 0
      BY <1>1, <2>5, <2>6, <2>7, <2>8, Counts
    <2>10. OneAtATime'
      BY <1>2, <2>1, <2>3, <2>4, <2>6, <2>7, <2>9 DEF OneAtATime
    <2> QED BY <2>4, <2>5, <2>10 DEF PipeInv, Waiting
  <1> QED BY <1>3, <1>4

LEMMA CallerEndsKeeps ==
    ASSUME PipeInv, NoAnswer \/ DropWorker
    PROVE  PipeInv'
  <1>1. PipeTypes
    BY DEF PipeInv
  <1>2. UNCHANGED <<stdin, stdout, reader, incoming>> /\ incoming' \in Seq(Results)
    BY <1>1 DEF NoAnswer, DropWorker, PipeTypes
  <1>3. CASE NoAnswer
    BY <1>1, <1>2, <1>3, Terminates, TerminateKeeps DEF NoAnswer
  <1>4. CASE DropWorker
    <2>1. DropAll
      BY <1>4 DEF DropWorker
    <2>2. client' \in Callers /\ client'.phase = "DROPPED" /\ client'.paired = client.paired
      BY <1>1, <2>1 DEF DropAll, PipeTypes, Callers
    <2>3. outgoing' \in Senders
      BY <1>1, <2>1 DEF DropAll, PipeTypes, Senders
    <2>4. process' \in Processes
      BY <1>1, <2>1 DEF DropAll, PipeTypes, Processes
    <2> QED BY <1>2, <2>2, <2>3, <2>4, TerminateKeeps
  <1> QED BY <1>3, <1>4

LEMMA PipeStep ==
    ASSUME PipeInv, [WorkerNext]_workerVars
    PROVE  PipeInv'
  <1>1. ASSUME UNCHANGED <<client, outgoing, stdin, process, stdout, reader, incoming>>
        PROVE  PipeInv'
    BY <1>1 DEF PipeInv, PipeTypes, OneAtATime, Waiting, UnderWay, Queued, Piped, Worked,
                Awaited, Written, Held, Passed, HoldsAnswer, Arrived
  <1>2. CASE WriterEnds \/ UNCHANGED workerVars
    BY <1>1, <1>2 DEF WriterEnds, workerVars, threadVars
  <1>3. CASE WorkerNext
    BY <1>2, <1>3, RequestKeeps, ReceiveKeeps, CallerEndsKeeps, WriteKeeps, ReadKeeps,
       HandOverKeeps, WorkerKeeps, TakeKeeps, ExitKeeps
       DEF WorkerNext, WriterThread, ReaderThread
  <1> QED BY <1>2, <1>3

(* Whatever deadlines expire, whatever the worker cuts short, overruns or   *)
(* leaves unanswered, and whenever the pipe threads run: the frame a caller *)
(* takes is the answer to the question it asked, though frames carry no     *)
(* identity of a request (ProcessStrategyWorker::terminate), for pipes of   *)
(* any size and any number of requests.                                     *)
THEOREM AnswersPaired == WorkerSpec => []AnswersArePaired
  <1>1. WorkerInit => PipeInv
    BY PipeStarts
  <1>2. PipeInv /\ [WorkerNext]_workerVars => PipeInv'
    BY PipeStep
  <1>3. PipeInv => AnswersArePaired
    BY DEF PipeInv, AnswersArePaired
  <1> QED BY <1>1, <1>2, <1>3, PTL DEF WorkerSpec

-----------------------------------------------------------------------------
(* The bridge to IBKR.                                                      *)

(* What IBKR, the socket and the bridge may hold.                           *)
Statuses == {"PendingSubmit", "Submitted", "Filled", "Cancelled", "Inactive"}
NextIds == 0..(Cardinality(OrderIds) + 1)
IbkrOrders ==
    {NoTrace} \union
    [ref : ClientOrders, life : Nat, filled : Nat,
     state : {"SENT", "WORKING", "FILLED", "CANCELLED", "REJECTED"}]
Asks == [kind : {"CANCEL"}, id : OrderIds] \union [kind : Listings, request : Nat]
Callbacks ==
    [cb : {"openOrder"}, id : OrderIds, ref : ClientOrders, status : Statuses]
    \union [cb : {"orderStatus"}, id : OrderIds, status : Statuses, filled : Nat]
    \union [cb : {"execDetails"}, execution : OrderIds \X Nat, ref : ClientOrders, request : Nat]
    \union [cb : {"commissionReport"}, execution : OrderIds \X Nat, ref : ClientOrders]
    \union [cb : {"error"}, id : OrderIds, code : {"CANCEL_FAILURE", "REJECTION"}]
    \union [cb : {"end"}, kind : Listings, request : Nat]
    \union [cb : {"nextValidId"}, id : NextIds]
ListedOrders ==
    [filled : Nat,
     state : Terminal \union {"NONE", "PENDING_SUBMIT", "ACKNOWLEDGED", "PARTIALLY_FILLED"}]
Reports == [ref : ClientOrders, execution : (OrderIds \X Nat) \union {<<>>},
        type : {"ACKNOWLEDGED", "CANCELLED", "REJECTED", "EXECUTION", "CANCEL_REJECTED"}]
Memories ==
    [ready : BOOLEAN, socket : BOOLEAN, nextId : NextIds,
     refOf : [OrderIds -> ClientOrders \union {"none"}],
     idOf : [ClientOrders -> OrderIds \union {0}],
     orders : [ClientOrders -> ListedOrders], cancelling : SUBSET ClientOrders,
     details : SUBSET (OrderIds \X Nat), fees : SUBSET (OrderIds \X Nat),
     reported : SUBSET (OrderIds \X Nat), seen : SUBSET (OrderIds \X Nat),
     done : SUBSET Listings, execRequest : Nat, events : Seq(Reports)]
Tasks ==
    {Idle, Reconnecting}
    \union [op : {"SUBMIT"}, ref : ClientOrders]
    \union [op : {"CANCEL"}, ref : ClientOrders, id : OrderIds]
    \union [op : {"SNAPSHOT"}, request : Nat, since : [OrderIds -> IbkrOrders], disturbed : BOOLEAN]
    \union [op : {"REFRESH"}, request : Nat, since : [OrderIds -> IbkrOrders]]
Histories ==
    [life : Nat \ {0}, tasks : Nat, repeats : Nat, lossy : BOOLEAN, over : SUBSET ClientOrders,
     attested : SUBSET (OrderIds \X Nat), rejected : SUBSET (ClientOrders \X Nat),
     cancels : [ClientOrders -> Nat]]

BridgeTypes ==
    /\ session \in Sessions /\ ibkr \in [OrderIds -> IbkrOrders] /\ asked \subseteq Asks
    /\ wire \in Seq(Callbacks) /\ bridge \in Memories /\ task \in Tasks /\ memo \in Histories

(* What IBKR holds adds up.                                                 *)
SoundOrder(o) ==
    /\ o.life <= memo.life /\ o.filled <= OrderLots
    /\ o.state \in {"NONE", "SENT", "REJECTED"} => o.filled = 0
    /\ o.state = "WORKING" => o.filled < OrderLots
IbkrSound == \A i \in OrderIds : SoundOrder(ibkr[i])

(* A callback under way says what IBKR has.                                 *)
Kept(i) == ibkr[i].state \notin {"NONE", "SENT"}
Says(i, status) ==
    /\ Kept(i)
    /\ status = "Cancelled" => ibkr[i].state = "CANCELLED"
    /\ status = "Inactive" => ibkr[i].state = "REJECTED"
SoundCallback(e) ==
    /\ e.cb = "openOrder" => Says(e.id, e.status) /\ e.ref = ibkr[e.id].ref
    /\ e.cb = "orderStatus" => Says(e.id, e.status) /\ e.filled <= OrderLots
    /\ e.cb \in {"execDetails", "commissionReport"} =>
          e.execution \in Made /\ e.ref = ibkr[e.execution[1]].ref
    /\ e.cb = "error" /\ e.code = "REJECTION" => ibkr[e.id].state = "REJECTED"
    /\ e.cb \in {"execDetails", "end"} => e.request <= memo.tasks
    /\ e.cb = "nextValidId" =>
          ~bridge.ready /\ \A i \in OrderIds : ibkr[i] # NoTrace => i < e.id
WireSound == \A k \in 1..Len(wire) : SoundCallback(wire[k])

(* Once greeted, the bridge numbers its orders above all that IBKR holds.   *)
Greeted == bridge.socket /\ \A k \in 1..Len(wire) : wire[k].cb # "nextValidId"
GreetingFirst ==
    /\ wire # <<>> => bridge.socket
    /\ \A k \in 1..Len(wire) : wire[k].cb = "nextValidId" => k = 1
Numbered ==
    /\ GreetingFirst
    /\ bridge.ready => Greeted
    /\ Greeted => \A i \in OrderIds : ibkr[i] # NoTrace => i < bridge.nextId

(* The memory of the bridge is of what IBKR has.                            *)
Over(c) == \E i \in OrderIds : ibkr[i].ref = c /\ ibkr[i].state \in {"CANCELLED", "REJECTED"}
Known(x) == bridge.idOf[ibkr[x[1]].ref] # 0
MemorySound ==
    /\ \A i \in OrderIds : ibkr[i] # NoTrace => bridge.refOf[i] \in {"none", ibkr[i].ref}
    /\ \A i \in OrderIds :
          ibkr[i] # NoTrace /\ ibkr[i].life = memo.life => bridge.idOf[ibkr[i].ref] # 0
    /\ \A c \in ClientOrders : bridge.orders[c].state \in {"CANCELLED", "REJECTED"} => Over(c)
    /\ bridge.details \subseteq Made /\ bridge.fees \subseteq Made
    /\ \A x \in bridge.details : Known(x)
    /\ bridge.seen \subseteq bridge.details

(* An execution is put once, when both halves of it are known.              *)
ReportedOnce ==
    /\ bridge.reported = bridge.details \intersect bridge.fees
    /\ \A n \in 1..Len(bridge.events) :
          bridge.events[n].type = "EXECUTION" => bridge.events[n].execution \in bridge.reported
    /\ \A m, n \in 1..Len(bridge.events) :
          bridge.events[m].type = "EXECUTION" /\ bridge.events[n].type = "EXECUTION"
          /\ bridge.events[m].execution = bridge.events[n].execution => m = n

(* A failed cancellation is owed to a request.                              *)
Failed(c) ==
    {n \in 1..Len(bridge.events) :
        bridge.events[n].ref = c /\ bridge.events[n].type = "CANCEL_REJECTED"}
Owed(c) ==
    (IF c \in bridge.cancelling THEN 1 ELSE 0)
    + (IF task.op = "CANCEL" /\ task.ref = c THEN 1 ELSE 0)
CancelsOwed ==
    \A c \in ClientOrders : Cardinality(Failed(c)) + Owed(c) <= memo.cancels[c]

(* Where the listing of a refresh stands.                                   *)
Refreshing == task.op \in {"SNAPSHOT", "REFRESH"}
EndsRefresh(e) == e.cb = "end" /\ e.kind = "EXECUTIONS" /\ e.request = task.request
Shows(e, x) == e.cb = "execDetails" /\ e.execution = x /\ e.request = task.request
RefreshSound ==
    /\ \A r \in asked : r.kind # "CANCEL" => r.request <= memo.tasks
    /\ task.op = "CONNECT" =>
          /\ \A r \in asked : r.kind = "CANCEL"
          /\ \A k \in 1..Len(wire) : wire[k].cb # "end"
    /\ Refreshing =>
          /\ bridge.execRequest = task.request /\ task.request <= memo.tasks
          /\ MadeBefore \subseteq Made
          /\ "EXECUTIONS" \in bridge.done => MadeBefore \subseteq bridge.seen
          /\ \A k \in 1..Len(wire) : EndsRefresh(wire[k]) =>
                \A x \in MadeBefore : x \in bridge.seen \/ \E j \in 1..(k - 1) : Shows(wire[j], x)

(* What was answered and attested stands.                                   *)
AnswersStand ==
    /\ \A p \in memo.rejected :
          /\ p[2] \in 1..memo.life
          /\ Over(p[1]) \/ \A i \in OrderIds : ~(ibkr[i].ref = p[1] /\ ibkr[i].life = p[2])
    /\ \A x \in memo.attested : x \in Made /\ Known(x)

BridgeInvariant ==
    /\ BridgeTypes /\ IbkrSound /\ WireSound /\ Numbered /\ MemorySound /\ PlacedOnce
    /\ ReportedOnce /\ CancelsOwed /\ RefreshSound /\ AnswersStand

-----------------------------------------------------------------------------
(* The greeting is above every order, and numbering only goes up.           *)
LEMMA HighestOrder ==
    ASSUME NEW n \in Nat, NEW S \in SUBSET (0..n), 0 \in S
    PROVE  Max(S) \in S /\ \A s \in S : s <= Max(S)
  <1> DEFINE U == {k \in Nat : \E s \in S : s = n - k}
  <1>1. n \in U
    OBVIOUS
  <1>2. PICK k \in U : \A j \in U : ~(<<j, k>> \in OpToRel(<, Nat))
    <2>1. U \subseteq Nat /\ U # {}
      BY <1>1
    <2> HIDE DEF U
    <2> QED BY <2>1, NatLessThanWellFounded, WFMin, Zenon
  <1>3. k \in Nat /\ n - k \in S
    BY <1>2
  <1>4. ASSUME NEW s \in S
        PROVE  s <= n - k
    <2>1. s \in Nat /\ s <= n /\ n - s \in Nat /\ s = n - (n - s)
      BY <1>4
    <2>2. n - s \in U
      BY <2>1, <1>4
    <2>3. ~(n - s < k)
      BY <1>2, <1>3, <2>1, <2>2 DEF OpToRel
    <2> QED BY <1>3, <2>1, <2>3
  <1>5. \E m \in S : \A s \in S : m >= s
    BY <1>3, <1>4
  <1>6. Max(S) = CHOOSE m \in S : \A s \in S : m >= s
    BY DEF Max
  <1> QED BY <1>5, <1>6

LEMMA GreetingIsAbove ==
    ASSUME OrdersAreNumbered, NEW orders \in [OrderIds -> IbkrOrders]
    PROVE  /\ NextValidId(orders) \in [cb : {"nextValidId"}, id : NextIds]
           /\ \A i \in OrderIds : orders[i] # NoTrace => i < NextValidId(orders).id
  <1> DEFINE S == {0} \union {i \in OrderIds : orders[i] # NoTrace}
             n == Cardinality(OrderIds)
  <1>1. n \in Nat /\ OrderIds = 1..n
    BY FS_CardinalityType DEF OrdersAreNumbered
  <1>2. S \in SUBSET (0..n) /\ 0 \in S
    BY <1>1
  <1>3. Max(S) \in S /\ \A s \in S : s <= Max(S)
    BY <1>1, <1>2, HighestOrder
  <1>4. Max(S) \in 0..n
    BY <1>2, <1>3
  <1>5. NextValidId(orders) = [cb |-> "nextValidId", id |-> 1 + Max(S)]
    BY DEF NextValidId
  <1>6. ASSUME NEW i \in OrderIds, orders[i] # NoTrace
        PROVE  i < 1 + Max(S)
    <2>1. i \in S /\ i \in Nat
      BY <1>6, <1>1
    <2>2. i <= Max(S)
      BY <2>1, <1>3
    <2> HIDE DEF S
    <2> QED BY <1>1, <2>1, <2>2, <1>4
  <1> HIDE DEF S
  <1>7. 1 + Max(S) \in NextIds
    BY <1>1, <1>4 DEF NextIds
  <1> QED BY <1>5, <1>6, <1>7

LEMMA NumbersGoUp ==
    ASSUME OrdersAreNumbered, NEW n \in NextIds, NEW i \in OrderIds
    PROVE  /\ i \in Nat /\ i # 0
           /\ Max({n, i + 1}) \in NextIds /\ n <= Max({n, i + 1})
  <1>1. Cardinality(OrderIds) \in Nat /\ OrderIds = 1..Cardinality(OrderIds)
    BY FS_CardinalityType DEF OrdersAreNumbered
  <1>2. i \in Nat /\ i # 0 /\ i + 1 \in NextIds /\ n \in Nat
    BY <1>1 DEF NextIds
  <1>3. \E m \in {n, i + 1} : \A s \in {n, i + 1} : m >= s
    BY <1>2
  <1>4. Max({n, i + 1}) \in {n, i + 1} /\ \A s \in {n, i + 1} : Max({n, i + 1}) >= s
    BY <1>3 DEF Max
  <1>5. Max({n, i + 1}) \in NextIds
    BY <1>2, <1>4
  <1> QED BY <1>2, <1>4, <1>5 DEF NextIds

(* A listing of the members of a finite set leaves none out.                *)
LEMMA ListingsAreWhole ==
    ASSUME NEW S, IsFiniteSet(S), NEW s \in SetToSeqs(S)
    PROVE  /\ Len(s) \in Nat /\ DOMAIN s = 1..Len(s) /\ s \in Seq(S)
           /\ \A k \in 1..Len(s) : s[k] \in S
           /\ \A x \in S : \E k \in 1..Len(s) : s[k] = x
  <1> DEFINE n == Cardinality(S)
  <1>1. n \in Nat
    BY FS_CardinalityType
  <1>2. s \in [1..n -> S] /\ \A i, j \in 1..n : i # j => s[i] # s[j]
    BY DEF SetToSeqs
  <1>3. s \in Injection(1..n, S)
    BY <1>2 DEF Injection, IsInjective
  <1>4. IsFiniteSet(1..n) /\ Cardinality(1..n) = n
    <2>1. IsFiniteSet(1..n) /\ Cardinality(1..n) = IF 1 > n THEN 0 ELSE n - 1 + 1
      BY <1>1, FS_Interval
    <2> QED BY <1>1, <2>1
  <1>5. s \in Surjection(1..n, S)
    BY <1>3, <1>4, FS_Injection
  <1>6. \A x \in S : \E k \in 1..n : s[k] = x
    BY <1>5 DEF Surjection
  <1>7. s \in Seq(S) /\ Len(s) = n /\ DOMAIN s = 1..n
    BY <1>1, <1>2
  <1> QED BY <1>1, <1>2, <1>6, <1>7

LEMMA StateOfStatus ==
    ASSUME NEW status \in Statuses, NEW filled \in Nat, NEW remaining \in Nat
    PROVE  LET state == Normalized(status, filled, remaining)
           IN  /\ state \in Terminal \union {"PENDING_SUBMIT", "ACKNOWLEDGED", "PARTIALLY_FILLED"}
               /\ state = "CANCELLED" => status = "Cancelled"
               /\ state = "REJECTED" => status = "Inactive"
  <1> DEFINE state == Normalized(status, filled, remaining)
  <1>1. CASE filled = 0 /\ status = "Filled"
    <2>1. state = "FILLED"
      BY <1>1 DEF Normalized
    <2> QED BY <1>1, <2>1 DEF Terminal
  <1>2. CASE filled = 0 /\ status # "Filled"
    <2>1. status \in {"PendingSubmit", "Submitted", "Cancelled", "Inactive"}
      BY <1>2 DEF Statuses
    <2>2. state = CASE status = "PendingSubmit" -> "PENDING_SUBMIT"
                    [] status = "Submitted" -> "ACKNOWLEDGED"
                    [] status = "Cancelled" -> "CANCELLED"
                    [] status = "Inactive" -> "REJECTED"
      BY <1>2, <2>1 DEF Normalized
    <2> QED BY <2>1, <2>2 DEF Terminal
  <1>3. CASE filled > 0
    <2>1. state \in {"FILLED", "PARTIALLY_FILLED"}
      BY <1>3 DEF Normalized
    <2> QED BY <2>1 DEF Terminal
  <1> QED BY <1>1, <1>2, <1>3

-----------------------------------------------------------------------------
(* What taking the callback e leaves of the memory.                         *)
TakesNames(e, n) ==
    /\ n \in Memories /\ n.socket = bridge.socket /\ n.execRequest = bridge.execRequest
    /\ e.cb = "nextValidId" => n.nextId = e.id
    /\ e.cb # "nextValidId" => n.ready = bridge.ready /\ bridge.nextId <= n.nextId
    /\ \A i \in OrderIds : n.refOf[i] \in {bridge.refOf[i], ibkr[i].ref}
    /\ \A c \in ClientOrders : bridge.idOf[c] # 0 => n.idOf[c] # 0
TakesOrders(n) ==
    \A c \in ClientOrders : n.orders[c].state \in {"CANCELLED", "REJECTED"} => Over(c)
TakesExecutions(e, n) ==
    /\ bridge.details \subseteq n.details /\ n.details \subseteq Made /\ n.fees \subseteq Made
    /\ \A x \in n.details : n.idOf[ibkr[x[1]].ref] # 0
    /\ n.reported = n.details \intersect n.fees /\ bridge.reported \subseteq n.reported
    /\ bridge.seen \subseteq n.seen /\ n.seen \subseteq n.details
    /\ e.cb = "execDetails" /\ e.request = bridge.execRequest => e.execution \in n.seen
TakesEnd(e, n) ==
    "EXECUTIONS" \in n.done =>
          \/ "EXECUTIONS" \in bridge.done
          \/ e.cb = "end" /\ e.kind = "EXECUTIONS" /\ e.request = bridge.execRequest
TakesEvents(n) ==
    /\ n.cancelling \subseteq bridge.cancelling
    /\ \/ n.events = bridge.events
       \/ \E v \in Reports :
             /\ n.events = Append(bridge.events, v)
             /\ v.type = "CANCEL_REJECTED" => v.ref \in bridge.cancelling \ n.cancelling
             /\ v.type = "EXECUTION" => v.execution \in n.reported \ bridge.reported
Takes(e, n) ==
    TakesNames(e, n) /\ TakesOrders(n) /\ TakesExecutions(e, n) /\ TakesEnd(e, n) /\ TakesEvents(n)

BridgeSees(e) ==
    /\ OrdersAreNumbered /\ BridgeTypes /\ IbkrSound /\ MemorySound /\ ReportedOnce
    /\ e \in Callbacks /\ SoundCallback(e)

LEMMA BridgeFacts ==
    ASSUME OrdersAreNumbered, BridgeTypes
    PROVE  /\ OrderLots \in Nat \ {0} /\ "none" \notin ClientOrders
           /\ bridge \in Memories /\ bridge.nextId \in NextIds /\ NextIds \subseteq Nat
           /\ bridge.refOf \in [OrderIds -> ClientOrders \union {"none"}]
           /\ bridge.idOf \in [ClientOrders -> OrderIds \union {0}]
           /\ bridge.orders \in [ClientOrders -> ListedOrders]
           /\ bridge.cancelling \subseteq ClientOrders
           /\ bridge.details \subseteq OrderIds \X Nat /\ bridge.fees \subseteq OrderIds \X Nat
           /\ bridge.reported \subseteq OrderIds \X Nat /\ bridge.seen \subseteq OrderIds \X Nat
           /\ bridge.done \subseteq Listings /\ bridge.execRequest \in Nat
           /\ bridge.events \in Seq(Reports)
           /\ OrderIds \subseteq Nat \ {0} /\ 0 \notin OrderIds
  <1>1. Cardinality(OrderIds) \in Nat /\ OrderIds = 1..Cardinality(OrderIds)
    BY FS_CardinalityType DEF OrdersAreNumbered
  <1>2. NextIds \subseteq Nat
    BY <1>1 DEF NextIds
  <1>3. OrderIds \subseteq Nat \ {0} /\ 0 \notin OrderIds
    BY <1>1
  <1>4. OrderLots \in Nat \ {0} /\ "none" \notin ClientOrders
    BY DEF OrdersAreNumbered, BridgeTypes, OrderLots
  <1> QED BY <1>2, <1>3, <1>4 DEF BridgeTypes, Memories

LEMMA TakeNextId ==
    ASSUME NEW e, BridgeSees(e), e.cb = "nextValidId"
    PROVE  Takes(e, AfterNextId(bridge, e))
  <1> DEFINE n == AfterNextId(bridge, e)
  <1>1. e.id \in NextIds
    BY DEF BridgeSees, Callbacks
  <1>2. n \in Memories
    BY <1>1, BridgeFacts DEF BridgeSees, AfterNextId, Memories
  <1>3. n = [bridge EXCEPT !.nextId = e.id, !.ready = TRUE]
    BY DEF AfterNextId
  <1>4. /\ n.socket = bridge.socket /\ n.execRequest = bridge.execRequest /\ n.nextId = e.id
        /\ n.refOf = bridge.refOf /\ n.idOf = bridge.idOf /\ n.orders = bridge.orders
        /\ n.details = bridge.details /\ n.fees = bridge.fees /\ n.reported = bridge.reported
        /\ n.seen = bridge.seen /\ n.done = bridge.done /\ n.cancelling = bridge.cancelling
        /\ n.events = bridge.events
    BY <1>1, <1>3, BridgeFacts DEF BridgeSees, Memories
  <1> HIDE DEF n
  <1>5. TakesNames(e, n)
    BY <1>2, <1>4 DEF TakesNames
  <1>6. TakesExecutions(e, n)
    BY <1>4 DEF TakesExecutions, BridgeSees, MemorySound, ReportedOnce, Known
  <1>7. Takes(e, n)
    BY <1>4, <1>5, <1>6 DEF Takes, TakesOrders, TakesEnd, TakesEvents, BridgeSees, MemorySound
  <1> QED BY <1>7 DEF n

LEMMA TakeEnd ==
    ASSUME NEW e, BridgeSees(e), e.cb = "end"
    PROVE  Takes(e, AfterEnd(bridge, e))
  <1> DEFINE n == AfterEnd(bridge, e)
  <1>1. e.kind \in Listings
    BY DEF BridgeSees, Callbacks
  <1>2. n \in Memories
    BY <1>1, BridgeFacts DEF BridgeSees, AfterEnd, Memories
  <1>3. \/ n = bridge
        \/ /\ n = [bridge EXCEPT !.done = @ \union {e.kind}]
           /\ ~(e.kind = "EXECUTIONS" /\ e.request # bridge.execRequest)
    BY DEF AfterEnd
  <1>4. /\ n.socket = bridge.socket /\ n.execRequest = bridge.execRequest
        /\ n.ready = bridge.ready /\ n.nextId = bridge.nextId
        /\ n.refOf = bridge.refOf /\ n.idOf = bridge.idOf /\ n.orders = bridge.orders
        /\ n.details = bridge.details /\ n.fees = bridge.fees /\ n.reported = bridge.reported
        /\ n.seen = bridge.seen /\ n.cancelling = bridge.cancelling
        /\ n.events = bridge.events
    BY <1>3, BridgeFacts DEF BridgeSees, Memories
  <1>5. "EXECUTIONS" \in n.done =>
          \/ "EXECUTIONS" \in bridge.done
          \/ e.kind = "EXECUTIONS" /\ e.request = bridge.execRequest
    BY <1>1, <1>3, BridgeFacts DEF BridgeSees, Memories
  <1>6. bridge.nextId <= bridge.nextId
    BY BridgeFacts DEF BridgeSees
  <1> HIDE DEF n
  <1>7. TakesNames(e, n)
    BY <1>2, <1>4, <1>6 DEF TakesNames
  <1>8. TakesExecutions(e, n)
    BY <1>4 DEF TakesExecutions, BridgeSees, MemorySound, ReportedOnce, Known
  <1>9. Takes(e, n)
    BY <1>4, <1>5, <1>7, <1>8
    DEF Takes, TakesOrders, TakesEnd, TakesEvents, BridgeSees, MemorySound
  <1> QED BY <1>9 DEF n

LEMMA TakeOpenOrder ==
    ASSUME NEW e, BridgeSees(e), e.cb = "openOrder"
    PROVE  Takes(e, AfterOpenOrder(bridge, e))
  <1> DEFINE n == AfterOpenOrder(bridge, e)
             state == Normalized(e.status, 0, 0)
             listed == [state |-> state, filled |-> bridge.orders[e.ref].filled]
             next == IF bridge.nextId = 0 THEN 0 ELSE Max({bridge.nextId, e.id + 1})
  <1>1. e.id \in OrderIds /\ e.ref \in ClientOrders /\ e.status \in Statuses
    BY DEF BridgeSees, Callbacks
  <1>2. /\ e.ref = ibkr[e.id].ref
        /\ e.status = "Cancelled" => ibkr[e.id].state = "CANCELLED"
        /\ e.status = "Inactive" => ibkr[e.id].state = "REJECTED"
    BY DEF BridgeSees, SoundCallback, Says
  <1>3. /\ state \in Terminal \union {"PENDING_SUBMIT", "ACKNOWLEDGED", "PARTIALLY_FILLED"}
        /\ state = "CANCELLED" => e.status = "Cancelled"
        /\ state = "REJECTED" => e.status = "Inactive"
    BY <1>1, StateOfStatus
  <1> HIDE DEF state
  <1>4. listed \in ListedOrders
    BY <1>1, <1>3, BridgeFacts DEF BridgeSees, ListedOrders
  <1>5. next \in NextIds /\ bridge.nextId <= next
    <2>1. Cardinality(OrderIds) \in Nat /\ OrdersAreNumbered
      BY FS_CardinalityType DEF OrdersAreNumbered, BridgeSees
    <2>2. bridge.nextId \in NextIds /\ bridge.nextId \in Nat
      BY BridgeFacts DEF BridgeSees
    <2>3. CASE bridge.nextId = 0
      BY <2>1, <2>3 DEF NextIds
    <2>4. CASE bridge.nextId # 0
      BY <2>1, <2>2, <2>4, <1>1, NumbersGoUp
    <2> QED BY <2>3, <2>4
  <1>6. n = [[[bridge EXCEPT !.refOf[e.id] = e.ref, !.idOf[e.ref] = e.id]
               EXCEPT !.nextId = next] EXCEPT !.orders[e.ref] = listed]
    BY DEF AfterOpenOrder, Listed, Mapped, state
  <1> HIDE DEF listed, next, n
  <1>7. /\ n.socket = bridge.socket /\ n.execRequest = bridge.execRequest
        /\ n.ready = bridge.ready /\ n.nextId = next
        /\ n.refOf = [bridge.refOf EXCEPT ![e.id] = e.ref]
        /\ n.idOf = [bridge.idOf EXCEPT ![e.ref] = e.id]
        /\ n.orders = [bridge.orders EXCEPT ![e.ref] = listed]
        /\ n.details = bridge.details /\ n.fees = bridge.fees /\ n.reported = bridge.reported
        /\ n.seen = bridge.seen /\ n.done = bridge.done /\ n.cancelling = bridge.cancelling
        /\ n.events = bridge.events
    BY <1>6, BridgeFacts DEF BridgeSees, Memories
  <1>8. n \in Memories
    BY <1>1, <1>4, <1>5, <1>6, BridgeFacts DEF BridgeSees, Memories
  <1>9. TakesNames(e, n)
    <2>1. \A i \in OrderIds : n.refOf[i] \in {bridge.refOf[i], ibkr[i].ref}
      BY <1>1, <1>2, <1>7, BridgeFacts DEF BridgeSees
    <2>2. \A c \in ClientOrders : bridge.idOf[c] # 0 => n.idOf[c] # 0
      BY <1>1, <1>7, BridgeFacts DEF BridgeSees
    <2> QED BY <1>5, <1>7, <1>8, <2>1, <2>2 DEF TakesNames
  <1>10. TakesOrders(n)
    <2> SUFFICES ASSUME NEW c \in ClientOrders, n.orders[c].state \in {"CANCELLED", "REJECTED"}
                 PROVE  Over(c)
      BY DEF TakesOrders
    <2>1. CASE c = e.ref
      <3>1. n.orders[c] = listed
        BY <1>7, <2>1, BridgeFacts DEF BridgeSees
      <3>2. state \in {"CANCELLED", "REJECTED"}
        BY <3>1 DEF listed
      <3> QED BY <1>1, <1>2, <1>3, <2>1, <3>2 DEF Over
    <2>2. CASE c # e.ref
      <3>1. n.orders[c] = bridge.orders[c]
        BY <1>7, <2>2, BridgeFacts DEF BridgeSees
      <3> QED BY <3>1 DEF BridgeSees, MemorySound
    <2> QED BY <2>1, <2>2
  <1>11. \A x \in n.details : n.idOf[ibkr[x[1]].ref] # 0
    <2>1. \A x \in n.details : bridge.idOf[ibkr[x[1]].ref] # 0
      BY <1>7 DEF BridgeSees, MemorySound, Known
    <2>2. e.id # 0
      BY <1>1, BridgeFacts DEF BridgeSees
    <2> QED BY <1>1, <1>7, <2>1, <2>2, BridgeFacts DEF BridgeSees
  <1>12. TakesExecutions(e, n)
    BY <1>7, <1>11 DEF TakesExecutions, BridgeSees, MemorySound, ReportedOnce
  <1>13. Takes(e, n)
    BY <1>7, <1>9, <1>10, <1>12 DEF Takes, TakesEnd, TakesEvents
  <1> QED BY <1>13 DEF n

LEMMA TakeError ==
    ASSUME NEW e, BridgeSees(e), e.cb = "error"
    PROVE  Takes(e, AfterError(bridge, e))
  <1> DEFINE n == AfterError(bridge, e)
             c == bridge.refOf[e.id]
             failed == [type |-> "CANCEL_REJECTED", ref |-> c, execution |-> <<>>]
             rejected == [type |-> "REJECTED", ref |-> c, execution |-> <<>>]
             listed == [state |-> "REJECTED", filled |-> bridge.orders[c].filled]
  <1>1. e.id \in OrderIds /\ e.code \in {"CANCEL_FAILURE", "REJECTION"}
    BY DEF BridgeSees, Callbacks
  <1>2. c \in ClientOrders \union {"none"}
    BY <1>1, BridgeFacts DEF BridgeSees
  <1>3. \/ n = bridge
        \/ /\ c # "none" /\ c \in bridge.cancelling
           /\ n = [[bridge EXCEPT !.cancelling = @ \ {c}] EXCEPT !.events = Append(@, failed)]
        \/ /\ c # "none" /\ e.code = "REJECTION"
           /\ n = [[bridge EXCEPT !.orders[c] = listed] EXCEPT !.events = Append(@, rejected)]
    BY DEF AfterError, Put, Listed
  <1>4. c # "none" => failed \in Reports /\ rejected \in Reports /\ listed \in ListedOrders
    BY <1>2, BridgeFacts DEF BridgeSees, Reports, ListedOrders, Terminal
  <1> HIDE DEF n, failed, rejected, listed
  <1>5. /\ n.socket = bridge.socket /\ n.execRequest = bridge.execRequest
        /\ n.ready = bridge.ready /\ n.nextId = bridge.nextId
        /\ n.refOf = bridge.refOf /\ n.idOf = bridge.idOf
        /\ n.details = bridge.details /\ n.fees = bridge.fees /\ n.reported = bridge.reported
        /\ n.seen = bridge.seen /\ n.done = bridge.done
    BY <1>3, BridgeFacts DEF BridgeSees, Memories
  <1>12. \/ n = bridge
         \/ /\ c # "none" /\ n.orders = bridge.orders
            /\ n = [[bridge EXCEPT !.cancelling = @ \ {c}] EXCEPT !.events = Append(@, failed)]
         \/ /\ c # "none" /\ e.code = "REJECTION"
            /\ n.orders = [bridge.orders EXCEPT ![c] = listed]
            /\ n = [[bridge EXCEPT !.orders[c] = listed] EXCEPT !.events = Append(@, rejected)]
    BY <1>3, BridgeFacts DEF BridgeSees, Memories
  <1>6. n \in Memories
    <2>1. c # "none" => /\ Append(bridge.events, failed) \in Seq(Reports)
                        /\ Append(bridge.events, rejected) \in Seq(Reports)
                        /\ [bridge.orders EXCEPT ![c] = listed] \in [ClientOrders -> ListedOrders]
      BY <1>2, <1>4, BridgeFacts DEF BridgeSees
    <2>2. CASE n = bridge
      BY <2>2, BridgeFacts DEF BridgeSees
    <2>3. CASE /\ c # "none"
               /\ n = [[bridge EXCEPT !.cancelling = @ \ {c}] EXCEPT !.events = Append(@, failed)]
      BY <2>1, <2>3, BridgeFacts DEF BridgeSees, Memories
    <2>4. CASE /\ c # "none"
               /\ n = [[bridge EXCEPT !.orders[c] = listed] EXCEPT !.events = Append(@, rejected)]
      BY <2>1, <2>4, BridgeFacts DEF BridgeSees, Memories
    <2> QED BY <1>3, <2>2, <2>3, <2>4
  <1>7. TakesNames(e, n)
    <2>1. bridge.nextId <= n.nextId
      BY <1>5, BridgeFacts DEF BridgeSees
    <2> QED BY <1>5, <1>6, <2>1 DEF TakesNames
  <1>8. TakesExecutions(e, n)
    BY <1>5 DEF TakesExecutions, BridgeSees, MemorySound, ReportedOnce, Known
  <1>9. TakesOrders(n)
    <2> SUFFICES ASSUME NEW d \in ClientOrders, n.orders[d].state \in {"CANCELLED", "REJECTED"}
                 PROVE  Over(d)
      BY DEF TakesOrders
    <2>1. CASE n.orders[d] = bridge.orders[d]
      BY <2>1 DEF BridgeSees, MemorySound
    <2>2. CASE n.orders[d] # bridge.orders[d]
      <3>1. c # "none" /\ e.code = "REJECTION" /\ d = c
        BY <1>2, <1>12, <2>2, BridgeFacts DEF BridgeSees
      <3>2. ibkr[e.id].state = "REJECTED"
        BY <3>1 DEF BridgeSees, SoundCallback
      <3>3. ibkr[e.id].ref = c
        BY <3>1, <3>2, <1>1 DEF BridgeSees, MemorySound, NoTrace
      <3> QED BY <1>1, <3>1, <3>2, <3>3 DEF Over
    <2> QED BY <2>1, <2>2
  <1>10. TakesEvents(n)
    <2>1. CASE n = bridge
      BY <2>1 DEF TakesEvents
    <2>2. CASE /\ c # "none" /\ c \in bridge.cancelling
               /\ n = [[bridge EXCEPT !.cancelling = @ \ {c}] EXCEPT !.events = Append(@, failed)]
      <3>1. n.cancelling = bridge.cancelling \ {c} /\ n.events = Append(bridge.events, failed)
        BY <2>2, BridgeFacts DEF BridgeSees, Memories
      <3>2. failed.type = "CANCEL_REJECTED" /\ failed.ref = c
        BY DEF failed
      <3> QED BY <1>4, <2>2, <3>1, <3>2 DEF TakesEvents
    <2>3. CASE /\ c # "none"
               /\ n = [[bridge EXCEPT !.orders[c] = listed] EXCEPT !.events = Append(@, rejected)]
      <3>1. n.cancelling = bridge.cancelling /\ n.events = Append(bridge.events, rejected)
        BY <2>3, BridgeFacts DEF BridgeSees, Memories
      <3>2. rejected.type = "REJECTED"
        BY DEF rejected
      <3> QED BY <1>4, <2>3, <3>1, <3>2 DEF TakesEvents
    <2> QED BY <1>3, <2>1, <2>2, <2>3
  <1>11. Takes(e, n)
    BY <1>5, <1>7, <1>8, <1>9, <1>10 DEF Takes, TakesEnd
  <1> QED BY <1>11 DEF n

LEMMA TakeStatus ==
    ASSUME NEW e, BridgeSees(e), e.cb = "orderStatus"
    PROVE  Takes(e, AfterStatus(bridge, e))
  <1> DEFINE n == AfterStatus(bridge, e)
             c == bridge.refOf[e.id]
             state == Normalized(e.status, e.filled, OrderLots - e.filled)
             left == IF state \in Terminal THEN bridge.cancelling \ {c} ELSE bridge.cancelling
             settled == [bridge EXCEPT !.cancelling = left]
             rec == [state |-> state, filled |-> e.filled]
             listed == [settled EXCEPT !.orders[c] = rec]
             told(type) == [type |-> type, ref |-> c, execution |-> <<>>]
             ack == told("ACKNOWLEDGED")
             over == told(state)
  <1>1. e.id \in OrderIds /\ e.status \in Statuses /\ e.filled \in Nat /\ e.filled <= OrderLots
    BY DEF BridgeSees, Callbacks, SoundCallback
  <1>2. /\ ibkr[e.id].state \notin {"NONE", "SENT"}
        /\ e.status = "Cancelled" => ibkr[e.id].state = "CANCELLED"
        /\ e.status = "Inactive" => ibkr[e.id].state = "REJECTED"
    BY DEF BridgeSees, SoundCallback, Says, Kept
  <1>3. /\ state \in Terminal \union {"PENDING_SUBMIT", "ACKNOWLEDGED", "PARTIALLY_FILLED"}
        /\ state = "CANCELLED" => e.status = "Cancelled"
        /\ state = "REJECTED" => e.status = "Inactive"
    <2>1. OrderLots \in Nat
      BY BridgeFacts DEF BridgeSees
    <2>2. OrderLots - e.filled \in Nat
      BY <1>1, <2>1
    <2> QED BY <1>1, <2>2, StateOfStatus
  <1>4. c \in ClientOrders \union {"none"}
    BY <1>1, BridgeFacts DEF BridgeSees
  <1>5. c # "none" => c = ibkr[e.id].ref
    BY <1>1, <1>2 DEF BridgeSees, MemorySound, NoTrace
  <1>6. \/ n = bridge
        \/ c # "none" /\ n = settled
        \/ c # "none" /\ n = listed
        \/ c # "none" /\ n = [listed EXCEPT !.events = Append(@, ack)]
        \/ /\ c # "none" /\ state \in {"CANCELLED", "REJECTED"}
           /\ n = [listed EXCEPT !.events = Append(@, over)]
    <2> DEFINE previous == bridge.orders[c].state
               base == IF state \in Terminal THEN [bridge EXCEPT !.cancelling = @ \ {c}] ELSE bridge
               shown == [base EXCEPT !.orders[c] = rec]
    <2>1. bridge = [bridge EXCEPT !.cancelling = bridge.cancelling]
      BY BridgeFacts DEF BridgeSees, Memories
    <2>2. base = settled
      BY <2>1
    <2>3. n = CASE c = "none" -> bridge
                [] c # "none" /\ IsLate(previous, state) -> base
                [] c # "none" /\ ~IsLate(previous, state) ->
                     (CASE state \in {"ACKNOWLEDGED", "PARTIALLY_FILLED"}
                           /\ previous \notin {"ACKNOWLEDGED", "PARTIALLY_FILLED", "FILLED"} ->
                              [shown EXCEPT !.events = Append(@, ack)]
                        [] state \in {"CANCELLED", "REJECTED"} /\ previous # state ->
                              [shown EXCEPT !.events = Append(@, over)]
                        [] OTHER -> shown)
      BY DEF AfterStatus, Put, Listed
    <2> HIDE DEF n, settled, base, shown, previous, state, ack, over
    <2>4. \/ n = bridge
          \/ c # "none" /\ n = base
          \/ c # "none" /\ n = shown
          \/ c # "none" /\ n = [shown EXCEPT !.events = Append(@, ack)]
          \/ /\ c # "none" /\ state \in {"CANCELLED", "REJECTED"}
             /\ n = [shown EXCEPT !.events = Append(@, over)]
      BY <2>3
    <2>5. shown = listed
      BY <2>2 DEF shown
    <2> QED BY <2>2, <2>4, <2>5
  <1>7. /\ left \subseteq bridge.cancelling /\ left \subseteq ClientOrders
        /\ rec \in ListedOrders
        /\ c # "none" => ack \in Reports
        /\ c # "none" /\ state \in {"CANCELLED", "REJECTED"} => over \in Reports
        /\ ack.type = "ACKNOWLEDGED" /\ over.type = state
    BY <1>1, <1>3, <1>4, BridgeFacts DEF BridgeSees, ListedOrders, Reports
  <1>8. rec.state = state
    OBVIOUS
  <1> HIDE DEF n, state, left, rec, ack, over
  <1>9. /\ settled \in Memories
        /\ c # "none" => listed \in Memories
    <2>1. c # "none" => [bridge.orders EXCEPT ![c] = rec] \in [ClientOrders -> ListedOrders]
      BY <1>4, <1>7, BridgeFacts DEF BridgeSees
    <2>2. settled \in Memories
      BY <1>7, BridgeFacts DEF BridgeSees, Memories
    <2>3. /\ settled.orders = bridge.orders
          /\ listed = [settled EXCEPT !.orders = [bridge.orders EXCEPT ![c] = rec]]
      BY <1>7, BridgeFacts DEF BridgeSees, Memories
    <2> HIDE DEF settled
    <2> QED BY <2>1, <2>2, <2>3 DEF Memories
  <1>10. n \in Memories
    <2> HIDE DEF settled, listed
    <2>1. c # "none" =>
            /\ Append(listed.events, ack) \in Seq(Reports)
            /\ state \in {"CANCELLED", "REJECTED"} => Append(listed.events, over) \in Seq(Reports)
      BY <1>7, <1>9 DEF Memories
    <2>2. CASE c # "none" /\ n = [listed EXCEPT !.events = Append(@, ack)]
      BY <1>9, <2>1, <2>2 DEF Memories
    <2>3. CASE /\ c # "none" /\ state \in {"CANCELLED", "REJECTED"}
               /\ n = [listed EXCEPT !.events = Append(@, over)]
      BY <1>9, <2>1, <2>3 DEF Memories
    <2> QED BY <1>6, <1>9, <2>2, <2>3, BridgeFacts DEF BridgeSees
  <1>11. /\ n.socket = bridge.socket /\ n.execRequest = bridge.execRequest
         /\ n.ready = bridge.ready /\ n.nextId = bridge.nextId
         /\ n.refOf = bridge.refOf /\ n.idOf = bridge.idOf
         /\ n.details = bridge.details /\ n.fees = bridge.fees /\ n.reported = bridge.reported
         /\ n.seen = bridge.seen /\ n.done = bridge.done
         /\ n.cancelling \in {bridge.cancelling, left}
         /\ \/ n.orders = bridge.orders
            \/ c # "none" /\ n.orders = [bridge.orders EXCEPT ![c] = rec]
         /\ \/ n.events = bridge.events
            \/ c # "none" /\ n.events = Append(bridge.events, ack)
            \/ /\ c # "none" /\ state \in {"CANCELLED", "REJECTED"}
               /\ n.events = Append(bridge.events, over)
    BY <1>6, BridgeFacts DEF BridgeSees, Memories
  <1>12. TakesNames(e, n)
    <2>1. bridge.nextId <= n.nextId
      BY <1>11, BridgeFacts DEF BridgeSees
    <2> QED BY <1>10, <1>11, <2>1 DEF TakesNames
  <1>13. TakesExecutions(e, n)
    BY <1>11 DEF TakesExecutions, BridgeSees, MemorySound, ReportedOnce, Known
  <1>14. TakesOrders(n)
    <2> SUFFICES ASSUME NEW d \in ClientOrders, n.orders[d].state \in {"CANCELLED", "REJECTED"}
                 PROVE  Over(d)
      BY DEF TakesOrders
    <2>1. CASE n.orders[d] = bridge.orders[d]
      BY <2>1 DEF BridgeSees, MemorySound
    <2>2. CASE n.orders[d] # bridge.orders[d]
      <3>1. c # "none" /\ d = c /\ n.orders[d] = rec
        BY <1>4, <1>11, <2>2, BridgeFacts DEF BridgeSees
      <3>2. ibkr[e.id].state \in {"CANCELLED", "REJECTED"} /\ ibkr[e.id].ref = c
        BY <1>2, <1>3, <1>5, <1>8, <3>1
      <3> QED BY <1>1, <3>1, <3>2 DEF Over
    <2> QED BY <2>1, <2>2
  <1>15. TakesEvents(n)
    <2>1. n.cancelling \subseteq bridge.cancelling
      BY <1>7, <1>11
    <2>2. CASE n.events = bridge.events
      BY <2>1, <2>2 DEF TakesEvents
    <2>3. CASE c # "none" /\ n.events = Append(bridge.events, ack)
      BY <1>7, <2>1, <2>3 DEF TakesEvents
    <2>4. CASE /\ c # "none" /\ state \in {"CANCELLED", "REJECTED"}
               /\ n.events = Append(bridge.events, over)
      BY <1>7, <2>1, <2>4 DEF TakesEvents
    <2> QED BY <1>11, <2>2, <2>3, <2>4
  <1>16. Takes(e, n)
    BY <1>11, <1>12, <1>13, <1>14, <1>15 DEF Takes, TakesEnd
  <1> QED BY <1>16 DEF n

LEMMA EmittedFacts ==
    ASSUME NEW m \in Memories, NEW x \in OrderIds \X Nat, NEW c \in ClientOrders
    PROVE  LET n == Emitted(m, x, c)
           IN  /\ n \in Memories
               /\ n.socket = m.socket /\ n.execRequest = m.execRequest /\ n.ready = m.ready
               /\ n.nextId = m.nextId /\ n.refOf = m.refOf /\ n.idOf = m.idOf
               /\ n.orders = m.orders /\ n.details = m.details /\ n.fees = m.fees
               /\ n.seen = m.seen /\ n.done = m.done /\ n.cancelling = m.cancelling
               /\ n.reported = m.reported \union ({x} \intersect m.details \intersect m.fees)
               /\ \/ n.events = m.events
                  \/ \E v \in Reports :
                        /\ n.events = Append(m.events, v) /\ v.type = "EXECUTION"
                        /\ v.execution = x /\ x \notin m.reported /\ x \in n.reported
  <1> DEFINE n == Emitted(m, x, c)
             v == [type |-> "EXECUTION", ref |-> c, execution |-> x]
  <1>1. CASE x \in m.reported \/ x \notin m.details \/ x \notin m.fees
    <2>1. n = m
      BY <1>1 DEF Emitted
    <2>2. m.reported = m.reported \union ({x} \intersect m.details \intersect m.fees)
      BY <1>1
    <2> QED BY <2>1, <2>2
  <1>2. CASE x \notin m.reported /\ x \in m.details /\ x \in m.fees
    <2>1. n = [[m EXCEPT !.reported = @ \union {x}] EXCEPT !.events = Append(@, v)]
      BY <1>2 DEF Emitted, Put
    <2>2. v \in Reports /\ v.type = "EXECUTION" /\ v.execution = x
      BY DEF Reports
    <2> HIDE DEF n, v
    <2>3. /\ n.socket = m.socket /\ n.execRequest = m.execRequest /\ n.ready = m.ready
          /\ n.nextId = m.nextId /\ n.refOf = m.refOf /\ n.idOf = m.idOf
          /\ n.orders = m.orders /\ n.details = m.details /\ n.fees = m.fees
          /\ n.seen = m.seen /\ n.done = m.done /\ n.cancelling = m.cancelling
          /\ n.reported = m.reported \union {x} /\ n.events = Append(m.events, v)
      BY <2>1 DEF Memories
    <2>4. n \in Memories
      <3>1. Append(m.events, v) \in Seq(Reports) /\ m.reported \union {x} \subseteq OrderIds \X Nat
        BY <2>2 DEF Memories
      <3> QED BY <2>1, <3>1 DEF Memories
    <2>5. m.reported \union {x} = m.reported \union ({x} \intersect m.details \intersect m.fees)
      BY <1>2
    <2>6. x \in n.reported
      BY <2>3
    <2> QED BY <1>2, <2>2, <2>3, <2>4, <2>5, <2>6 DEF n
  <1> QED BY <1>1, <1>2

LEMMA TakeCommission ==
    ASSUME NEW e, BridgeSees(e), e.cb = "commissionReport"
    PROVE  Takes(e, AfterCommission(bridge, e))
  <1> DEFINE n == AfterCommission(bridge, e)
             m == [bridge EXCEPT !.fees = @ \union {e.execution}]
             x == e.execution
  <1>1. x \in OrderIds \X Nat /\ e.ref \in ClientOrders
    BY DEF BridgeSees, Callbacks
  <1>2. x \in Made
    BY DEF BridgeSees, SoundCallback
  <1>3. m \in Memories
    BY <1>1, BridgeFacts DEF BridgeSees, Memories
  <1>4. /\ m.socket = bridge.socket /\ m.execRequest = bridge.execRequest
        /\ m.ready = bridge.ready /\ m.nextId = bridge.nextId /\ m.refOf = bridge.refOf
        /\ m.idOf = bridge.idOf /\ m.orders = bridge.orders /\ m.details = bridge.details
        /\ m.fees = bridge.fees \union {x} /\ m.seen = bridge.seen /\ m.done = bridge.done
        /\ m.cancelling = bridge.cancelling /\ m.events = bridge.events
        /\ m.reported = bridge.reported
    BY BridgeFacts DEF BridgeSees, Memories
  <1>5. n = Emitted(m, x, e.ref)
    BY DEF AfterCommission
  <1> HIDE DEF n, m, x
  <1>6. /\ n \in Memories
        /\ n.socket = m.socket /\ n.execRequest = m.execRequest /\ n.ready = m.ready
        /\ n.nextId = m.nextId /\ n.refOf = m.refOf /\ n.idOf = m.idOf
        /\ n.orders = m.orders /\ n.details = m.details /\ n.fees = m.fees
        /\ n.seen = m.seen /\ n.done = m.done /\ n.cancelling = m.cancelling
        /\ n.reported = m.reported \union ({x} \intersect m.details \intersect m.fees)
        /\ \/ n.events = m.events
           \/ \E v \in Reports :
                 /\ n.events = Append(m.events, v) /\ v.type = "EXECUTION"
                 /\ v.execution = x /\ x \notin m.reported /\ x \in n.reported
    BY <1>1, <1>3, <1>5, EmittedFacts
  <1>7. bridge.reported = bridge.details \intersect bridge.fees
    BY DEF BridgeSees, ReportedOnce
  <1>8. n.reported = n.details \intersect n.fees /\ bridge.reported \subseteq n.reported
    BY <1>4, <1>6, <1>7
  <1>9. TakesNames(e, n)
    <2>1. bridge.nextId <= n.nextId
      BY <1>4, <1>6, BridgeFacts DEF BridgeSees
    <2> QED BY <1>4, <1>6, <2>1 DEF TakesNames
  <1>10. TakesExecutions(e, n)
    BY <1>2, <1>4, <1>6, <1>8 DEF TakesExecutions, BridgeSees, MemorySound, Known
  <1>11. TakesEvents(n)
    BY <1>4, <1>6 DEF TakesEvents
  <1>12. Takes(e, n)
    BY <1>4, <1>6, <1>9, <1>10, <1>11
    DEF Takes, TakesOrders, TakesEnd, BridgeSees, MemorySound
  <1> QED BY <1>12 DEF n

LEMMA TakeExecution ==
    ASSUME NEW e, BridgeSees(e), e.cb = "execDetails"
    PROVE  Takes(e, AfterExecution(bridge, e))
  <1> DEFINE n == AfterExecution(bridge, e)
             x == e.execution
             i == x[1]
             was == bridge.orders[e.ref].state
             rec == [state |-> IF was \in Terminal THEN was ELSE "PARTIALLY_FILLED",
                     filled |-> x[2]]
             saw == IF e.request = bridge.execRequest THEN bridge.seen \union {x} ELSE bridge.seen
             m == [[[bridge EXCEPT !.refOf[i] = e.ref, !.idOf[e.ref] = i]
                    EXCEPT !.details = @ \union {x}, !.seen = saw] EXCEPT !.orders[e.ref] = rec]
  <1>1. x \in OrderIds \X Nat /\ e.ref \in ClientOrders /\ i \in OrderIds /\ x[2] \in Nat
    BY DEF BridgeSees, Callbacks
  <1>2. x \in Made /\ e.ref = ibkr[i].ref
    BY DEF BridgeSees, SoundCallback
  <1>3. /\ rec \in ListedOrders /\ saw \subseteq OrderIds \X Nat
        /\ rec.state \in {"CANCELLED", "REJECTED"} => rec.state = was
        /\ saw \subseteq bridge.seen \union {x} /\ bridge.seen \subseteq saw
        /\ e.request = bridge.execRequest => x \in saw
    BY <1>1, BridgeFacts DEF BridgeSees, ListedOrders, Terminal
  <1>4. n = Emitted(m, x, e.ref)
    <2>1. saw = (IF e.request = bridge.execRequest THEN bridge.seen \union {x} ELSE bridge.seen)
      OBVIOUS
    <2>2. /\ [bridge EXCEPT !.refOf[i] = e.ref, !.idOf[e.ref] = i].execRequest = bridge.execRequest
          /\ [bridge EXCEPT !.refOf[i] = e.ref, !.idOf[e.ref] = i].seen = bridge.seen
      BY BridgeFacts DEF BridgeSees, Memories
    <2> QED BY <2>2 DEF AfterExecution, Mapped, Listed
  <1> HIDE DEF rec, saw
  <1>5. /\ m.socket = bridge.socket /\ m.execRequest = bridge.execRequest
        /\ m.ready = bridge.ready /\ m.nextId = bridge.nextId
        /\ m.refOf = [bridge.refOf EXCEPT ![i] = e.ref]
        /\ m.idOf = [bridge.idOf EXCEPT ![e.ref] = i]
        /\ m.orders = [bridge.orders EXCEPT ![e.ref] = rec]
        /\ m.details = bridge.details \union {x}
        /\ m.fees = bridge.fees /\ m.seen = saw /\ m.done = bridge.done
        /\ m.cancelling = bridge.cancelling /\ m.events = bridge.events
        /\ m.reported = bridge.reported
    BY BridgeFacts DEF BridgeSees, Memories
  <1>6. m \in Memories
    <2>1. /\ [bridge.refOf EXCEPT ![i] = e.ref] \in [OrderIds -> ClientOrders \union {"none"}]
          /\ [bridge.idOf EXCEPT ![e.ref] = i] \in [ClientOrders -> OrderIds \union {0}]
          /\ [bridge.orders EXCEPT ![e.ref] = rec] \in [ClientOrders -> ListedOrders]
          /\ bridge.details \union {x} \subseteq OrderIds \X Nat
      BY <1>1, <1>3, BridgeFacts DEF BridgeSees
    <2> QED BY <1>3, <2>1, BridgeFacts DEF BridgeSees, Memories
  <1> HIDE DEF n, m
  <1>7. /\ n \in Memories
        /\ n.socket = m.socket /\ n.execRequest = m.execRequest /\ n.ready = m.ready
        /\ n.nextId = m.nextId /\ n.refOf = m.refOf /\ n.idOf = m.idOf
        /\ n.orders = m.orders /\ n.details = m.details /\ n.fees = m.fees
        /\ n.seen = m.seen /\ n.done = m.done /\ n.cancelling = m.cancelling
        /\ n.reported = m.reported \union ({x} \intersect m.details \intersect m.fees)
        /\ \/ n.events = m.events
           \/ \E v \in Reports :
                 /\ n.events = Append(m.events, v) /\ v.type = "EXECUTION"
                 /\ v.execution = x /\ x \notin m.reported /\ x \in n.reported
    BY <1>1, <1>4, <1>6, EmittedFacts
  <1>8. bridge.reported = bridge.details \intersect bridge.fees
    BY DEF BridgeSees, ReportedOnce
  <1>9. n.reported = n.details \intersect n.fees /\ bridge.reported \subseteq n.reported
    BY <1>5, <1>7, <1>8
  <1>10. TakesNames(e, n)
    <2>1. bridge.nextId <= n.nextId
      BY <1>5, <1>7, BridgeFacts DEF BridgeSees
    <2>2. \A j \in OrderIds : n.refOf[j] \in {bridge.refOf[j], ibkr[j].ref}
      BY <1>1, <1>2, <1>5, <1>7, BridgeFacts DEF BridgeSees
    <2>3. \A c \in ClientOrders : bridge.idOf[c] # 0 => n.idOf[c] # 0
      BY <1>1, <1>5, <1>7, BridgeFacts DEF BridgeSees
    <2> QED BY <1>5, <1>7, <2>1, <2>2, <2>3 DEF TakesNames
  <1>11. TakesExecutions(e, n)
    <2>1. \A y \in n.details : n.idOf[ibkr[y[1]].ref] # 0
      <3>1. \A y \in bridge.details : bridge.idOf[ibkr[y[1]].ref] # 0
        BY DEF BridgeSees, MemorySound, Known
      <3>2. n.idOf = [bridge.idOf EXCEPT ![e.ref] = i] /\ n.details = bridge.details \union {x}
        BY <1>5, <1>7
      <3>3. i # 0 /\ ibkr[x[1]].ref = e.ref
        BY <1>1, <1>2, BridgeFacts DEF BridgeSees
      <3> QED BY <1>1, <3>1, <3>2, <3>3, BridgeFacts DEF BridgeSees
    <2>2. bridge.details \subseteq Made /\ bridge.fees \subseteq Made /\ bridge.seen \subseteq bridge.details
      BY DEF BridgeSees, MemorySound
    <2>3. n.details \subseteq Made /\ n.fees \subseteq Made /\ bridge.details \subseteq n.details
      BY <1>2, <1>5, <1>7, <2>2
    <2>4. bridge.seen \subseteq n.seen /\ n.seen \subseteq n.details
      BY <1>3, <1>5, <1>7, <2>2
    <2>5. e.request = bridge.execRequest => e.execution \in n.seen
      BY <1>3, <1>5, <1>7 DEF x
    <2> QED BY <1>9, <2>1, <2>3, <2>4, <2>5 DEF TakesExecutions
  <1>12. TakesOrders(n)
    <2> SUFFICES ASSUME NEW d \in ClientOrders, n.orders[d].state \in {"CANCELLED", "REJECTED"}
                 PROVE  Over(d)
      BY DEF TakesOrders
    <2>1. bridge.orders[d].state = n.orders[d].state
      BY <1>1, <1>3, <1>5, <1>7, BridgeFacts DEF BridgeSees
    <2> QED BY <2>1 DEF BridgeSees, MemorySound
  <1>13. TakesEvents(n)
    BY <1>5, <1>7 DEF TakesEvents
  <1>14. Takes(e, n)
    BY <1>5, <1>7, <1>10, <1>11, <1>12, <1>13 DEF Takes, TakesEnd
  <1> QED BY <1>14 DEF n

-----------------------------------------------------------------------------
(* What IBKR has received it keeps, and an end is an end.                   *)
KeepsOn ==
    \A i \in OrderIds : Kept(i) =>
        /\ ibkr'[i].state \notin {"NONE", "SENT"} /\ ibkr[i].filled <= ibkr'[i].filled
        /\ ibkr'[i].ref = ibkr[i].ref /\ ibkr'[i].life = ibkr[i].life
        /\ ibkr[i].state \in {"CANCELLED", "REJECTED"} => ibkr'[i].state = ibkr[i].state
Advances ==
    \A i \in OrderIds :
        /\ Kept(i) =>
              /\ ibkr'[i].state \notin {"NONE", "SENT"} /\ ibkr[i].filled <= ibkr'[i].filled
              /\ ibkr'[i].ref = ibkr[i].ref /\ ibkr'[i].life = ibkr[i].life
              /\ ibkr[i].state \in {"CANCELLED", "REJECTED"} => ibkr'[i].state = ibkr[i].state
        /\ ibkr'[i] # NoTrace =>
              ibkr[i] # NoTrace /\ ibkr'[i].ref = ibkr[i].ref /\ ibkr'[i].life = ibkr[i].life

LEMMA IbkrFacts ==
    ASSUME OrdersAreNumbered, BridgeTypes, IbkrSound, NEW i \in OrderIds
    PROVE  /\ ibkr[i].filled \in Nat /\ ibkr[i].filled <= OrderLots /\ ibkr[i].life \in Nat
           /\ ibkr[i].life <= memo.life
           /\ ibkr[i] # NoTrace <=> ibkr[i].state # "NONE"
           /\ ibkr[i] # NoTrace <=> ibkr[i].ref # "none"
           /\ ibkr[i] # NoTrace => ibkr[i].ref \in ClientOrders
           /\ \A n \in Nat : <<i, n>> \in Made <=> n \in 1..ibkr[i].filled
           /\ ibkr[i].filled > 0 => Kept(i)
  <1>1. ibkr[i] \in IbkrOrders /\ "none" \notin ClientOrders /\ OrderLots \in Nat
    BY BridgeFacts DEF BridgeTypes
  <1>2. SoundOrder(ibkr[i])
    BY DEF IbkrSound
  <1>3. /\ ibkr[i].filled \in Nat /\ ibkr[i].filled <= OrderLots /\ ibkr[i].life \in Nat
        /\ ibkr[i].life <= memo.life
        /\ ibkr[i] # NoTrace <=> ibkr[i].state # "NONE"
        /\ ibkr[i] # NoTrace <=> ibkr[i].ref # "none"
        /\ ibkr[i] # NoTrace => ibkr[i].ref \in ClientOrders
    BY <1>1, <1>2 DEF IbkrOrders, NoTrace, SoundOrder
  <1>4. ASSUME NEW n \in Nat
        PROVE  <<i, n>> \in Made <=> n \in 1..ibkr[i].filled
    BY <1>1, <1>3 DEF Made, Executions
  <1>5. ibkr[i].filled > 0 => Kept(i)
    BY <1>2, <1>3 DEF SoundOrder, Kept
  <1> QED BY <1>3, <1>4, <1>5

LEMMA MadeFacts ==
    ASSUME OrdersAreNumbered, BridgeTypes, IbkrSound, NEW x \in Made
    PROVE  /\ x[1] \in OrderIds /\ x[2] \in Nat /\ x = <<x[1], x[2]>> /\ x \in OrderIds \X Nat
           /\ x[2] \in 1..ibkr[x[1]].filled /\ Kept(x[1])
           /\ ibkr[x[1]].ref \in ClientOrders
  <1>1. OrderLots \in Nat
    BY BridgeFacts
  <1>2. x[1] \in OrderIds /\ x[2] \in 1..OrderLots /\ x = <<x[1], x[2]>> /\ x[2] <= ibkr[x[1]].filled
    BY DEF Made, Executions
  <1>3. x[2] \in Nat /\ x[2] >= 1
    BY <1>1, <1>2
  <1>4. ibkr[x[1]].filled \in Nat /\ (ibkr[x[1]].filled > 0 => Kept(x[1]))
    BY <1>2, IbkrFacts
  <1>5. x[2] \in 1..ibkr[x[1]].filled /\ Kept(x[1])
    BY <1>2, <1>3, <1>4
  <1>6. ibkr[x[1]].ref \in ClientOrders
    BY <1>2, <1>5, IbkrFacts DEF Kept
  <1> QED BY <1>2, <1>3, <1>5, <1>6

LEMMA OrdersKept ==
    ASSUME OrdersAreNumbered, BridgeTypes, IbkrSound, session' = session, KeepsOn,
           ibkr' \in [OrderIds -> IbkrOrders]
    PROVE  /\ Made \subseteq Made'
           /\ \A x \in Made : x[1] \in OrderIds /\ ibkr'[x[1]].ref = ibkr[x[1]].ref
           /\ \A c \in ClientOrders : Over(c) => Over(c)'
  <1>1. ASSUME NEW x \in Made
        PROVE  x \in Made' /\ x[1] \in OrderIds /\ ibkr'[x[1]].ref = ibkr[x[1]].ref
    <2>1. x[1] \in OrderIds /\ x[2] \in 1..ibkr[x[1]].filled /\ Kept(x[1])
      BY MadeFacts
    <2>2. ibkr[x[1]].filled <= ibkr'[x[1]].filled /\ ibkr'[x[1]].ref = ibkr[x[1]].ref
      BY <2>1 DEF KeepsOn
    <2>3. ibkr[x[1]].filled \in Nat /\ ibkr'[x[1]].filled \in Nat
      BY <2>1, IbkrFacts DEF IbkrOrders, NoTrace
    <2>4. x[2] <= ibkr'[x[1]].filled
      BY <2>1, <2>2, <2>3
    <2>5. Executions' = Executions
      BY DEF Executions, OrderLots
    <2> QED BY <2>1, <2>2, <2>4, <2>5 DEF Made
  <1>2. ASSUME NEW c \in ClientOrders, Over(c)
        PROVE  Over(c)'
    <2>1. PICK i \in OrderIds : ibkr[i].ref = c /\ ibkr[i].state \in {"CANCELLED", "REJECTED"}
      BY <1>2 DEF Over
    <2>2. ibkr'[i].ref = c /\ ibkr'[i].state = ibkr[i].state
      BY <2>1 DEF KeepsOn, Kept
    <2> QED BY <2>1, <2>2 DEF Over
  <1> QED BY <1>1, <1>2

LEMMA CallbackKept ==
    ASSUME OrdersAreNumbered, BridgeTypes, IbkrSound, session' = session, KeepsOn,
           ibkr' \in [OrderIds -> IbkrOrders], memo' \in Histories, memo.tasks <= memo'.tasks,
           NEW e \in Callbacks, SoundCallback(e), e.cb # "nextValidId"
    PROVE  SoundCallback(e)'
  <1>1. CASE e.cb \in {"openOrder", "orderStatus"}
    <2>1. e.id \in OrderIds
      BY <1>1 DEF Callbacks
    <2>2. Says(e.id, e.status)'
      BY <1>1, <2>1 DEF SoundCallback, Says, Kept, KeepsOn
    <2>3. e.cb = "openOrder" => e.ref = ibkr'[e.id].ref
      BY <1>1, <2>1 DEF SoundCallback, Says, KeepsOn
    <2> QED BY <1>1, <2>2, <2>3 DEF SoundCallback, OrderLots
  <1>2. CASE e.cb \in {"execDetails", "commissionReport"}
    <2>1. e.execution \in Made /\ e.ref = ibkr[e.execution[1]].ref
      BY <1>2 DEF SoundCallback
    <2>2. e.execution \in Made' /\ e.ref = ibkr'[e.execution[1]].ref
      BY <2>1, OrdersKept
    <2>3. e.cb = "execDetails" => e.request \in Nat /\ e.request <= memo'.tasks
      BY <1>2 DEF SoundCallback, Callbacks, BridgeTypes, Histories
    <2> QED BY <1>2, <2>2, <2>3 DEF SoundCallback
  <1>3. CASE e.cb = "error"
    <2>1. e.id \in OrderIds
      BY <1>3 DEF Callbacks
    <2> QED BY <1>3, <2>1 DEF SoundCallback, KeepsOn, Kept
  <1>4. CASE e.cb = "end"
    <2>1. e.request \in Nat /\ e.request <= memo'.tasks
      BY <1>4 DEF SoundCallback, Callbacks, BridgeTypes, Histories
    <2> QED BY <1>4, <2>1 DEF SoundCallback
  <1> QED BY <1>1, <1>2, <1>3, <1>4 DEF Callbacks

LEMMA OrdersStand ==
    ASSUME OrdersAreNumbered, BridgeTypes, IbkrSound, session' = session, Advances,
           ibkr' \in [OrderIds -> IbkrOrders]
    PROVE  /\ Made \subseteq Made'
           /\ \A x \in Made : x[1] \in OrderIds /\ ibkr'[x[1]].ref = ibkr[x[1]].ref
           /\ \A c \in ClientOrders : Over(c) => Over(c)'
  <1>1. KeepsOn
    BY DEF Advances, KeepsOn
  <1> QED BY <1>1, OrdersKept

LEMMA CallbackStands ==
    ASSUME OrdersAreNumbered, BridgeTypes, IbkrSound, session' = session, Advances,
           ibkr' \in [OrderIds -> IbkrOrders], memo' \in Histories, memo.tasks <= memo'.tasks,
           NEW e \in Callbacks, SoundCallback(e), e.cb # "nextValidId"
    PROVE  SoundCallback(e)'
  <1>1. KeepsOn
    BY DEF Advances, KeepsOn
  <1> QED BY <1>1, CallbackKept

LEMMA CallbackTaken ==
    ASSUME OrdersAreNumbered, BridgeTypes, IbkrSound, MemorySound, ReportedOnce, WireSound,
           TakeCallback
    PROVE  /\ wire # <<>> /\ wire[1] \in Callbacks /\ SoundCallback(wire[1])
           /\ Takes(wire[1], bridge')
  <1>1. wire # <<>> /\ wire \in Seq(Callbacks) /\ Len(wire) \in Nat /\ 1 \in 1..Len(wire)
    BY DEF TakeCallback, BridgeTypes
  <1>2. wire[1] \in Callbacks /\ SoundCallback(wire[1])
    BY <1>1 DEF WireSound
  <1>3. BridgeSees(wire[1])
    BY <1>2 DEF BridgeSees
  <1>4. bridge' = AfterCallback(bridge, wire[1])
    BY DEF TakeCallback
  <1> DEFINE e == wire[1]
  <1> HIDE DEF e
  <1>5. e \in Callbacks /\ BridgeSees(e) /\ bridge' = AfterCallback(bridge, e)
    BY <1>2, <1>3, <1>4 DEF e
  <1>6. Takes(e, bridge')
    <2>1. CASE e.cb = "openOrder"
      BY <1>5, <2>1, TakeOpenOrder DEF AfterCallback
    <2>2. CASE e.cb = "orderStatus"
      BY <1>5, <2>2, TakeStatus DEF AfterCallback
    <2>3. CASE e.cb = "execDetails"
      BY <1>5, <2>3, TakeExecution DEF AfterCallback
    <2>4. CASE e.cb = "commissionReport"
      BY <1>5, <2>4, TakeCommission DEF AfterCallback
    <2>5. CASE e.cb = "error"
      BY <1>5, <2>5, TakeError DEF AfterCallback
    <2>6. CASE e.cb = "end"
      BY <1>5, <2>6, TakeEnd DEF AfterCallback
    <2>7. CASE e.cb = "nextValidId"
      BY <1>5, <2>7, TakeNextId DEF AfterCallback
    <2> QED BY <1>5, <2>1, <2>2, <2>3, <2>4, <2>5, <2>6, <2>7 DEF Callbacks
  <1> QED BY <1>1, <1>2, <1>6 DEF e

LEMMA GreetingStands ==
    ASSUME Advances, NEW e \in Callbacks, e.cb = "nextValidId", SoundCallback(e), ~bridge'.ready
    PROVE  SoundCallback(e)'
  BY DEF SoundCallback, Advances

LEMMA Joined ==
    ASSUME NEW S, NEW s \in Seq(S), NEW t \in Seq(S)
    PROVE  /\ s \o t \in Seq(S) /\ Len(s \o t) = Len(s) + Len(t)
           /\ Len(s) \in Nat /\ Len(t) \in Nat
           /\ \A k \in 1..Len(s) : k \in 1..Len(s \o t) /\ (s \o t)[k] = s[k]
           /\ \A k \in 1..Len(t) : (s \o t)[Len(s) + k] = t[k]
           /\ \A k \in 1..Len(s \o t) :
                 \/ k \in 1..Len(s) /\ (s \o t)[k] = s[k]
                 \/ \E j \in 1..Len(t) : k = Len(s) + j /\ (s \o t)[k] = t[j]
  <1>1. /\ s \o t \in Seq(S) /\ Len(s \o t) = Len(s) + Len(t)
        /\ Len(s) \in Nat /\ Len(t) \in Nat
    OBVIOUS
  <1>2. \A k \in 1..Len(s) : k \in 1..Len(s \o t) /\ (s \o t)[k] = s[k]
    OBVIOUS
  <1>3. \A k \in 1..Len(t) : (s \o t)[Len(s) + k] = t[k]
    OBVIOUS
  <1>4. ASSUME NEW k \in 1..Len(s \o t), k \notin 1..Len(s)
        PROVE  \E j \in 1..Len(t) : k = Len(s) + j /\ (s \o t)[k] = t[j]
    <2>1. k - Len(s) \in 1..Len(t) /\ k = Len(s) + (k - Len(s))
      BY <1>1, <1>4
    <2> QED BY <1>3, <2>1
  <1> QED BY <1>1, <1>2, <1>3, <1>4

(* Orders placed once, and ends that answer for an order, stand.            *)
LEMMA PlacedStands ==
    ASSUME OrdersAreNumbered, BridgeTypes, IbkrSound, PlacedOnce, AnswersStand,
           session' = session, Advances, ibkr' \in [OrderIds -> IbkrOrders]
    PROVE  /\ PlacedOnce'
           /\ \A p \in memo.rejected :
                 \/ Over(p[1])'
                 \/ \A i \in OrderIds : ~(ibkr'[i].ref = p[1] /\ ibkr'[i].life = p[2])
  <1>1. \A c \in ClientOrders : Over(c) => Over(c)'
    BY OrdersStand
  <1>2. \A i \in OrderIds : ibkr'[i] # NoTrace =>
           ibkr[i] # NoTrace /\ ibkr'[i].ref = ibkr[i].ref /\ ibkr'[i].life = ibkr[i].life
    BY DEF Advances
  <1>3. \A i \in OrderIds : ibkr'[i].ref # "none" => ibkr'[i] # NoTrace
    BY DEF NoTrace
  <1>4. PlacedOnce'
    BY <1>2, <1>3 DEF PlacedOnce
  <1>5. ASSUME NEW p \in memo.rejected
        PROVE  \/ Over(p[1])'
               \/ \A i \in OrderIds : ~(ibkr'[i].ref = p[1] /\ ibkr'[i].life = p[2])
    <2>1. p[1] \in ClientOrders /\ p[1] # "none"
      BY DEF BridgeTypes, Histories, OrdersAreNumbered
    <2>2. CASE Over(p[1])
      BY <1>1, <2>1, <2>2
    <2>3. CASE \A i \in OrderIds : ~(ibkr[i].ref = p[1] /\ ibkr[i].life = p[2])
      BY <1>2, <1>3, <2>1, <2>3
    <2> QED BY <2>2, <2>3 DEF AnswersStand
  <1> QED BY <1>4, <1>5

(* What holds of the memory holds on when IBKR moves.                       *)
SameMemory ==
    /\ bridge'.refOf = bridge.refOf /\ bridge'.idOf = bridge.idOf
    /\ bridge'.orders = bridge.orders /\ bridge'.details = bridge.details
    /\ bridge'.fees = bridge.fees /\ bridge'.seen = bridge.seen
    /\ memo'.life = memo.life /\ memo'.rejected = memo.rejected
    /\ memo'.attested = memo.attested

LEMMA MemoryStands ==
    ASSUME OrdersAreNumbered, BridgeInvariant, session' = session, Advances,
           ibkr' \in [OrderIds -> IbkrOrders], SameMemory
    PROVE  MemorySound' /\ PlacedOnce' /\ AnswersStand'
  <1>1. /\ BridgeTypes /\ IbkrSound /\ MemorySound /\ PlacedOnce /\ AnswersStand
    BY DEF BridgeInvariant
  <1>2. /\ Made \subseteq Made'
        /\ \A x \in Made : x[1] \in OrderIds /\ ibkr'[x[1]].ref = ibkr[x[1]].ref
        /\ \A c \in ClientOrders : Over(c) => Over(c)'
    BY <1>1, OrdersStand
  <1>3. \A i \in OrderIds : ibkr'[i] # NoTrace =>
           ibkr[i] # NoTrace /\ ibkr'[i].ref = ibkr[i].ref /\ ibkr'[i].life = ibkr[i].life
    BY DEF Advances
  <1>4. /\ bridge'.refOf = bridge.refOf /\ bridge'.idOf = bridge.idOf
        /\ bridge'.orders = bridge.orders /\ bridge'.details = bridge.details
        /\ bridge'.fees = bridge.fees /\ bridge'.seen = bridge.seen
        /\ memo'.life = memo.life /\ memo'.rejected = memo.rejected
        /\ memo'.attested = memo.attested
    BY DEF SameMemory
  <1>5. MemorySound'
    <2>1. \A i \in OrderIds : ibkr'[i] # NoTrace => bridge.refOf[i] \in {"none", ibkr'[i].ref}
      BY <1>1, <1>3 DEF MemorySound
    <2>2. \A i \in OrderIds :
             ibkr'[i] # NoTrace /\ ibkr'[i].life = memo.life => bridge.idOf[ibkr'[i].ref] # 0
      BY <1>1, <1>3 DEF MemorySound
    <2>3. \A c \in ClientOrders :
             bridge.orders[c].state \in {"CANCELLED", "REJECTED"} => Over(c)'
      BY <1>1, <1>2 DEF MemorySound
    <2>4. bridge.details \subseteq Made' /\ bridge.fees \subseteq Made'
      BY <1>1, <1>2 DEF MemorySound
    <2>5. \A x \in bridge.details : bridge.idOf[ibkr'[x[1]].ref] # 0
      BY <1>1, <1>2 DEF MemorySound, Known
    <2> QED BY <1>1, <1>4, <2>1, <2>2, <2>3, <2>4, <2>5 DEF MemorySound, Known
  <1>6. AnswersStand'
    <2>1. \A p \in memo.rejected :
             /\ p[2] \in 1..memo.life
             /\ \/ Over(p[1])'
                \/ \A i \in OrderIds : ~(ibkr'[i].ref = p[1] /\ ibkr'[i].life = p[2])
      BY <1>1, PlacedStands DEF AnswersStand
    <2>2. \A x \in memo.attested : x \in Made' /\ bridge.idOf[ibkr'[x[1]].ref] # 0
      BY <1>1, <1>2 DEF AnswersStand, Known
    <2> QED BY <1>4, <2>1, <2>2 DEF AnswersStand, Known
  <1> QED BY <1>1, <1>5, <1>6, PlacedStands

LEMMA IbkrSpeaks ==
    ASSUME OrdersAreNumbered, BridgeInvariant, UNCHANGED <<session, bridge, task, memo>>,
           Advances, ibkr' \in [OrderIds -> IbkrOrders], IbkrSound', asked' \subseteq asked,
           NEW es \in Seq(Callbacks), Call(es),
           \A k \in 1..Len(es) : SoundCallback(es[k])' /\ es[k].cb # "nextValidId",
           task.op = "CONNECT" => \A k \in 1..Len(es) : es[k].cb # "end",
           Refreshing => \A k \in 1..Len(es) : EndsRefresh(es[k]) =>
              \A x \in MadeBefore : \E j \in 1..(k - 1) : Shows(es[j], x)
    PROVE  BridgeInvariant'
  <1>1. /\ BridgeTypes /\ IbkrSound /\ WireSound /\ Numbered /\ RefreshSound
        /\ ReportedOnce /\ CancelsOwed
    BY DEF BridgeInvariant
  <1>2. MemorySound' /\ PlacedOnce' /\ AnswersStand'
    BY MemoryStands DEF SameMemory
  <1>12. PICK old : old = wire
    OBVIOUS
  <1>13. PICK longer : longer = old \o es
    OBVIOUS
  <1>3. old \in Seq(Callbacks) /\ Len(old) \in Nat
    BY <1>1, <1>12 DEF BridgeTypes
  <1>4. /\ longer \in Seq(Callbacks) /\ Len(longer) = Len(old) + Len(es) /\ Len(es) \in Nat
        /\ \A k \in 1..Len(old) : k \in 1..Len(longer) /\ longer[k] = old[k]
        /\ \A k \in 1..Len(es) : longer[Len(old) + k] = es[k]
        /\ \A k \in 1..Len(longer) :
              \/ k \in 1..Len(old) /\ longer[k] = old[k]
              \/ \E j \in 1..Len(es) : k = Len(old) + j /\ longer[k] = es[j]
    <2>1. /\ old \o es \in Seq(Callbacks) /\ Len(old \o es) = Len(old) + Len(es)
          /\ Len(es) \in Nat
          /\ \A k \in 1..Len(old) : k \in 1..Len(old \o es) /\ (old \o es)[k] = old[k]
          /\ \A k \in 1..Len(es) : (old \o es)[Len(old) + k] = es[k]
          /\ \A k \in 1..Len(old \o es) :
                 \/ k \in 1..Len(old) /\ (old \o es)[k] = old[k]
                 \/ \E j \in 1..Len(es) : k = Len(old) + j /\ (old \o es)[k] = es[j]
      <3>1. old \in Seq(Callbacks) /\ es \in Seq(Callbacks)
        BY <1>3
      <3> QED BY <3>1, Joined
    <2> QED BY <1>13, <2>1
  <1>5. /\ wire' \in {old, longer} /\ bridge' = bridge
        /\ wire' # old => bridge.socket
    BY <1>12, <1>13 DEF Call
  <1>6. BridgeTypes'
    BY <1>1, <1>3, <1>4, <1>5 DEF BridgeTypes
  <1>7. \A k \in 1..Len(old) : SoundCallback(old[k])'
    <2> TAKE k \in 1..Len(old)
    <2>1. old[k] \in Callbacks /\ SoundCallback(old[k]) /\ (old[k].cb = "nextValidId" => ~bridge.ready)
      BY <1>1, <1>3, <1>12 DEF WireSound, SoundCallback
    <2>2. memo' \in Histories /\ memo.tasks <= memo'.tasks
      BY <1>1 DEF BridgeTypes, Histories
    <2>3. CASE old[k].cb = "nextValidId"
      BY <2>1, <2>3, GreetingStands
    <2>4. CASE old[k].cb # "nextValidId"
      BY <1>1, <2>1, <2>2, <2>4, CallbackStands
    <2> QED BY <2>3, <2>4
  <1>8. WireSound'
    <2>1. CASE wire' = old
      BY <1>7, <2>1 DEF WireSound
    <2>2. CASE wire' = longer
      <3>1. \A k \in 1..Len(longer) : SoundCallback(longer[k])'
        BY <1>4, <1>7
      <3> QED BY <2>2, <3>1 DEF WireSound
    <2> QED BY <1>5, <2>1, <2>2
  <1>9. Numbered'
    <2>1. Greeted <=> Greeted'
      <3>1. (\A k \in 1..Len(old) : old[k].cb # "nextValidId")
              <=> \A k \in 1..Len(longer) : longer[k].cb # "nextValidId"
        <4>1. \A k \in 1..Len(es) : es[k].cb # "nextValidId"
          OBVIOUS
        <4>2. ASSUME \A k \in 1..Len(old) : old[k].cb # "nextValidId",
                     NEW k \in 1..Len(longer)
              PROVE  longer[k].cb # "nextValidId"
          BY <1>4, <4>1, <4>2
        <4>3. ASSUME \A k \in 1..Len(longer) : longer[k].cb # "nextValidId",
                     NEW k \in 1..Len(old)
              PROVE  old[k].cb # "nextValidId"
          BY <1>4, <4>3
        <4> QED BY <4>2, <4>3
      <3> QED BY <1>5, <1>12, <3>1 DEF Greeted
    <2>2. \A i \in OrderIds : ibkr'[i] # NoTrace => ibkr[i] # NoTrace
      BY DEF Advances
    <2>3. GreetingFirst'
      <3>1. \A k \in 1..Len(old) : old[k].cb = "nextValidId" => k = 1
        BY <1>1, <1>12 DEF Numbered, GreetingFirst
      <3>2. \A k \in 1..Len(longer) : longer[k].cb = "nextValidId" => k = 1
        BY <1>4, <3>1
      <3>3. wire' # <<>> => bridge.socket
        BY <1>1, <1>5, <1>12 DEF Numbered, GreetingFirst
      <3> QED BY <1>5, <3>1, <3>2, <3>3 DEF GreetingFirst
    <2> QED BY <1>1, <2>1, <2>2, <2>3 DEF Numbered
  <1>10. ReportedOnce' /\ CancelsOwed'
    BY <1>1 DEF ReportedOnce, CancelsOwed, Failed, Owed
  <1>11. RefreshSound'
    <2>1. \A r \in asked' : r.kind # "CANCEL" => r.request <= memo'.tasks
      BY <1>1 DEF RefreshSound
    <2>2. task'.op = "CONNECT" =>
            (\A r \in asked' : r.kind = "CANCEL") /\ \A k \in 1..Len(wire') : wire'[k].cb # "end"
      <3>1. task.op = "CONNECT" =>
              (\A r \in asked : r.kind = "CANCEL") /\ \A k \in 1..Len(old) : old[k].cb # "end"
        BY <1>1, <1>12 DEF RefreshSound
      <3>2. task.op = "CONNECT" => \A k \in 1..Len(longer) : longer[k].cb # "end"
        BY <1>4, <3>1
      <3> QED BY <1>5, <3>1, <3>2
    <2>3. ASSUME Refreshing
          PROVE  /\ bridge'.execRequest = task'.request /\ task'.request <= memo'.tasks
                 /\ MadeBefore' \subseteq Made'
                 /\ "EXECUTIONS" \in bridge'.done => MadeBefore' \subseteq bridge'.seen
      <3>1. MadeBefore' = MadeBefore
        BY DEF MadeBefore, Executions, OrderLots
      <3>2. Made \subseteq Made'
        BY <1>1, OrdersStand
      <3> QED BY <1>1, <2>3, <3>1, <3>2 DEF RefreshSound
    <2>4. ASSUME Refreshing, NEW k \in 1..Len(wire'), wire'[k].cb = "end",
                 wire'[k].kind = "EXECUTIONS", wire'[k].request = task.request,
                 NEW x \in MadeBefore, x \notin bridge.seen
          PROVE  \E j \in 1..(k - 1) : Shows(wire'[j], x)
      <3>1. CASE k \in 1..Len(old) /\ wire'[k] = old[k]
        <4>1. PICK j \in 1..(k - 1) : Shows(old[j], x)
          BY <1>1, <1>12, <2>4, <3>1 DEF RefreshSound, EndsRefresh, Shows
        <4>2. j \in 1..Len(old)
          BY <1>3, <3>1
        <4>3. wire'[j] = old[j]
          BY <1>4, <1>5, <4>2
        <4> QED BY <4>1, <4>3
      <3>2. CASE wire' = longer /\ \E m \in 1..Len(es) : k = Len(old) + m /\ longer[k] = es[m]
        <4>1. PICK m \in 1..Len(es) : k = Len(old) + m /\ longer[k] = es[m]
          BY <3>2
        <4>2. PICK j \in 1..(m - 1) : Shows(es[j], x)
          BY <2>4, <3>2, <4>1 DEF EndsRefresh
        <4>3. j \in 1..Len(es) /\ Len(old) + j \in 1..(k - 1)
          BY <1>3, <1>4, <4>1
        <4>4. wire'[Len(old) + j] = es[j]
          BY <1>4, <3>2, <4>3
        <4> QED BY <4>2, <4>3, <4>4
      <3> QED BY <1>4, <1>5, <2>4, <3>1, <3>2
    <2>5. task' = task /\ bridge' = bridge /\ MadeBefore' = MadeBefore
      BY DEF MadeBefore, Executions, OrderLots
    <2>6. Refreshing =>
            \A k \in 1..Len(wire') : EndsRefresh(wire'[k]) =>
                \A x \in MadeBefore : x \in bridge.seen \/ \E j \in 1..(k - 1) : Shows(wire'[j], x)
      BY <2>4 DEF EndsRefresh
    <2> QED
      BY <2>1, <2>2, <2>3, <2>5, <2>6 DEF RefreshSound, Refreshing, EndsRefresh, Shows
  <1> QED BY <1>2, <1>6, <1>8, <1>9, <1>10, <1>11 DEF BridgeInvariant

(* An order that IBKR has received moves on, or ends.                       *)
LEMMA OrderMoves ==
    ASSUME OrdersAreNumbered, BridgeInvariant, session' = session, memo' = memo,
           NEW i \in OrderIds, ibkr[i].state \in {"SENT", "WORKING"},
           NEW o \in IbkrOrders, o.ref = ibkr[i].ref, o.life = ibkr[i].life,
           o.state \in {"WORKING", "FILLED", "CANCELLED", "REJECTED"},
           ibkr[i].filled <= o.filled, o.filled <= OrderLots,
           o.state = "WORKING" => o.filled < OrderLots, o.state = "REJECTED" => o.filled = 0,
           ibkr' = [ibkr EXCEPT ![i] = o]
    PROVE  /\ Advances /\ ibkr' \in [OrderIds -> IbkrOrders] /\ IbkrSound'
           /\ ibkr'[i] = o /\ ibkr[i].ref \in ClientOrders
  <1>1. BridgeTypes /\ IbkrSound
    BY DEF BridgeInvariant
  <1>2. ibkr[i] # NoTrace
    BY DEF NoTrace
  <1>3. /\ ibkr[i].ref \in ClientOrders /\ ibkr[i].life <= memo.life
        /\ ibkr \in [OrderIds -> IbkrOrders]
    BY <1>1, <1>2, IbkrFacts DEF BridgeTypes
  <1>4. SoundOrder(o)
    BY <1>3 DEF SoundOrder
  <1>5. ibkr'[i] = o /\ \A j \in OrderIds \ {i} : ibkr'[j] = ibkr[j]
    BY <1>3
  <1>6. \A j \in OrderIds : ibkr[j].filled \in Nat
    BY <1>1, IbkrFacts
  <1>7. Advances
    <2>1. ASSUME NEW j \in OrderIds
          PROVE  /\ Kept(j) =>
                       /\ ibkr'[j].state \notin {"NONE", "SENT"}
                       /\ ibkr[j].filled <= ibkr'[j].filled
                       /\ ibkr'[j].ref = ibkr[j].ref /\ ibkr'[j].life = ibkr[j].life
                       /\ ibkr[j].state \in {"CANCELLED", "REJECTED"} =>
                             ibkr'[j].state = ibkr[j].state
                 /\ ibkr'[j] # NoTrace =>
                       /\ ibkr[j] # NoTrace /\ ibkr'[j].ref = ibkr[j].ref
                       /\ ibkr'[j].life = ibkr[j].life
      <3>1. CASE j = i
        BY <1>2, <1>5, <3>1
      <3>2. CASE j # i
        <4>1. ibkr'[j] = ibkr[j]
          BY <1>5, <3>2
        <4>2. ibkr[j].filled <= ibkr[j].filled
          BY <1>6
        <4> QED BY <4>1, <4>2 DEF Kept
      <3> QED BY <3>1, <3>2
    <2> QED BY <2>1 DEF Advances
  <1>8. ibkr' \in [OrderIds -> IbkrOrders]
    BY <1>3
  <1>9. IbkrSound'
    <2>1. \A j \in OrderIds : SoundOrder(ibkr'[j])
      BY <1>1, <1>4, <1>5 DEF IbkrSound
    <2> QED BY <2>1 DEF IbkrSound, SoundOrder, OrderLots
  <1> QED BY <1>3, <1>5, <1>7, <1>8, <1>9

(* A call on the socket, when no listing is said.                           *)
LEMMA CallsAreHeard ==
    ASSUME OrdersAreNumbered, BridgeInvariant, UNCHANGED <<session, bridge, task, memo>>,
           Advances, ibkr' \in [OrderIds -> IbkrOrders], IbkrSound', asked' \subseteq asked,
           NEW es \in Seq(Callbacks), Call(es),
           \A k \in 1..Len(es) : SoundCallback(es[k])' /\ es[k].cb \notin {"nextValidId", "end"}
    PROVE  BridgeInvariant'
  BY IbkrSpeaks DEF EndsRefresh

LEMMA AcceptOrderStep ==
    ASSUME OrdersAreNumbered, BridgeInvariant, session' = session,
           NEW i \in OrderIds, AcceptOrder(i)
    PROVE  BridgeInvariant'
  <1>1. BridgeTypes /\ IbkrSound /\ OrderLots \in Nat \ {0}
    BY BridgeFacts DEF BridgeInvariant
  <1>2. /\ ibkr[i].state = "SENT" /\ ibkr' = [ibkr EXCEPT ![i].state = "WORKING"]
        /\ UNCHANGED <<asked, bridge, task, memo>>
    BY DEF AcceptOrder
  <1>3. ibkr[i] \in IbkrOrders /\ ibkr[i] # NoTrace /\ ibkr \in [OrderIds -> IbkrOrders]
    BY <1>1, <1>2 DEF BridgeTypes, NoTrace
  <1>4. ibkr[i].filled = 0
    BY <1>1, <1>2 DEF IbkrSound, SoundOrder
  <1> DEFINE o == [ibkr[i] EXCEPT !.state = "WORKING"]
  <1>5. /\ o \in IbkrOrders /\ o.ref = ibkr[i].ref /\ o.life = ibkr[i].life
        /\ o.state = "WORKING" /\ o.filled = 0 /\ 0 < OrderLots /\ 0 <= OrderLots
        /\ ibkr[i].filled <= o.filled /\ ibkr' = [ibkr EXCEPT ![i] = o]
    BY <1>1, <1>2, <1>3, <1>4 DEF IbkrOrders
  <1> HIDE DEF o
  <1>6. /\ Advances /\ ibkr' \in [OrderIds -> IbkrOrders] /\ IbkrSound'
        /\ ibkr'[i].ref = ibkr[i].ref /\ ibkr'[i].state = "WORKING" /\ ibkr'[i].filled = 0
        /\ ibkr[i].ref \in ClientOrders
    BY <1>2, <1>5, OrderMoves
  <1>7. PICK first \in {"PendingSubmit", "Submitted"} :
            Call(<<[OpenOrder(i)' EXCEPT !.status = first], Status(i, "Submitted", 0)>>)
    BY DEF AcceptOrder
  <1>8. PICK c \in ClientOrders : c = ibkr[i].ref
    BY <1>6
  <1>9. [OpenOrder(i)' EXCEPT !.status = first]
          = [cb |-> "openOrder", id |-> i, ref |-> c, status |-> first]
    BY <1>6, <1>8 DEF OpenOrder
  <1>10. Status(i, "Submitted", 0)
           = [cb |-> "orderStatus", id |-> i, status |-> "Submitted", filled |-> 0]
    BY DEF Status
  <1>11. PICK es : es = <<[cb |-> "openOrder", id |-> i, ref |-> c, status |-> first],
                          [cb |-> "orderStatus", id |-> i, status |-> "Submitted", filled |-> 0]>>
    OBVIOUS
  <1>12. Call(es)
    BY <1>7, <1>9, <1>10, <1>11
  <1>13. es \in Seq(Callbacks) /\ Len(es) = 2
    BY <1>11 DEF Callbacks, Statuses
  <1>14. \A k \in 1..Len(es) : SoundCallback(es[k])' /\ es[k].cb \notin {"nextValidId", "end"}
    <2>1. Says(i, first)' /\ Says(i, "Submitted")'
      BY <1>6 DEF Says, Kept
    <2>2. SoundCallback(es[1])'
      BY <1>6, <1>8, <1>11, <2>1 DEF SoundCallback
    <2>3. SoundCallback(es[2])'
      BY <1>1, <1>11, <2>1 DEF SoundCallback, OrderLots
    <2>4. es[1].cb = "openOrder" /\ es[2].cb = "orderStatus"
      BY <1>11
    <2> QED BY <1>13, <2>2, <2>3, <2>4
  <1> QED BY <1>2, <1>6, <1>12, <1>13, <1>14, CallsAreHeard

LEMMA RejectByIbkrStep ==
    ASSUME OrdersAreNumbered, BridgeInvariant, session' = session,
           NEW i \in OrderIds, RejectByIbkr(i)
    PROVE  BridgeInvariant'
  <1>1. BridgeTypes /\ IbkrSound /\ OrderLots \in Nat \ {0}
    BY BridgeFacts DEF BridgeInvariant
  <1>2. /\ ibkr[i].state = "SENT" /\ ibkr' = [ibkr EXCEPT ![i].state = "REJECTED"]
        /\ UNCHANGED <<asked, bridge, task, memo>>
    BY DEF RejectByIbkr
  <1>3. ibkr[i] \in IbkrOrders /\ ibkr[i] # NoTrace /\ ibkr \in [OrderIds -> IbkrOrders]
    BY <1>1, <1>2 DEF BridgeTypes, NoTrace
  <1>4. ibkr[i].filled = 0
    BY <1>1, <1>2 DEF IbkrSound, SoundOrder
  <1> DEFINE o == [ibkr[i] EXCEPT !.state = "REJECTED"]
  <1>5. /\ o \in IbkrOrders /\ o.ref = ibkr[i].ref /\ o.life = ibkr[i].life
        /\ o.state = "REJECTED" /\ o.filled = 0 /\ 0 < OrderLots /\ 0 <= OrderLots
        /\ ibkr[i].filled <= o.filled /\ ibkr' = [ibkr EXCEPT ![i] = o]
    BY <1>1, <1>2, <1>3, <1>4 DEF IbkrOrders
  <1> HIDE DEF o
  <1>6. /\ Advances /\ ibkr' \in [OrderIds -> IbkrOrders] /\ IbkrSound'
        /\ ibkr'[i].state = "REJECTED"
    BY <1>2, <1>5, OrderMoves
  <1>7. PICK e \in {[cb |-> "error", id |-> i, code |-> "REJECTION"],
                    [cb |-> "orderStatus", id |-> i, status |-> "Inactive", filled |-> 0]} :
            Call(<<e>>)
    BY DEF RejectByIbkr, Error, Status
  <1>8. PICK es : es = <<e>>
    OBVIOUS
  <1>9. e \in Callbacks /\ e.cb \in {"error", "orderStatus"}
    BY <1>7 DEF Callbacks, Statuses
  <1>10. SoundCallback(e)'
    BY <1>1, <1>6, <1>7 DEF SoundCallback, Says, Kept, OrderLots
  <1>11. es \in Seq(Callbacks) /\ Call(es) /\ Len(es) = 1 /\ es[1] = e
    BY <1>7, <1>8, <1>9
  <1>12. \A k \in 1..Len(es) : SoundCallback(es[k])' /\ es[k].cb \notin {"nextValidId", "end"}
    BY <1>9, <1>10, <1>11
  <1> QED BY <1>2, <1>6, <1>11, <1>12, CallsAreHeard

LEMMA NothingMoves ==
    ASSUME OrdersAreNumbered, BridgeTypes, IbkrSound, UNCHANGED <<session, ibkr>>,
           memo'.life = memo.life
    PROVE  Advances /\ ibkr' \in [OrderIds -> IbkrOrders] /\ IbkrSound'
  <1>1. \A i \in OrderIds : ibkr[i].filled \in Nat /\ ibkr'[i] = ibkr[i]
    BY IbkrFacts
  <1>2. \A i \in OrderIds : ibkr[i].filled <= ibkr[i].filled
    BY <1>1
  <1>3. Advances
    BY <1>1, <1>2 DEF Advances, Kept
  <1>4. IbkrSound'
    BY DEF IbkrSound, SoundOrder, OrderLots
  <1> QED BY <1>3, <1>4 DEF BridgeTypes

LEMMA ExecuteStep ==
    ASSUME OrdersAreNumbered, BridgeInvariant, session' = session,
           NEW i \in OrderIds, Execute(i)
    PROVE  BridgeInvariant'
  <1> DEFINE filled == ibkr[i].filled + 1
             state == IF filled = OrderLots THEN "FILLED" ELSE "WORKING"
             o == [ibkr[i] EXCEPT !.filled = filled, !.state = state]
  <1>1. BridgeTypes /\ IbkrSound /\ OrderLots \in Nat \ {0}
    BY BridgeFacts DEF BridgeInvariant
  <1>2. /\ ibkr[i].state = "WORKING" /\ ibkr' = [ibkr EXCEPT ![i] = o]
        /\ UNCHANGED <<asked, bridge, task, memo>>
    BY DEF Execute
  <1>3. ibkr[i] \in IbkrOrders /\ ibkr[i] # NoTrace
    BY <1>1, <1>2 DEF BridgeTypes, NoTrace
  <1>4. ibkr[i].filled \in Nat /\ ibkr[i].filled < OrderLots
    BY <1>1, <1>2, IbkrFacts DEF IbkrSound, SoundOrder
  <1>5. /\ filled \in Nat /\ ibkr[i].filled <= filled /\ filled <= OrderLots /\ filled >= 1
        /\ state = "WORKING" => filled < OrderLots
        /\ state \in {"FILLED", "WORKING"} /\ Text(state) \in {"Filled", "Submitted"}
    BY <1>1, <1>4 DEF Text
  <1>6. PICK n \in Nat : n = filled
    BY <1>5
  <1>7. PICK text \in {"Filled", "Submitted"} : text = Text(state)
    BY <1>5
  <1>8. PICK c : c = ibkr[i].ref
    OBVIOUS
  <1> DEFINE x == <<i, n>>
  <1>9. /\ Details(<<i, filled>>, 0)
              = [cb |-> "execDetails", execution |-> x, ref |-> c, request |-> 0]
        /\ Commission(<<i, filled>>) = [cb |-> "commissionReport", execution |-> x, ref |-> c]
        /\ Status(i, Text(state), filled)
              = [cb |-> "orderStatus", id |-> i, status |-> text, filled |-> n]
    BY <1>6, <1>7, <1>8 DEF Details, Commission, Status
  <1> DEFINE d == [cb |-> "execDetails", execution |-> x, ref |-> c, request |-> 0]
             f == [cb |-> "commissionReport", execution |-> x, ref |-> c]
             s == [cb |-> "orderStatus", id |-> i, status |-> text, filled |-> n]
  <1>10. \E es \in {<<d, f, s>>, <<s, f, d>>, <<d, s>>} : Call(es)
    BY <1>9 DEF Execute
  <1>11. PICK es \in {<<d, f, s>>, <<s, f, d>>, <<d, s>>} : Call(es)
    BY <1>10
  <1>12. /\ o \in IbkrOrders /\ o.ref = ibkr[i].ref /\ o.life = ibkr[i].life
         /\ o.state = state /\ o.filled = filled
    <2> HIDE DEF filled, state
    <2> QED BY <1>3, <1>5 DEF IbkrOrders, NoTrace
  <1> HIDE DEF o, filled, state
  <1>13. /\ Advances /\ ibkr' \in [OrderIds -> IbkrOrders] /\ IbkrSound'
         /\ ibkr'[i] = o /\ ibkr[i].ref \in ClientOrders
    BY <1>2, <1>5, <1>12, OrderMoves
  <1>14. /\ c \in ClientOrders /\ ibkr'[i].ref = c /\ ibkr'[i].filled = n
         /\ ibkr'[i].state \in {"FILLED", "WORKING"}
    BY <1>5, <1>6, <1>8, <1>12, <1>13
  <1>15. x \in Made'
    BY <1>1, <1>5, <1>6, <1>14 DEF Made, Executions, OrderLots
  <1>16. /\ d \in Callbacks /\ f \in Callbacks /\ s \in Callbacks
         /\ d.cb = "execDetails" /\ f.cb = "commissionReport" /\ s.cb = "orderStatus"
    BY <1>14 DEF Callbacks, Statuses
  <1>17. SoundCallback(d)'
    <2>1. memo'.tasks \in Nat
      BY <1>1, <1>2 DEF BridgeTypes, Histories
    <2>2. x \in Made' /\ c = ibkr'[x[1]].ref
      BY <1>14, <1>15
    <2> QED BY <2>1, <2>2 DEF SoundCallback
  <1>18. SoundCallback(f)'
    <2>1. x \in Made' /\ c = ibkr'[x[1]].ref
      BY <1>14, <1>15
    <2> QED BY <2>1 DEF SoundCallback
  <1>19. SoundCallback(s)'
    <2>1. Says(i, text)'
      BY <1>14 DEF Says, Kept
    <2>2. n <= OrderLots'
      BY <1>5, <1>6 DEF OrderLots
    <2> QED BY <2>1, <2>2 DEF SoundCallback
  <1> HIDE DEF d, f, s
  <1>20. /\ es \in Seq(Callbacks) /\ Len(es) \in {2, 3}
         /\ \A k \in 1..Len(es) : es[k] \in {d, f, s}
    <2>1. CASE es = <<d, f, s>>
      BY <1>16, <2>1
    <2>2. CASE es = <<s, f, d>>
      BY <1>16, <2>2
    <2>3. CASE es = <<d, s>>
      BY <1>16, <2>3
    <2> QED BY <1>11, <2>1, <2>2, <2>3
  <1>21. \A k \in 1..Len(es) : SoundCallback(es[k])' /\ es[k].cb \notin {"nextValidId", "end"}
    <2> TAKE k \in 1..Len(es)
    <2>1. es[k] \in {d, f, s}
      BY <1>20
    <2>2. CASE es[k] = d
      BY <1>16, <1>17, <2>2
    <2>3. CASE es[k] = f
      BY <1>16, <1>18, <2>3
    <2>4. CASE es[k] = s
      BY <1>16, <1>19, <2>4
    <2> QED BY <2>1, <2>2, <2>3, <2>4
  <1> QED BY <1>2, <1>11, <1>13, <1>20, <1>21, CallsAreHeard

(* An order is cancelled at IBKR, for whatever reason, and the bridge told. *)
LEMMA CancelledIsHeard ==
    ASSUME OrdersAreNumbered, BridgeInvariant, session' = session,
           NEW i \in OrderIds, ibkr[i].state = "WORKING",
           ibkr' = [ibkr EXCEPT ![i].state = "CANCELLED"], asked' \subseteq asked,
           Call(<<Status(i, "Cancelled", ibkr[i].filled)>>),
           UNCHANGED <<bridge, task, memo>>
    PROVE  BridgeInvariant'
  <1> DEFINE o == [ibkr[i] EXCEPT !.state = "CANCELLED"]
  <1>1. BridgeTypes /\ IbkrSound /\ OrderLots \in Nat \ {0}
    BY BridgeFacts DEF BridgeInvariant
  <1>2. ibkr[i] \in IbkrOrders /\ ibkr[i] # NoTrace /\ ibkr[i].filled \in Nat
    BY <1>1, IbkrFacts DEF BridgeTypes, NoTrace
  <1>3. ibkr[i].filled <= OrderLots
    BY <1>1, IbkrFacts
  <1>4. /\ o \in IbkrOrders /\ o.ref = ibkr[i].ref /\ o.life = ibkr[i].life
        /\ o.state = "CANCELLED" /\ o.filled = ibkr[i].filled
        /\ ibkr[i].filled <= o.filled /\ o.filled <= OrderLots /\ ibkr' = [ibkr EXCEPT ![i] = o]
    BY <1>2, <1>3 DEF IbkrOrders
  <1> HIDE DEF o
  <1>5. /\ Advances /\ ibkr' \in [OrderIds -> IbkrOrders] /\ IbkrSound'
        /\ ibkr'[i].state = "CANCELLED"
    BY <1>4, OrderMoves
  <1>6. PICK n \in Nat : n = ibkr[i].filled
    BY <1>2
  <1>7. PICK s : s = [cb |-> "orderStatus", id |-> i, status |-> "Cancelled", filled |-> n]
    OBVIOUS
  <1>8. PICK es : es = <<s>>
    OBVIOUS
  <1>9. Call(es)
    BY <1>6, <1>7, <1>8 DEF Status
  <1>10. s \in Callbacks /\ s.cb = "orderStatus"
    BY <1>7 DEF Callbacks, Statuses
  <1>11. SoundCallback(s)'
    BY <1>1, <1>3, <1>5, <1>6, <1>7 DEF SoundCallback, Says, Kept, OrderLots
  <1>12. es \in Seq(Callbacks) /\ Len(es) = 1 /\ es[1] = s
    BY <1>8, <1>10
  <1>13. \A k \in 1..Len(es) : SoundCallback(es[k])' /\ es[k].cb \notin {"nextValidId", "end"}
    BY <1>10, <1>11, <1>12
  <1> QED BY <1>5, <1>9, <1>12, <1>13, CallsAreHeard

LEMMA CloseStep ==
    ASSUME OrdersAreNumbered, BridgeInvariant, session' = session,
           NEW i \in OrderIds, Close(i)
    PROVE  BridgeInvariant'
  BY CancelledIsHeard DEF Close

LEMMA AnswerCancelStep ==
    ASSUME OrdersAreNumbered, BridgeInvariant, session' = session,
           NEW r \in asked, AnswerCancel(r)
    PROVE  BridgeInvariant'
  <1>1. BridgeTypes /\ IbkrSound /\ OrderLots \in Nat \ {0}
    BY BridgeFacts DEF BridgeInvariant
  <1>2. PICK i \in OrderIds : i = r.id
    BY <1>1 DEF AnswerCancel, BridgeTypes, Asks, Listings
  <1>3. asked' \subseteq asked /\ UNCHANGED <<bridge, task, memo>>
    BY DEF AnswerCancel
  <1>4. CASE /\ ibkr[i].state = "WORKING" /\ ibkr' = [ibkr EXCEPT ![i].state = "CANCELLED"]
             /\ Call(<<Status(i, "Cancelled", ibkr[i].filled)>>)
    BY <1>3, <1>4, CancelledIsHeard
  <1>5. CASE Call(<<Error(i, "CANCEL_FAILURE")>>) /\ UNCHANGED ibkr
    <2>1. Advances /\ ibkr' \in [OrderIds -> IbkrOrders] /\ IbkrSound'
      BY <1>1, <1>3, <1>5, NothingMoves
    <2>2. PICK e : e = [cb |-> "error", id |-> i, code |-> "CANCEL_FAILURE"]
      OBVIOUS
    <2>3. PICK es : es = <<e>>
      OBVIOUS
    <2>4. Call(es)
      BY <1>5, <2>2, <2>3 DEF Error
    <2>5. e \in Callbacks /\ e.cb = "error" /\ SoundCallback(e)'
      BY <2>2 DEF Callbacks, SoundCallback
    <2>6. es \in Seq(Callbacks) /\ Len(es) = 1 /\ es[1] = e
      BY <2>3, <2>5
    <2>7. \A k \in 1..Len(es) : SoundCallback(es[k])' /\ es[k].cb \notin {"nextValidId", "end"}
      BY <2>5, <2>6
    <2> QED BY <1>3, <2>1, <2>4, <2>6, <2>7, CallsAreHeard
  <1> QED BY <1>2, <1>4, <1>5 DEF AnswerCancel

(* What IBKR lists it has.                                                  *)
ListsSoundly(es, r) ==
    /\ es \in Seq(Callbacks)
    /\ \A k \in 1..Len(es) : SoundCallback(es[k]) /\ es[k].cb # "nextValidId"
    /\ \A k \in 1..Len(es) : es[k].cb = "end" /\ es[k].kind = "EXECUTIONS" =>
          /\ es[k].request = r.request
          /\ \A x \in Made : \E j \in 1..(k - 1) :
                es[j].cb = "execDetails" /\ es[j].execution = x /\ es[j].request = r.request

LEMMA HeldFacts ==
    ASSUME OrdersAreNumbered, BridgeTypes, IbkrSound
    PROVE  /\ \A states : IsFiniteSet({i \in HeldOrders : ibkr[i].state \in states})
           /\ IsFiniteSet(Made)
           /\ \A i \in HeldOrders :
                 /\ i \in OrderIds /\ Kept(i) /\ ibkr[i].ref \in ClientOrders
                 /\ ibkr[i].filled \in Nat /\ ibkr[i].filled <= OrderLots
                 /\ OpenOrder(i) \in Callbacks /\ SoundCallback(OpenOrder(i))
                 /\ OpenOrder(i).cb = "openOrder"
  <1>1. IsFiniteSet(OrderIds) /\ OrderLots \in Nat
    BY BridgeFacts DEF OrdersAreNumbered
  <1>2. HeldOrders \subseteq OrderIds /\ Made \subseteq OrderIds \X (1..OrderLots)
    BY DEF HeldOrders, Made, Executions
  <1>3. IsFiniteSet(1..OrderLots)
    BY <1>1, FS_Interval
  <1>4. IsFiniteSet(OrderIds \X (1..OrderLots))
    BY <1>1, <1>3, FS_Product
  <1>5. IsFiniteSet(Made)
    BY <1>2, <1>4, FS_Subset
  <1>6. ASSUME NEW states
        PROVE  IsFiniteSet({i \in HeldOrders : ibkr[i].state \in states})
    <2>1. {i \in HeldOrders : ibkr[i].state \in states} \subseteq OrderIds
      BY <1>2
    <2> QED BY <1>1, <2>1, FS_Subset
  <1>7. ASSUME NEW i \in HeldOrders
        PROVE  /\ i \in OrderIds /\ Kept(i) /\ ibkr[i].ref \in ClientOrders
               /\ ibkr[i].filled \in Nat /\ ibkr[i].filled <= OrderLots
               /\ OpenOrder(i) \in Callbacks /\ SoundCallback(OpenOrder(i))
               /\ OpenOrder(i).cb = "openOrder"
    <2>1. i \in OrderIds /\ Kept(i)
      BY DEF HeldOrders, Kept
    <2>2. /\ ibkr[i].ref \in ClientOrders
          /\ ibkr[i].filled \in Nat /\ ibkr[i].filled <= OrderLots
      BY <2>1, IbkrFacts DEF Kept
    <2>3. ibkr[i].state \in {"WORKING", "FILLED", "CANCELLED", "REJECTED"}
      BY <2>1 DEF BridgeTypes, IbkrOrders, Kept, NoTrace
    <2>4. /\ Text(ibkr[i].state) \in Statuses
          /\ Text(ibkr[i].state) = "Cancelled" => ibkr[i].state = "CANCELLED"
          /\ Text(ibkr[i].state) = "Inactive" => ibkr[i].state = "REJECTED"
      BY <2>3 DEF Text, Statuses
    <2> DEFINE e == OpenOrder(i)
    <2>5. /\ e.cb = "openOrder" /\ e.id = i /\ e.ref = ibkr[i].ref /\ e.status = Text(ibkr[i].state)
          /\ e \in [cb : {"openOrder"}, id : OrderIds, ref : ClientOrders, status : Statuses]
      BY <2>1, <2>2, <2>4 DEF OpenOrder
    <2> HIDE DEF e
    <2>6. e \in Callbacks
      BY <2>5 DEF Callbacks
    <2>7. SoundCallback(e)
      BY <2>1, <2>4, <2>5 DEF SoundCallback, Says
    <2>8. e.cb = "openOrder"
      BY <2>5
    <2> QED BY <2>1, <2>2, <2>6, <2>7, <2>8 DEF e
  <1> QED BY <1>5, <1>6, <1>7

LEMMA EndFacts ==
    ASSUME NEW kind \in Listings, NEW n \in Nat, n <= memo.tasks
    PROVE  /\ End(kind, n) \in Callbacks /\ SoundCallback(End(kind, n))
           /\ End(kind, n).cb = "end" /\ End(kind, n).kind = kind /\ End(kind, n).request = n
           /\ <<End(kind, n)>> \in Seq(Callbacks) /\ Len(<<End(kind, n)>>) = 1
           /\ <<End(kind, n)>>[1] = End(kind, n)
  <1> DEFINE e == End(kind, n)
  <1>1. /\ e.cb = "end" /\ e.kind = kind /\ e.request = n
        /\ e \in [cb : {"end"}, kind : Listings, request : Nat]
    BY DEF End
  <1> HIDE DEF e
  <1>2. e \in Callbacks
    BY <1>1 DEF Callbacks
  <1>3. SoundCallback(e)
    BY <1>1 DEF SoundCallback
  <1> QED BY <1>1, <1>2, <1>3 DEF e

LEMMA ListingEnded ==
    ASSUME OrdersAreNumbered, BridgeTypes, NEW r, r.kind \in {"OPEN", "COMPLETED"},
           r.request \in Nat, r.request <= memo.tasks,
           NEW s \in Seq(Callbacks),
           \A k \in 1..Len(s) : SoundCallback(s[k]) /\ s[k].cb \notin {"nextValidId", "end"}
    PROVE  ListsSoundly(s \o <<End(r.kind, r.request)>>, r)
  <1> DEFINE e == End(r.kind, r.request)
             es == s \o <<e>>
  <1>1. /\ e \in Callbacks /\ SoundCallback(e) /\ e.cb = "end" /\ e.kind # "EXECUTIONS"
        /\ <<e>> \in Seq(Callbacks) /\ Len(<<e>>) = 1 /\ <<e>>[1] = e
    BY EndFacts DEF Listings
  <1> HIDE DEF e
  <1>2. /\ es \in Seq(Callbacks)
        /\ \A k \in 1..Len(es) :
              \/ k \in 1..Len(s) /\ es[k] = s[k]
              \/ \E j \in 1..Len(<<e>>) : k = Len(s) + j /\ es[k] = <<e>>[j]
    BY <1>1, Joined
  <1> HIDE DEF es
  <1>3. ASSUME NEW k \in 1..Len(es)
        PROVE  SoundCallback(es[k]) /\ es[k].cb # "nextValidId"
               /\ ~(es[k].cb = "end" /\ es[k].kind = "EXECUTIONS")
    <2>1. CASE k \in 1..Len(s) /\ es[k] = s[k]
      BY <2>1
    <2>2. CASE es[k] = e
      BY <1>1, <2>2
    <2>3. 1..Len(<<e>>) = {1}
      BY <1>1
    <2> QED BY <1>1, <1>2, <2>1, <2>2, <2>3
  <1> QED BY <1>2, <1>3 DEF ListsSoundly, es, e

LEMMA OpenListing ==
    ASSUME OrdersAreNumbered, BridgeTypes, IbkrSound, NEW r, r.kind = "OPEN",
           r.request \in Nat, r.request <= memo.tasks, NEW es \in Listing(r)
    PROVE  ListsSoundly(es, r)
  <1> DEFINE S == {i \in HeldOrders : ibkr[i].state \in {"WORKING"}}
             Line(i, n) ==
                IF n % 2 = 1 THEN OpenOrder(i) ELSE Status(i, "Submitted", ibkr[i].filled)
             Lines(w) == [n \in 1..(2 * Len(w)) |->
                            LET i == w[(n + 1) \div 2]
                            IN  IF n % 2 = 1 THEN OpenOrder(i) ELSE Status(i, "Submitted", ibkr[i].filled)]
  <1>1. PICK w \in OrdersIn({"WORKING"}) : es = Lines(w) \o <<End(r.kind, r.request)>>
    BY DEF Listing
  <1>2. w \in SetToSeqs(S) /\ IsFiniteSet(S)
    BY HeldFacts DEF OrdersIn, Arranged
  <1>3. Len(w) \in Nat /\ \A k \in 1..Len(w) : w[k] \in S
    BY <1>2, ListingsAreWhole
  <1>4. ASSUME NEW i \in S
        PROVE  /\ OpenOrder(i) \in Callbacks /\ SoundCallback(OpenOrder(i))
               /\ OpenOrder(i).cb = "openOrder"
    BY HeldFacts
  <1>5. ASSUME NEW i \in S
        PROVE  /\ Status(i, "Submitted", ibkr[i].filled) \in Callbacks
               /\ SoundCallback(Status(i, "Submitted", ibkr[i].filled))
               /\ Status(i, "Submitted", ibkr[i].filled).cb = "orderStatus"
    <2> DEFINE e == Status(i, "Submitted", ibkr[i].filled)
    <2>1. i \in OrderIds /\ Kept(i) /\ ibkr[i].filled \in Nat /\ ibkr[i].filled <= OrderLots
      BY HeldFacts
    <2>2. /\ e.cb = "orderStatus" /\ e.id = i /\ e.status = "Submitted"
          /\ e.filled = ibkr[i].filled
          /\ e \in [cb : {"orderStatus"}, id : OrderIds, status : Statuses, filled : Nat]
      BY <2>1 DEF Status, Statuses
    <2> HIDE DEF e
    <2>3. e \in Callbacks
      BY <2>2 DEF Callbacks
    <2>4. SoundCallback(e)
      BY <2>1, <2>2 DEF SoundCallback, Says
    <2> QED BY <2>2, <2>3, <2>4 DEF e
  <1>6. ASSUME NEW n \in 1..(2 * Len(w))
        PROVE  /\ Lines(w)[n] \in Callbacks /\ SoundCallback(Lines(w)[n])
               /\ Lines(w)[n].cb \notin {"nextValidId", "end"}
    <2>1. (n + 1) \div 2 \in 1..Len(w)
      BY <1>3
    <2>2. PICK i \in S : i = w[(n + 1) \div 2]
      BY <1>3, <2>1
    <2>3. Lines(w)[n] \in {OpenOrder(i), Status(i, "Submitted", ibkr[i].filled)}
      BY <2>2
    <2>4. CASE Lines(w)[n] = OpenOrder(i)
      BY <1>4, <2>4
    <2>5. CASE Lines(w)[n] = Status(i, "Submitted", ibkr[i].filled)
      BY <1>5, <2>5
    <2> QED BY <2>3, <2>4, <2>5
  <1>7. PICK s : s = Lines(w)
    OBVIOUS
  <1>8. Len(s) = 2 * Len(w) /\ s \in Seq(Callbacks)
    <2>1. DOMAIN s = 1..(2 * Len(w)) /\ 2 * Len(w) \in Nat
      BY <1>3, <1>7
    <2>2. \A n \in 1..(2 * Len(w)) : s[n] \in Callbacks
      BY <1>6, <1>7
    <2>3. s = [n \in 1..(2 * Len(w)) |-> s[n]]
      BY <1>7
    <2>4. s \in [1..(2 * Len(w)) -> Callbacks]
      BY <2>1, <2>2, <2>3
    <2> QED BY <2>1, <2>4
  <1>9. \A k \in 1..Len(s) : SoundCallback(s[k]) /\ s[k].cb \notin {"nextValidId", "end"}
    BY <1>6, <1>7, <1>8
  <1>10. ListsSoundly(s \o <<End(r.kind, r.request)>>, r)
    BY <1>8, <1>9, ListingEnded
  <1> QED BY <1>1, <1>7, <1>10

LEMMA CompletedListing ==
    ASSUME OrdersAreNumbered, BridgeTypes, IbkrSound, NEW r, r.kind = "COMPLETED",
           r.request \in Nat, r.request <= memo.tasks, NEW es \in Listing(r)
    PROVE  ListsSoundly(es, r)
  <1> DEFINE S == {i \in HeldOrders : ibkr[i].state \in {"CANCELLED", "FILLED"}}
             Lines(w) == [n \in 1..Len(w) |-> OpenOrder(w[n])]
  <1>1. PICK w \in OrdersIn({"CANCELLED", "FILLED"}) :
           es = Lines(w) \o <<End(r.kind, r.request)>>
    BY DEF Listing
  <1>2. w \in SetToSeqs(S) /\ IsFiniteSet(S)
    BY HeldFacts DEF OrdersIn, Arranged
  <1>3. Len(w) \in Nat /\ \A k \in 1..Len(w) : w[k] \in S
    BY <1>2, ListingsAreWhole
  <1>4. ASSUME NEW i \in S
        PROVE  /\ OpenOrder(i) \in Callbacks /\ SoundCallback(OpenOrder(i))
               /\ OpenOrder(i).cb = "openOrder"
    BY HeldFacts
  <1>5. PICK s : s = Lines(w)
    OBVIOUS
  <1>6. ASSUME NEW n \in 1..Len(w)
        PROVE  /\ s[n] \in Callbacks /\ SoundCallback(s[n])
               /\ s[n].cb \notin {"nextValidId", "end"}
    <2>1. PICK i \in S : i = w[n]
      BY <1>3
    <2>2. s[n] = OpenOrder(i)
      BY <1>5, <2>1
    <2> QED BY <1>4, <2>2
  <1>7. Len(s) = Len(w) /\ s \in Seq(Callbacks)
    <2>1. s = [n \in 1..Len(w) |-> s[n]]
      BY <1>5
    <2>2. s \in [1..Len(w) -> Callbacks]
      BY <1>6, <2>1
    <2> QED BY <1>3, <2>2
  <1>8. \A k \in 1..Len(s) : SoundCallback(s[k]) /\ s[k].cb \notin {"nextValidId", "end"}
    BY <1>6, <1>7
  <1>9. ListsSoundly(s \o <<End(r.kind, r.request)>>, r)
    BY <1>7, <1>8, ListingEnded
  <1> QED BY <1>1, <1>5, <1>9

LEMMA ExecutionsListing ==
    ASSUME OrdersAreNumbered, BridgeTypes, IbkrSound, NEW r, r.kind = "EXECUTIONS",
           r.request \in Nat, r.request <= memo.tasks, NEW es \in Listing(r)
    PROVE  ListsSoundly(es, r)
  <1> DEFINE InOrder(x, y) == x[1] < y[1] \/ (x[1] = y[1] /\ x[2] < y[2])
             AllDetails(w) == [n \in 1..Len(w) |-> Details(w[n], r.request)]
             AllFees(w) == [n \in 1..Len(w) |-> Commission(w[n])]
             e == End(r.kind, r.request)
  <1>1. \E w \in SetToSeqs(Made) : es = (AllDetails(w) \o <<e>>) \o AllFees(w)
    BY DEF Listing, Arranged
  <1>2. PICK w \in SetToSeqs(Made) : es = (AllDetails(w) \o <<e>>) \o AllFees(w)
    BY <1>1
  <1>3. IsFiniteSet(Made)
    BY HeldFacts
  <1>4. /\ Len(w) \in Nat /\ \A k \in 1..Len(w) : w[k] \in Made
        /\ \A x \in Made : \E k \in 1..Len(w) : w[k] = x
    BY <1>3, ListingsAreWhole
  <1>5. ASSUME NEW x \in Made
        PROVE  /\ Details(x, r.request) \in Callbacks /\ SoundCallback(Details(x, r.request))
               /\ Details(x, r.request).cb = "execDetails"
               /\ Details(x, r.request).execution = x /\ Details(x, r.request).request = r.request
               /\ Commission(x) \in Callbacks /\ SoundCallback(Commission(x))
               /\ Commission(x).cb = "commissionReport"
    <2> DEFINE d == Details(x, r.request)
               f == Commission(x)
    <2>1. x \in OrderIds \X Nat /\ ibkr[x[1]].ref \in ClientOrders
      BY MadeFacts
    <2>2. /\ d.cb = "execDetails" /\ d.execution = x /\ d.ref = ibkr[x[1]].ref
          /\ d.request = r.request
          /\ d \in [cb : {"execDetails"}, execution : OrderIds \X Nat, ref : ClientOrders,
                    request : Nat]
      BY <2>1 DEF Details
    <2>3. /\ f.cb = "commissionReport" /\ f.execution = x /\ f.ref = ibkr[x[1]].ref
          /\ f \in [cb : {"commissionReport"}, execution : OrderIds \X Nat, ref : ClientOrders]
      BY <2>1 DEF Commission
    <2> HIDE DEF d, f
    <2>4. d \in Callbacks /\ f \in Callbacks
      BY <2>2, <2>3 DEF Callbacks
    <2>5. SoundCallback(d)
      BY <2>2 DEF SoundCallback
    <2>6. SoundCallback(f)
      BY <2>3 DEF SoundCallback
    <2> QED BY <2>2, <2>3, <2>4, <2>5, <2>6 DEF d, f
  <1>6. /\ e \in Callbacks /\ SoundCallback(e) /\ e.cb = "end" /\ e.request = r.request
        /\ <<e>> \in Seq(Callbacks) /\ Len(<<e>>) = 1 /\ <<e>>[1] = e
    BY EndFacts DEF Listings
  <1>7. PICK s : s = AllDetails(w)
    OBVIOUS
  <1>8. PICK t : t = AllFees(w)
    OBVIOUS
  <1>9. ASSUME NEW n \in 1..Len(w)
        PROVE  /\ s[n] = Details(w[n], r.request) /\ s[n] \in Callbacks
               /\ t[n] = Commission(w[n]) /\ t[n] \in Callbacks
    BY <1>4, <1>5, <1>7, <1>8
  <1>10. s \in Seq(Callbacks) /\ t \in Seq(Callbacks) /\ Len(s) = Len(w) /\ Len(t) = Len(w)
    <2>1. s = [n \in 1..Len(w) |-> s[n]] /\ t = [n \in 1..Len(w) |-> t[n]]
      BY <1>7, <1>8
    <2>2. s \in [1..Len(w) -> Callbacks] /\ t \in [1..Len(w) -> Callbacks]
      BY <1>9, <2>1
    <2> QED BY <1>4, <2>2
  <1> HIDE DEF e, AllDetails, AllFees
  <1>11. PICK first : first = s \o <<e>>
    OBVIOUS
  <1>12. /\ first \in Seq(Callbacks) /\ Len(first) = Len(w) + 1
         /\ \A k \in 1..Len(w) : first[k] = s[k]
         /\ first[Len(w) + 1] = e
    <2>1. /\ s \o <<e>> \in Seq(Callbacks) /\ Len(s \o <<e>>) = Len(s) + Len(<<e>>)
          /\ \A k \in 1..Len(s) : (s \o <<e>>)[k] = s[k]
          /\ \A k \in 1..Len(<<e>>) : (s \o <<e>>)[Len(s) + k] = <<e>>[k]
      BY <1>6, <1>10, Joined
    <2>2. 1 \in 1..Len(<<e>>)
      BY <1>6
    <2>3. first[Len(w) + 1] = e
      BY <1>6, <1>10, <1>11, <2>1, <2>2
    <2> QED BY <1>6, <1>10, <1>11, <2>1, <2>3
  <1>13. es = first \o t
    BY <1>2, <1>7, <1>8, <1>11
  <1>14. /\ es \in Seq(Callbacks) /\ Len(es) = Len(first) + Len(t)
         /\ \A k \in 1..Len(first) : es[k] = first[k]
         /\ \A k \in 1..Len(es) :
                 \/ k \in 1..Len(first) /\ es[k] = first[k]
                 \/ \E j \in 1..Len(t) : k = Len(first) + j /\ es[k] = t[j]
    <2>1. /\ first \o t \in Seq(Callbacks) /\ Len(first \o t) = Len(first) + Len(t)
          /\ \A k \in 1..Len(first) : (first \o t)[k] = first[k]
          /\ \A k \in 1..Len(first \o t) :
                 \/ k \in 1..Len(first) /\ (first \o t)[k] = first[k]
                 \/ \E j \in 1..Len(t) : k = Len(first) + j /\ (first \o t)[k] = t[j]
      <3>1. first \in Seq(Callbacks) /\ t \in Seq(Callbacks)
        BY <1>10, <1>12
      <3> QED BY <3>1, Joined
    <2> QED BY <1>13, <2>1
  <1>15. ASSUME NEW k \in 1..Len(es)
         PROVE  \/ k \in 1..Len(w) /\ es[k] = Details(w[k], r.request)
                \/ k = Len(w) + 1 /\ es[k] = e
                \/ \E j \in 1..Len(w) : es[k] = Commission(w[j])
    <2>1. CASE k \in 1..Len(first) /\ es[k] = first[k]
      <3>1. CASE k = Len(w) + 1
        BY <1>12, <2>1, <3>1
      <3>2. CASE k \in 1..Len(w)
        BY <1>9, <1>12, <2>1, <3>2
      <3> QED BY <1>4, <1>12, <2>1, <3>1, <3>2
    <2>2. CASE \E j \in 1..Len(t) : k = Len(first) + j /\ es[k] = t[j]
      BY <1>9, <1>10, <2>2
    <2> QED BY <1>14, <2>1, <2>2
  <1>16. ASSUME NEW k \in 1..Len(es)
         PROVE  /\ SoundCallback(es[k]) /\ es[k].cb # "nextValidId"
                /\ es[k].cb = "end" => k = Len(w) + 1 /\ es[k] = e
    <2>1. CASE k \in 1..Len(w) /\ es[k] = Details(w[k], r.request)
      BY <1>4, <1>5, <2>1
    <2>2. CASE k = Len(w) + 1 /\ es[k] = e
      BY <1>6, <2>2
    <2>3. CASE \E j \in 1..Len(w) : es[k] = Commission(w[j])
      BY <1>4, <1>5, <2>3
    <2> QED BY <1>15, <2>1, <2>2, <2>3
  <1>17. ASSUME NEW x \in Made
         PROVE  \E j \in 1..Len(w) :
                   es[j].cb = "execDetails" /\ es[j].execution = x /\ es[j].request = r.request
    <2>1. PICK j \in 1..Len(w) : w[j] = x
      BY <1>4
    <2>2. j \in 1..Len(first)
      BY <1>4, <1>12
    <2>3. es[j] = Details(x, r.request)
      BY <1>9, <1>12, <1>14, <2>1, <2>2
    <2> QED BY <1>5, <2>3
  <1>18. (Len(w) + 1) - 1 = Len(w)
    BY <1>4
  <1> QED BY <1>6, <1>14, <1>16, <1>17, <1>18 DEF ListsSoundly

LEMMA AnswerListingStep ==
    ASSUME OrdersAreNumbered, BridgeInvariant, session' = session,
           NEW r \in asked, AnswerListing(r)
    PROVE  BridgeInvariant'
  <1>1. BridgeTypes /\ IbkrSound /\ RefreshSound /\ asked' \subseteq asked
        /\ UNCHANGED <<session, ibkr, bridge, task, memo>>
    BY DEF BridgeInvariant, AnswerListing
  <1>2. r.kind \in Listings /\ r.kind # "CANCEL"
    BY DEF AnswerListing, Listings
  <1>3. r.request \in Nat /\ r.request <= memo.tasks /\ task.op # "CONNECT"
    BY <1>1, <1>2 DEF RefreshSound, BridgeTypes, Asks, Listings
  <1>4. PICK es \in Listing(r) : Call(es)
    BY DEF AnswerListing
  <1>5. ListsSoundly(es, r)
    <2>1. r.kind \in {"OPEN", "COMPLETED", "EXECUTIONS"}
      BY <1>2 DEF Listings
    <2> QED BY <1>1, <1>3, <2>1, OpenListing, CompletedListing, ExecutionsListing
  <1>6. Advances /\ ibkr' \in [OrderIds -> IbkrOrders] /\ IbkrSound'
    BY <1>1, NothingMoves
  <1>7. ASSUME NEW k \in 1..Len(es)
        PROVE  SoundCallback(es[k])' /\ es[k].cb # "nextValidId"
    <2>1. PICK e : e = es[k]
      OBVIOUS
    <2>2. e \in Callbacks /\ SoundCallback(e) /\ e.cb # "nextValidId"
      BY <1>5, <2>1 DEF ListsSoundly
    <2>3. memo' \in Histories /\ memo.tasks <= memo'.tasks
      BY <1>1 DEF BridgeTypes, Histories
    <2>4. SoundCallback(e)'
      BY <1>1, <1>6, <2>2, <2>3, CallbackStands
    <2> QED BY <2>1, <2>2, <2>4
  <1>8. ASSUME Refreshing, NEW k \in 1..Len(es), EndsRefresh(es[k])
        PROVE  \A x \in MadeBefore : \E j \in 1..(k - 1) : Shows(es[j], x)
    <2>1. MadeBefore \subseteq Made
      BY <1>1, <1>8 DEF RefreshSound
    <2>2. es[k].cb = "end" /\ es[k].kind = "EXECUTIONS" /\ es[k].request = task.request
      BY <1>8 DEF EndsRefresh
    <2>3. \A x \in Made : \E j \in 1..(k - 1) :
                es[j].cb = "execDetails" /\ es[j].execution = x /\ es[j].request = task.request
      BY <1>5, <2>2 DEF ListsSoundly
    <2> QED BY <2>1, <2>3 DEF Shows
  <1>9. es \in Seq(Callbacks)
    BY <1>5 DEF ListsSoundly
  <1> QED BY <1>1, <1>3, <1>4, <1>6, <1>7, <1>8, <1>9, IbkrSpeaks

-----------------------------------------------------------------------------
(* The events put, and the cancellations among them that failed.            *)
LEMMA FailedAreCounted ==
    ASSUME BridgeTypes
    PROVE  /\ Len(bridge.events) \in Nat
           /\ \A c \in ClientOrders :
                 /\ Failed(c) \subseteq 1..Len(bridge.events) /\ IsFiniteSet(Failed(c))
                 /\ Cardinality(Failed(c)) \in Nat /\ memo.cancels[c] \in Nat
  <1>1. Len(bridge.events) \in Nat
    BY DEF BridgeTypes, Memories
  <1>2. ASSUME NEW c \in ClientOrders
        PROVE  /\ Failed(c) \subseteq 1..Len(bridge.events) /\ IsFiniteSet(Failed(c))
               /\ Cardinality(Failed(c)) \in Nat /\ memo.cancels[c] \in Nat
    <2>1. Failed(c) \subseteq 1..Len(bridge.events)
      BY DEF Failed
    <2>2. IsFiniteSet(1..Len(bridge.events))
      BY <1>1, FS_Interval
    <2>3. IsFiniteSet(Failed(c))
      BY <2>1, <2>2, FS_Subset
    <2>4. Cardinality(Failed(c)) \in Nat
      BY <2>3, FS_CardinalityType
    <2> QED BY <2>1, <2>3, <2>4 DEF BridgeTypes, Histories
  <1> QED BY <1>1, <1>2

LEMMA FailuresAreAdded ==
    ASSUME BridgeTypes, NEW v \in Reports, bridge'.events = Append(bridge.events, v),
           NEW c \in ClientOrders
    PROVE  /\ Len(bridge'.events) = Len(bridge.events) + 1
           /\ \A n \in 1..Len(bridge.events) : bridge'.events[n] = bridge.events[n]
           /\ bridge'.events[Len(bridge.events) + 1] = v
           /\ Cardinality(Failed(c)') =
                 Cardinality(Failed(c)) + (IF v.ref = c /\ v.type = "CANCEL_REJECTED" THEN 1 ELSE 0)
  <1> DEFINE old == bridge.events
             n == Len(old)
             new == Append(old, v)
  <1>1. old \in Seq(Reports) /\ n \in Nat
    BY DEF BridgeTypes, Memories
  <1> HIDE DEF old
  <1>2. /\ Len(new) = n + 1 /\ new[n + 1] = v /\ \A k \in 1..n : new[k] = old[k]
    BY <1>1
  <1>3. Failed(c) = {k \in 1..n : old[k].ref = c /\ old[k].type = "CANCEL_REJECTED"}
    BY DEF Failed, old
  <1>4. Failed(c)' = {k \in 1..Len(new) : new[k].ref = c /\ new[k].type = "CANCEL_REJECTED"}
    BY DEF Failed, old
  <1> HIDE DEF new
  <1>5. Cardinality(Failed(c)) \in Nat /\ IsFiniteSet(Failed(c)) /\ n + 1 \notin Failed(c)
    <2>1. Cardinality(Failed(c)) \in Nat /\ IsFiniteSet(Failed(c))
      BY FailedAreCounted
    <2>2. Failed(c) \subseteq 1..n /\ n + 1 \notin 1..n
      BY <1>1, <1>3
    <2> QED BY <2>1, <2>2
  <1>6. CASE v.ref = c /\ v.type = "CANCEL_REJECTED"
    <2>1. Failed(c)' = Failed(c) \union {n + 1}
      BY <1>1, <1>2, <1>3, <1>4, <1>6
    <2>2. Cardinality(Failed(c) \union {n + 1}) = Cardinality(Failed(c)) + 1
      BY <1>5, FS_AddElement
    <2> QED BY <1>2, <1>6, <2>1, <2>2 DEF old, new
  <1>7. CASE ~(v.ref = c /\ v.type = "CANCEL_REJECTED")
    <2>1. Failed(c)' = Failed(c)
      BY <1>1, <1>2, <1>3, <1>4, <1>7
    <2> QED BY <1>2, <1>5, <1>7, <2>1 DEF old, new
  <1> QED BY <1>6, <1>7

(* Nothing is put.                                                          *)
LEMMA EventsStand ==
    ASSUME BridgeTypes, CancelsOwed, ReportedOnce, bridge'.events = bridge.events,
           bridge'.reported = bridge.reported, bridge'.details = bridge.details,
           bridge'.fees = bridge.fees, memo'.cancels = memo.cancels,
           \A c \in ClientOrders : Owed(c)' \in Nat /\ Owed(c)' <= Owed(c)
    PROVE  CancelsOwed' /\ ReportedOnce'
  <1>1. ReportedOnce'
    BY DEF ReportedOnce
  <1>2. ASSUME NEW c \in ClientOrders
        PROVE  Cardinality(Failed(c)') + Owed(c)' <= memo'.cancels[c]
    <2>1. Failed(c)' = Failed(c)
      BY DEF Failed
    <2>2. Cardinality(Failed(c)) \in Nat /\ memo.cancels[c] \in Nat
      BY FailedAreCounted
    <2>3. Cardinality(Failed(c)) + Owed(c) <= memo.cancels[c]
      BY DEF CancelsOwed
    <2>4. Owed(c) \in Nat
      BY DEF Owed
    <2> QED BY <2>1, <2>2, <2>3, <2>4
  <1> QED BY <1>1, <1>2 DEF CancelsOwed

-----------------------------------------------------------------------------
(* A connection ends.                                                       *)
LEMMA DisconnectedFacts ==
    ASSUME OrdersAreNumbered, BridgeTypes, IbkrSound, session' = session, Disconnected,
           memo'.life \in Nat, memo.life <= memo'.life
    PROVE  /\ Advances /\ ibkr' \in [OrderIds -> IbkrOrders] /\ IbkrSound'
           /\ asked' \subseteq Asks /\ \A r \in asked' : r.kind = "CANCEL"
  <1>1. PICK lost \in SUBSET {i \in OrderIds : ibkr[i].state = "SENT"} :
           ibkr' = [i \in OrderIds |-> IF i \in lost THEN NoTrace ELSE ibkr[i]]
    BY DEF Disconnected
  <1>2. asked' \subseteq Asks /\ \A r \in asked' : r.kind = "CANCEL"
    BY DEF Disconnected, BridgeTypes
  <1>3. \A i \in OrderIds :
           /\ ibkr[i] \in IbkrOrders /\ ibkr[i].filled \in Nat /\ ibkr[i].life \in Nat
           /\ SoundOrder(ibkr[i])
           /\ \/ ibkr'[i] = ibkr[i]
              \/ ibkr'[i] = NoTrace /\ ibkr[i].state = "SENT"
    BY <1>1, IbkrFacts DEF BridgeTypes, IbkrSound
  <1>4. ibkr' \in [OrderIds -> IbkrOrders]
    BY <1>1, <1>3 DEF IbkrOrders
  <1>5. ASSUME NEW i \in OrderIds
        PROVE  /\ Kept(i) =>
                     /\ ibkr'[i].state \notin {"NONE", "SENT"}
                     /\ ibkr[i].filled <= ibkr'[i].filled
                     /\ ibkr'[i].ref = ibkr[i].ref /\ ibkr'[i].life = ibkr[i].life
                     /\ ibkr[i].state \in {"CANCELLED", "REJECTED"} =>
                           ibkr'[i].state = ibkr[i].state
               /\ ibkr'[i] # NoTrace =>
                     /\ ibkr[i] # NoTrace /\ ibkr'[i].ref = ibkr[i].ref
                     /\ ibkr'[i].life = ibkr[i].life
    <2>1. CASE ibkr'[i] = ibkr[i]
      <3>1. ibkr[i].filled <= ibkr[i].filled
        BY <1>3
      <3> QED BY <2>1, <3>1 DEF Kept
    <2>2. CASE ibkr'[i] = NoTrace /\ ibkr[i].state = "SENT"
      BY <2>2 DEF Kept
    <2> QED BY <1>3, <2>1, <2>2
  <1>6. Advances
    BY <1>5 DEF Advances
  <1>7. ASSUME NEW i \in OrderIds
        PROVE  SoundOrder(ibkr[i])' /\ memo.life \in Nat
    <2>1. OrderLots' = OrderLots /\ OrderLots \in Nat \ {0} /\ memo.life \in Nat
      BY BridgeFacts DEF OrderLots, BridgeTypes, Histories
    <2>2. CASE ibkr'[i] = ibkr[i]
      <3>1. ibkr[i].life <= memo'.life
        BY <1>3, <2>1 DEF SoundOrder
      <3> QED BY <1>3, <2>1, <2>2, <3>1 DEF SoundOrder
    <2>3. CASE ibkr'[i] = NoTrace
      BY <2>1, <2>3 DEF SoundOrder, NoTrace
    <2> QED BY <1>3, <2>1, <2>2, <2>3
  <1>8. IbkrSound'
    BY <1>7 DEF IbkrSound
  <1> QED BY <1>2, <1>4, <1>6, <1>8

LEMMA LoseConnectionStep ==
    ASSUME OrdersAreNumbered, BridgeInvariant, session' = session, LoseConnection
    PROVE  BridgeInvariant'
  <1>1. /\ BridgeTypes /\ IbkrSound /\ Numbered /\ RefreshSound
        /\ ReportedOnce /\ CancelsOwed
    BY DEF BridgeInvariant
  <1>2. /\ Disconnected /\ wire' = <<>> /\ task' = task
        /\ bridge' = [bridge EXCEPT !.socket = FALSE, !.ready = FALSE]
        /\ memo' = [memo EXCEPT !.lossy = TRUE]
    BY DEF LoseConnection
  <1>3. memo' \in Histories /\ bridge' \in Memories
    BY <1>1, <1>2 DEF BridgeTypes, Histories, Memories
  <1>4. /\ memo'.life = memo.life /\ memo'.rejected = memo.rejected
        /\ memo'.attested = memo.attested /\ memo'.cancels = memo.cancels
        /\ memo'.tasks = memo.tasks /\ memo.life \in Nat
    BY <1>1, <1>2 DEF BridgeTypes, Histories
  <1>5. /\ bridge'.socket = FALSE /\ bridge'.ready = FALSE
        /\ bridge'.refOf = bridge.refOf /\ bridge'.idOf = bridge.idOf
        /\ bridge'.orders = bridge.orders /\ bridge'.details = bridge.details
        /\ bridge'.fees = bridge.fees /\ bridge'.seen = bridge.seen
        /\ bridge'.reported = bridge.reported /\ bridge'.events = bridge.events
        /\ bridge'.cancelling = bridge.cancelling /\ bridge'.done = bridge.done
        /\ bridge'.execRequest = bridge.execRequest
    BY <1>1, <1>2 DEF BridgeTypes, Memories
  <1>6. /\ Advances /\ ibkr' \in [OrderIds -> IbkrOrders] /\ IbkrSound'
        /\ asked' \subseteq Asks /\ \A r \in asked' : r.kind = "CANCEL"
    BY <1>1, <1>2, <1>4, DisconnectedFacts
  <1>7. MemorySound' /\ PlacedOnce' /\ AnswersStand'
    BY <1>4, <1>5, <1>6, MemoryStands DEF SameMemory
  <1>8. CancelsOwed' /\ ReportedOnce'
    <2>1. \A c \in ClientOrders : Owed(c)' \in Nat /\ Owed(c)' <= Owed(c)
      BY <1>2, <1>5 DEF Owed
    <2> QED BY <1>1, <1>4, <1>5, <2>1, EventsStand
  <1>9. BridgeTypes'
    BY <1>1, <1>2, <1>3, <1>6 DEF BridgeTypes
  <1>10. WireSound' /\ Numbered'
    BY <1>2, <1>5 DEF WireSound, Numbered, Greeted, GreetingFirst
  <1>11. RefreshSound'
    <2>1. MadeBefore' = MadeBefore /\ Made \subseteq Made'
      BY <1>1, <1>2, <1>6, OrdersStand DEF MadeBefore, Executions, OrderLots
    <2> QED BY <1>1, <1>2, <1>4, <1>5, <1>6, <2>1 DEF RefreshSound, Refreshing
  <1> QED BY <1>6, <1>7, <1>8, <1>9, <1>10, <1>11 DEF BridgeInvariant

(* The greeting of the new connection is the first that comes.              *)
LEMMA GreetingComes ==
    ASSUME OrdersAreNumbered, ibkr' \in [OrderIds -> IbkrOrders],
           wire' = <<NextValidId(ibkr')>>, ~bridge'.ready, bridge'.socket
    PROVE  /\ wire' \in Seq(Callbacks) /\ WireSound' /\ Numbered'
           /\ \A k \in 1..Len(wire') : wire'[k].cb # "end"
  <1>1. PICK e : e = NextValidId(ibkr')
    OBVIOUS
  <1>2. /\ e \in [cb : {"nextValidId"}, id : NextIds]
        /\ \A i \in OrderIds : ibkr'[i] # NoTrace => i < e.id
    BY <1>1, GreetingIsAbove
  <1>3. e \in Callbacks /\ e.cb = "nextValidId"
    BY <1>2 DEF Callbacks
  <1>4. SoundCallback(e)'
    BY <1>2, <1>3 DEF SoundCallback
  <1>5. wire' = <<e>> /\ Len(wire') = 1 /\ wire'[1] = e /\ wire' \in Seq(Callbacks)
    BY <1>1, <1>3
  <1>6. WireSound'
    BY <1>4, <1>5 DEF WireSound
  <1>7. Numbered'
    BY <1>3, <1>5 DEF Numbered, Greeted, GreetingFirst
  <1> QED BY <1>3, <1>5, <1>6, <1>7

LEMMA BeginReconnectStep ==
    ASSUME OrdersAreNumbered, BridgeInvariant, session' = session, BeginReconnect
    PROVE  BridgeInvariant'
  <1>1. /\ BridgeTypes /\ IbkrSound /\ ReportedOnce /\ CancelsOwed
    BY DEF BridgeInvariant
  <1>2. /\ Disconnected /\ wire' = <<NextValidId(ibkr')>> /\ task = Idle /\ task' = Reconnecting
        /\ bridge' = [bridge EXCEPT !.socket = TRUE, !.ready = FALSE]
        /\ memo' = [[memo EXCEPT !.tasks = @ + 1] EXCEPT !.lossy = TRUE]
    BY DEF BeginReconnect, MayBegin, Begun
  <1>3. memo' \in Histories /\ bridge' \in Memories
    <2>1. memo \in Histories /\ bridge \in Memories
      BY <1>1 DEF BridgeTypes
    <2>2. memo.tasks + 1 \in Nat
      BY <2>1 DEF Histories
    <2>3. memo' = [memo EXCEPT !.tasks = memo.tasks + 1, !.lossy = TRUE]
      BY <1>2
    <2>4. memo' \in Histories
      BY <2>1, <2>2, <2>3 DEF Histories
    <2>5. bridge' \in Memories
      BY <1>2, <2>1 DEF Memories
    <2> QED BY <2>4, <2>5
  <1>4. /\ memo'.life = memo.life /\ memo'.rejected = memo.rejected
        /\ memo'.attested = memo.attested /\ memo'.cancels = memo.cancels /\ memo.life \in Nat
    BY <1>1, <1>2 DEF BridgeTypes, Histories
  <1>5. /\ bridge'.ready = FALSE /\ bridge'.socket = TRUE
        /\ bridge'.refOf = bridge.refOf /\ bridge'.idOf = bridge.idOf
        /\ bridge'.orders = bridge.orders /\ bridge'.details = bridge.details
        /\ bridge'.fees = bridge.fees /\ bridge'.seen = bridge.seen
        /\ bridge'.reported = bridge.reported /\ bridge'.events = bridge.events
        /\ bridge'.cancelling = bridge.cancelling
    BY <1>1, <1>2 DEF BridgeTypes, Memories
  <1>6. /\ Advances /\ ibkr' \in [OrderIds -> IbkrOrders] /\ IbkrSound'
        /\ asked' \subseteq Asks /\ \A r \in asked' : r.kind = "CANCEL"
    BY <1>1, <1>2, <1>4, DisconnectedFacts
  <1>7. MemorySound' /\ PlacedOnce' /\ AnswersStand'
    BY <1>4, <1>5, <1>6, MemoryStands DEF SameMemory
  <1>8. CancelsOwed' /\ ReportedOnce'
    <2>1. \A c \in ClientOrders : Owed(c)' \in Nat /\ Owed(c)' <= Owed(c)
      BY <1>2, <1>5 DEF Owed, Idle, Reconnecting
    <2> QED BY <1>1, <1>4, <1>5, <2>1, EventsStand
  <1>9. /\ wire' \in Seq(Callbacks) /\ WireSound' /\ Numbered'
        /\ \A k \in 1..Len(wire') : wire'[k].cb # "end"
    BY <1>2, <1>5, <1>6, GreetingComes
  <1>10. BridgeTypes'
    BY <1>1, <1>2, <1>3, <1>6, <1>9 DEF BridgeTypes, Tasks
  <1>11. RefreshSound'
    BY <1>2, <1>6, <1>9 DEF RefreshSound, Refreshing, Reconnecting
  <1> QED BY <1>6, <1>7, <1>8, <1>9, <1>10, <1>11 DEF BridgeInvariant

LEMMA RestartBridgeStep ==
    ASSUME OrdersAreNumbered, BridgeInvariant, session' = session, RestartBridge
    PROVE  BridgeInvariant'
  <1>1. /\ BridgeTypes /\ IbkrSound /\ PlacedOnce /\ AnswersStand
    BY DEF BridgeInvariant
  <1>2. /\ Disconnected /\ wire' = <<NextValidId(ibkr')>> /\ task' = Reconnecting
        /\ bridge' = FreshMemory
        /\ memo' = [memo EXCEPT !.life = @ + 1, !.lossy = FALSE, !.over = {}, !.attested = {},
                                !.cancels = [c \in ClientOrders |-> 0]]
    BY DEF RestartBridge
  <1>3. bridge' \in Memories
    <2>1. 0 \in NextIds
      BY FS_CardinalityType DEF OrdersAreNumbered, NextIds
    <2> QED BY <1>2, <2>1 DEF FreshMemory, Memories, ListedOrders, Unlisted
  <1>4. memo' \in Histories
    <2>1. memo \in Histories
      BY <1>1 DEF BridgeTypes
    <2>2. memo.life + 1 \in Nat \ {0} /\ [c \in ClientOrders |-> 0] \in [ClientOrders -> Nat]
      BY <2>1 DEF Histories
    <2>3. memo' = [memo EXCEPT !.life = memo.life + 1, !.lossy = FALSE, !.over = {},
                               !.attested = {}, !.cancels = [c \in ClientOrders |-> 0]]
      BY <1>2
    <2> HIDE <1>2
    <2> QED BY <2>1, <2>2, <2>3 DEF Histories
  <1>5. /\ memo'.life = memo.life + 1 /\ memo'.rejected = memo.rejected
        /\ memo'.attested = {} /\ memo'.cancels = [c \in ClientOrders |-> 0] /\ memo.life \in Nat
        /\ memo'.life \in Nat /\ memo.life <= memo'.life
    BY <1>1, <1>2 DEF BridgeTypes, Histories
  <1>6. /\ bridge'.ready = FALSE /\ bridge'.socket = TRUE
        /\ bridge'.refOf = [i \in OrderIds |-> "none"]
        /\ bridge'.orders = [c \in ClientOrders |-> Unlisted] /\ bridge'.cancelling = {}
        /\ bridge'.details = {} /\ bridge'.fees = {} /\ bridge'.reported = {}
        /\ bridge'.seen = {} /\ bridge'.events = <<>>
    BY <1>2 DEF FreshMemory
  <1>7. /\ Advances /\ ibkr' \in [OrderIds -> IbkrOrders] /\ IbkrSound'
        /\ asked' \subseteq Asks /\ \A r \in asked' : r.kind = "CANCEL"
    BY <1>1, <1>2, <1>5, DisconnectedFacts
  <1>8. /\ PlacedOnce'
        /\ \A p \in memo.rejected :
              \/ Over(p[1])'
              \/ \A i \in OrderIds : ~(ibkr'[i].ref = p[1] /\ ibkr'[i].life = p[2])
    BY <1>1, <1>7, PlacedStands
  <1>9. AnswersStand'
    <2>1. \A p \in memo.rejected : p[2] \in 1..memo'.life
      BY <1>1, <1>5 DEF AnswersStand
    <2> QED BY <1>5, <1>8, <2>1 DEF AnswersStand
  <1>10. MemorySound'
    <2>1. ASSUME NEW i \in OrderIds, ibkr'[i] # NoTrace
          PROVE  ibkr'[i].life # memo'.life
      <3>1. ibkr'[i].life = ibkr[i].life
        BY <1>7, <2>1 DEF Advances
      <3>2. ibkr[i].life \in Nat /\ ibkr[i].life <= memo.life
        BY <1>1, IbkrFacts
      <3> QED BY <1>5, <3>1, <3>2
    <2> QED BY <1>6, <2>1 DEF MemorySound, Unlisted
  <1>11. ReportedOnce'
    BY <1>6 DEF ReportedOnce
  <1>12. CancelsOwed'
    <2>1. ASSUME NEW c \in ClientOrders
          PROVE  Cardinality(Failed(c)') + Owed(c)' <= memo'.cancels[c]
      <3>1. Failed(c)' = {}
        BY <1>6 DEF Failed
      <3>2. Owed(c)' = 0
        BY <1>2, <1>6 DEF Owed, Reconnecting
      <3> QED BY <1>5, <3>1, <3>2, FS_EmptySet
    <2> QED BY <2>1 DEF CancelsOwed
  <1>13. /\ wire' \in Seq(Callbacks) /\ WireSound' /\ Numbered'
         /\ \A k \in 1..Len(wire') : wire'[k].cb # "end"
    BY <1>2, <1>6, <1>7, GreetingComes
  <1>14. BridgeTypes'
    BY <1>1, <1>2, <1>3, <1>4, <1>7, <1>13 DEF BridgeTypes, Tasks
  <1>15. RefreshSound'
    BY <1>2, <1>7, <1>13 DEF RefreshSound, Refreshing, Reconnecting
  <1> QED
    BY <1>7, <1>8, <1>9, <1>10, <1>11, <1>12, <1>13, <1>14, <1>15 DEF BridgeInvariant

-----------------------------------------------------------------------------
(* A callback is taken off the socket, and perhaps comes again.             *)
LEMMA WireShifts ==
    ASSUME BridgeTypes, TakeCallback
    PROVE  /\ wire' \in Seq(Callbacks) /\ Len(wire) \in Nat /\ Len(wire) > 0 /\ wire[1] \in Callbacks
           /\ Len(wire') \in Nat
           /\ \A k \in 1..(Len(wire) - 1) : k \in 1..Len(wire') /\ wire'[k] = wire[k + 1]
           /\ \A k \in 1..Len(wire') :
                 \/ k \in 1..(Len(wire) - 1) /\ wire'[k] = wire[k + 1]
                 \/ wire'[k] = wire[1] /\ wire[1].cb \in {"orderStatus", "error"}
  <1> DEFINE old == wire
             tail == Tail(old)
             e == old[1]
             longer == Append(tail, e)
  <1>1. old \in Seq(Callbacks) /\ old # <<>> /\ Len(old) \in Nat /\ Len(old) > 0
    BY DEF TakeCallback, BridgeTypes
  <1>2. wire' = tail \/ (wire' = longer /\ e.cb \in {"orderStatus", "error"})
    BY DEF TakeCallback
  <1> HIDE DEF old
  <1>3. e \in Callbacks
    BY <1>1
  <1>4. /\ tail \in Seq(Callbacks) /\ Len(tail) = Len(old) - 1
        /\ \A k \in 1..(Len(old) - 1) : tail[k] = old[k + 1]
    BY <1>1
  <1> HIDE DEF tail, e
  <1>5. /\ longer \in Seq(Callbacks) /\ Len(longer) = Len(old) /\ longer[Len(old)] = e
        /\ \A k \in 1..(Len(old) - 1) : longer[k] = tail[k]
    BY <1>1, <1>3, <1>4
  <1> HIDE DEF longer
  <1>6. CASE wire' = tail
    BY <1>1, <1>3, <1>4, <1>6 DEF old, e
  <1>7. CASE wire' = longer /\ e.cb \in {"orderStatus", "error"}
    <2>1. \A k \in 1..(Len(old) - 1) : k \in 1..Len(longer) /\ longer[k] = old[k + 1]
      BY <1>1, <1>4, <1>5
    <2>2. \A k \in 1..Len(longer) : k \in 1..(Len(old) - 1) \/ k = Len(old)
      BY <1>1, <1>5
    <2>3. \A k \in 1..Len(longer) :
               \/ k \in 1..(Len(old) - 1) /\ longer[k] = old[k + 1]
               \/ longer[k] = e
      BY <1>5, <2>1, <2>2
    <2> QED BY <1>1, <1>3, <1>5, <1>7, <2>1, <2>3 DEF old, e
  <1> QED BY <1>2, <1>6, <1>7

(* What was put before stays, and at most one event comes.                  *)
LEMMA EventsTaken ==
    ASSUME BridgeTypes, ReportedOnce, CancelsOwed, TakesEvents(bridge'), task' = task,
           bridge'.reported = bridge'.details \intersect bridge'.fees,
           bridge.reported \subseteq bridge'.reported, memo'.cancels = memo.cancels
    PROVE  ReportedOnce' /\ CancelsOwed'
  <1>1. /\ bridge.events \in Seq(Reports) /\ Len(bridge.events) \in Nat
        /\ bridge.cancelling \subseteq ClientOrders
    BY DEF BridgeTypes, Memories
  <1>2. bridge'.cancelling \subseteq bridge.cancelling
    BY DEF TakesEvents
  <1>3. CASE bridge'.events = bridge.events
    <2>1. ReportedOnce'
      BY <1>3 DEF ReportedOnce
    <2>2. ASSUME NEW c \in ClientOrders
          PROVE  Cardinality(Failed(c)') + Owed(c)' <= memo'.cancels[c]
      <3>1. Failed(c)' = Failed(c)
        BY <1>3 DEF Failed
      <3>2. Cardinality(Failed(c)) \in Nat /\ memo.cancels[c] \in Nat
        BY FailedAreCounted
      <3>3. Cardinality(Failed(c)) + Owed(c) <= memo.cancels[c]
        BY DEF CancelsOwed
      <3>4. Owed(c) \in Nat /\ Owed(c)' \in Nat /\ Owed(c)' <= Owed(c)
        BY <1>2 DEF Owed
      <3> QED BY <3>1, <3>2, <3>3, <3>4
    <2> QED BY <2>1, <2>2 DEF CancelsOwed
  <1>4. CASE bridge'.events # bridge.events
    <2>1. PICK v \in Reports :
             /\ bridge'.events = Append(bridge.events, v)
             /\ v.type = "CANCEL_REJECTED" => v.ref \in bridge.cancelling \ bridge'.cancelling
             /\ v.type = "EXECUTION" => v.execution \in bridge'.reported \ bridge.reported
      BY <1>4 DEF TakesEvents
    <2> DEFINE n == Len(bridge.events)
    <2>2. ASSUME NEW c \in ClientOrders
          PROVE  Cardinality(Failed(c)') + Owed(c)' <= memo'.cancels[c]
      <3>1. Cardinality(Failed(c)') =
              Cardinality(Failed(c)) + (IF v.ref = c /\ v.type = "CANCEL_REJECTED" THEN 1 ELSE 0)
        BY <2>1, FailuresAreAdded
      <3>2. Cardinality(Failed(c)) \in Nat /\ memo.cancels[c] \in Nat
        BY FailedAreCounted
      <3>3. Cardinality(Failed(c)) + Owed(c) <= memo.cancels[c]
        BY DEF CancelsOwed
      <3>4. CASE v.ref = c /\ v.type = "CANCEL_REJECTED"
        <4>1. Owed(c)' \in Nat /\ Owed(c) = Owed(c)' + 1
          BY <2>1, <3>4 DEF Owed
        <4> QED BY <3>1, <3>2, <3>3, <3>4, <4>1
      <3>5. CASE ~(v.ref = c /\ v.type = "CANCEL_REJECTED")
        <4>1. Owed(c) \in Nat /\ Owed(c)' \in Nat /\ Owed(c)' <= Owed(c)
          BY <1>2 DEF Owed
        <4> QED BY <3>1, <3>2, <3>3, <3>5, <4>1
      <3> QED BY <3>4, <3>5
    <2>3. /\ Len(bridge'.events) = n + 1 /\ bridge'.events[n + 1] = v
          /\ \A k \in 1..n : bridge'.events[k] = bridge.events[k]
      <3>1. bridge.events \in Seq(Reports)
        BY <1>1
      <3> QED BY <2>1, <3>1
    <2>4. \A k \in 1..Len(bridge'.events) : k \in 1..n \/ k = n + 1
      BY <1>1, <2>3
    <2> HIDE DEF n
    <2>5. ASSUME NEW k \in 1..Len(bridge'.events), bridge'.events[k].type = "EXECUTION"
          PROVE  /\ bridge'.events[k].execution \in bridge'.reported
                 /\ k \in 1..n => bridge'.events[k].execution \in bridge.reported
                 /\ k = n + 1 => bridge'.events[k].execution \notin bridge.reported
      <3>1. CASE k \in 1..n
        <4>1. bridge'.events[k] = bridge.events[k]
          BY <2>3, <3>1
        <4>2. bridge.events[k].execution \in bridge.reported
          BY <2>5, <3>1, <4>1 DEF ReportedOnce, n
        <4>3. k # n + 1
          BY <1>1, <3>1 DEF n
        <4> QED BY <4>1, <4>2, <4>3
      <3>2. CASE k = n + 1
        <4>1. k \notin 1..n
          BY <1>1, <3>2 DEF n
        <4> QED BY <2>1, <2>3, <2>5, <3>2, <4>1
      <3> QED BY <2>4, <3>1, <3>2
    <2>6. ASSUME NEW j \in 1..Len(bridge'.events), NEW k \in 1..Len(bridge'.events),
                 bridge'.events[j].type = "EXECUTION", bridge'.events[k].type = "EXECUTION",
                 bridge'.events[j].execution = bridge'.events[k].execution
          PROVE  j = k
      <3>1. CASE j \in 1..n /\ k \in 1..n
        <4>1. bridge'.events[j] = bridge.events[j] /\ bridge'.events[k] = bridge.events[k]
          BY <2>3, <3>1
        <4> QED BY <2>6, <3>1, <4>1 DEF ReportedOnce, n
      <3>2. CASE j = n + 1 /\ k = n + 1
        BY <3>2
      <3> QED BY <2>4, <2>5, <2>6, <3>1, <3>2
    <2>7. ReportedOnce'
      BY <2>5, <2>6 DEF ReportedOnce
    <2> QED BY <2>2, <2>7 DEF CancelsOwed
  <1> QED BY <1>3, <1>4

LEMMA TakeCallbackStep ==
    ASSUME OrdersAreNumbered, BridgeInvariant, session' = session, TakeCallback
    PROVE  BridgeInvariant'
  <1>1. /\ BridgeTypes /\ IbkrSound /\ WireSound /\ Numbered /\ MemorySound /\ PlacedOnce
        /\ ReportedOnce /\ CancelsOwed /\ RefreshSound /\ AnswersStand
    BY DEF BridgeInvariant
  <1>2. PICK e : e = wire[1]
    OBVIOUS
  <1>3. /\ wire # <<>> /\ e \in Callbacks /\ SoundCallback(e) /\ Takes(e, bridge')
    BY <1>1, <1>2, CallbackTaken
  <1>4. PICK old : old = wire
    OBVIOUS
  <1>5. /\ wire' \in Seq(Callbacks) /\ Len(old) \in Nat /\ Len(old) > 0
        /\ Len(wire') \in Nat /\ old[1] = e
        /\ \A k \in 1..(Len(old) - 1) : k \in 1..Len(wire') /\ wire'[k] = old[k + 1]
        /\ \A k \in 1..Len(wire') :
              \/ k \in 1..(Len(old) - 1) /\ wire'[k] = old[k + 1]
              \/ wire'[k] = e /\ e.cb \in {"orderStatus", "error"}
    BY <1>1, <1>2, <1>4, WireShifts
  <1>6. /\ UNCHANGED <<session, ibkr, asked, task>>
        /\ \/ memo' = [memo EXCEPT !.over = memo.over \union Told(bridge, bridge')]
           \/ memo' = [memo EXCEPT !.over = memo.over \union Told(bridge, bridge'),
                                   !.repeats = memo.repeats + 1]
    BY DEF TakeCallback
  <1>7. memo' \in Histories
    <2>1. bridge'.events \in Seq(Reports)
      BY <1>3 DEF Takes, TakesNames, Memories
    <2>2. Told(bridge, bridge') \subseteq ClientOrders
      <3>1. \A n \in 1..Len(bridge'.events) : bridge'.events[n] \in Reports
        BY <2>1
      <3> QED BY <3>1 DEF Told, Reports
    <2>3. memo \in Histories
      BY <1>1 DEF BridgeTypes
    <2>4. memo.over \union Told(bridge, bridge') \in SUBSET ClientOrders /\ memo.repeats + 1 \in Nat
      BY <2>2, <2>3 DEF Histories
    <2> DEFINE over == memo.over \union Told(bridge, bridge')
    <2>5. \/ memo' = [memo EXCEPT !.over = over]
          \/ memo' = [memo EXCEPT !.over = over, !.repeats = memo.repeats + 1]
      BY <1>6
    <2>6. over \in SUBSET ClientOrders
      BY <2>4
    <2> HIDE DEF over
    <2> QED BY <2>3, <2>4, <2>5, <2>6 DEF Histories
  <1>8. /\ memo'.life = memo.life /\ memo'.rejected = memo.rejected /\ memo'.tasks = memo.tasks
        /\ memo'.attested = memo.attested /\ memo'.cancels = memo.cancels /\ memo.tasks \in Nat
    <2>1. memo \in Histories
      BY <1>1 DEF BridgeTypes
    <2> QED BY <1>6, <2>1 DEF Histories
  <1>9. Advances /\ ibkr' \in [OrderIds -> IbkrOrders] /\ IbkrSound'
    BY <1>1, <1>6, <1>8, NothingMoves
  <1>10. BridgeTypes'
    BY <1>1, <1>3, <1>5, <1>6, <1>7, <1>9 DEF BridgeTypes, Takes, TakesNames
  <1>11. /\ \A i \in OrderIds : ibkr'[i] = ibkr[i]
         /\ Made' = Made /\ \A c : Over(c)' <=> Over(c)
    BY <1>6 DEF Made, Executions, OrderLots, Over
  <1>12. TakesNames(e, bridge') /\ TakesOrders(bridge') /\ TakesExecutions(e, bridge')
         /\ TakesEnd(e, bridge') /\ TakesEvents(bridge')
    BY <1>3 DEF Takes
  <1>13. GreetingFirst'
    <2>1. bridge.socket /\ bridge'.socket = bridge.socket
      BY <1>1, <1>3, <1>12 DEF Numbered, GreetingFirst, TakesNames
    <2>2. ASSUME NEW k \in 1..Len(wire'), wire'[k].cb = "nextValidId"
          PROVE  FALSE
      <3>1. k \in 1..(Len(old) - 1) /\ wire'[k] = old[k + 1]
        BY <1>5, <2>2
      <3>2. k + 1 \in 1..Len(old) /\ k + 1 # 1
        BY <1>5, <3>1
      <3> QED BY <1>1, <1>4, <2>2, <3>1, <3>2 DEF Numbered, GreetingFirst
    <2> QED BY <2>1, <2>2 DEF GreetingFirst
  <1>14. \A k \in 1..Len(wire') : wire'[k].cb # "nextValidId"
    <2> TAKE k \in 1..Len(wire')
    <2>1. CASE wire'[k] = e /\ e.cb \in {"orderStatus", "error"}
      BY <2>1
    <2>2. CASE k \in 1..(Len(old) - 1) /\ wire'[k] = old[k + 1]
      <3>1. k + 1 \in 1..Len(old) /\ k + 1 # 1
        BY <1>5, <2>2
      <3> QED BY <1>1, <1>4, <2>2, <3>1 DEF Numbered, GreetingFirst
    <2> QED BY <1>5, <2>1, <2>2
  <1>15. WireSound'
    <2>0. PICK new : new = wire'
      OBVIOUS
    <2>1. ASSUME NEW k \in 1..Len(new)
          PROVE  SoundCallback(new[k])'
      <3>1. PICK d : d = new[k]
        OBVIOUS
      <3>2. d \in Callbacks /\ SoundCallback(d)
        <4>1. CASE d = e
          BY <1>3, <4>1
        <4>2. CASE k \in 1..(Len(old) - 1) /\ d = old[k + 1]
          <5>1. k + 1 \in 1..Len(old)
            BY <1>5, <4>2
          <5> QED BY <1>1, <1>4, <4>2, <5>1 DEF WireSound, BridgeTypes
        <4> QED BY <1>5, <2>0, <3>1, <4>1, <4>2
      <3>3. d.cb # "nextValidId"
        BY <1>14, <2>0, <3>1
      <3>4. memo.tasks <= memo'.tasks
        BY <1>8
      <3>5. SoundCallback(d)'
        BY <1>1, <1>6, <1>7, <1>9, <3>2, <3>3, <3>4, CallbackStands
      <3> QED BY <3>1, <3>5
    <2> QED BY <2>0, <2>1 DEF WireSound
  <1>16. Numbered'
    <2>1. bridge.socket /\ bridge'.socket = bridge.socket
      BY <1>1, <1>3, <1>12 DEF Numbered, GreetingFirst, TakesNames
    <2>2. Greeted'
      BY <1>14, <2>1 DEF Greeted
    <2>3. ASSUME NEW i \in OrderIds, ibkr'[i] # NoTrace
          PROVE  i < bridge'.nextId
      <3>1. CASE e.cb = "nextValidId"
        BY <1>3, <1>11, <1>12, <2>3, <3>1 DEF SoundCallback, TakesNames
      <3>2. CASE e.cb # "nextValidId"
        <4>1. \A k \in 1..Len(old) : old[k].cb # "nextValidId"
          BY <1>1, <1>4, <1>5, <3>2 DEF Numbered, GreetingFirst
        <4>2. i < bridge.nextId
          BY <1>1, <1>4, <1>11, <2>1, <2>3, <4>1 DEF Numbered, Greeted
        <4>3. bridge.nextId <= bridge'.nextId
          BY <1>12, <3>2 DEF TakesNames
        <4>4. i \in Nat /\ bridge.nextId \in Nat /\ bridge'.nextId \in Nat
          <5>1. bridge'.nextId \in NextIds
            BY <1>10 DEF BridgeTypes, Memories
          <5> QED BY <1>1, <5>1, BridgeFacts
        <4> QED BY <4>2, <4>3, <4>4
      <3> QED BY <3>1, <3>2
    <2> QED BY <1>13, <2>2, <2>3 DEF Numbered
  <1>17. MemorySound'
    <2>1. \A i \in OrderIds : ibkr[i] # NoTrace => bridge'.refOf[i] \in {"none", ibkr[i].ref}
      BY <1>1, <1>12 DEF MemorySound, TakesNames
    <2>2. ASSUME NEW i \in OrderIds, ibkr[i] # NoTrace, ibkr[i].life = memo.life
          PROVE  bridge'.idOf[ibkr[i].ref] # 0
      <3>1. ibkr[i].ref \in ClientOrders
        BY <1>1, <2>2, IbkrFacts
      <3> QED BY <1>1, <1>12, <2>2, <3>1 DEF MemorySound, TakesNames
    <2>3. \A c \in ClientOrders : bridge'.orders[c].state \in {"CANCELLED", "REJECTED"} => Over(c)
      BY <1>12 DEF TakesOrders
    <2>4. /\ bridge'.details \subseteq Made /\ bridge'.fees \subseteq Made
          /\ \A x \in bridge'.details : bridge'.idOf[ibkr[x[1]].ref] # 0
          /\ bridge'.seen \subseteq bridge'.details
      BY <1>12 DEF TakesExecutions
    <2> QED BY <1>6, <1>8, <1>11, <2>1, <2>2, <2>3, <2>4 DEF MemorySound, Known
  <1>18. PlacedOnce'
    BY <1>1, <1>11 DEF PlacedOnce
  <1>19. ReportedOnce' /\ CancelsOwed'
    BY <1>1, <1>6, <1>8, <1>12, EventsTaken DEF TakesExecutions
  <1>20. AnswersStand'
    <2>1. ASSUME NEW x \in memo.attested
          PROVE  x \in Made /\ bridge'.idOf[ibkr[x[1]].ref] # 0
      <3>1. x \in Made /\ bridge.idOf[ibkr[x[1]].ref] # 0
        BY <1>1 DEF AnswersStand, Known
      <3>2. ibkr[x[1]].ref \in ClientOrders
        BY <1>1, <3>1, MadeFacts
      <3> QED BY <1>12, <3>1, <3>2 DEF TakesNames
    <2> QED BY <1>1, <1>6, <1>8, <1>11, <2>1 DEF AnswersStand, Known
  <1>21. RefreshSound'
    <2>1. \A r \in asked' : r.kind # "CANCEL" => r.request <= memo'.tasks
      BY <1>1, <1>6, <1>8 DEF RefreshSound
    <2>2. ASSUME task.op = "CONNECT"
          PROVE  /\ \A r \in asked' : r.kind = "CANCEL"
                 /\ \A k \in 1..Len(wire') : wire'[k].cb # "end"
      <3>1. (\A r \in asked : r.kind = "CANCEL") /\ \A k \in 1..Len(old) : old[k].cb # "end"
        BY <1>1, <1>4, <2>2 DEF RefreshSound
      <3>2. ASSUME NEW k \in 1..Len(wire')
            PROVE  wire'[k].cb # "end"
        <4>1. k \in 1..(Len(old) - 1) => k + 1 \in 1..Len(old)
          BY <1>5
        <4> QED BY <1>5, <3>1, <4>1
      <3> QED BY <1>6, <3>1, <3>2
    <2>3. MadeBefore' = MadeBefore
      BY <1>6 DEF MadeBefore, Executions, OrderLots
    <2>4. ASSUME Refreshing
          PROVE  /\ bridge'.execRequest = task.request /\ task.request <= memo.tasks
                 /\ MadeBefore \subseteq Made
                 /\ "EXECUTIONS" \in bridge'.done => MadeBefore \subseteq bridge'.seen
      <3>1. /\ bridge.execRequest = task.request /\ task.request <= memo.tasks
            /\ MadeBefore \subseteq Made
            /\ "EXECUTIONS" \in bridge.done => MadeBefore \subseteq bridge.seen
            /\ \A k \in 1..Len(old) : EndsRefresh(old[k]) =>
                  \A x \in MadeBefore : x \in bridge.seen \/ \E j \in 1..(k - 1) : Shows(old[j], x)
        BY <1>1, <1>4, <2>4 DEF RefreshSound
      <3>2. bridge'.execRequest = bridge.execRequest /\ bridge.seen \subseteq bridge'.seen
        BY <1>12 DEF TakesNames, TakesExecutions
      <3>3. ASSUME e.cb = "end", e.kind = "EXECUTIONS", e.request = bridge.execRequest
            PROVE  MadeBefore \subseteq bridge.seen
        <4>1. EndsRefresh(old[1]) /\ 1 \in 1..Len(old) /\ 1..(1 - 1) = {}
          BY <1>5, <3>1, <3>3 DEF EndsRefresh
        <4> QED BY <3>1, <4>1
      <3>4. "EXECUTIONS" \in bridge'.done => MadeBefore \subseteq bridge'.seen
        BY <1>12, <3>1, <3>2, <3>3 DEF TakesEnd
      <3> QED BY <3>1, <3>2, <3>4
    <2>5. ASSUME Refreshing, NEW k \in 1..Len(wire'), EndsRefresh(wire'[k]),
                 NEW x \in MadeBefore, x \notin bridge'.seen
          PROVE  \E j \in 1..(k - 1) : Shows(wire'[j], x)
      <3>1. k \in 1..(Len(old) - 1) /\ wire'[k] = old[k + 1]
        BY <1>5, <2>5 DEF EndsRefresh
      <3>2. k + 1 \in 1..Len(old) /\ (k + 1) - 1 = k
        BY <1>5, <3>1
      <3>3. bridge.seen \subseteq bridge'.seen
        BY <1>12 DEF TakesExecutions
      <3>4. PICK j \in 1..k : Shows(old[j], x)
        BY <1>1, <1>4, <2>5, <3>1, <3>2, <3>3 DEF RefreshSound
      <3>5. CASE j = 1
        <4>1. e.cb = "execDetails" /\ e.execution = x /\ e.request = bridge.execRequest
          BY <1>1, <1>5, <2>5, <3>4, <3>5 DEF Shows, RefreshSound
        <4> QED BY <1>12, <2>5, <4>1 DEF TakesExecutions
      <3>6. CASE j # 1
        <4>1. j - 1 \in 1..(k - 1) /\ j - 1 \in 1..(Len(old) - 1) /\ (j - 1) + 1 = j
          BY <1>5, <3>1, <3>4, <3>6
        <4>2. wire'[j - 1] = old[j]
          BY <1>5, <4>1
        <4> QED BY <3>4, <4>1, <4>2
      <3> QED BY <3>5, <3>6
    <2>6. task' = task
      BY <1>6
    <2>7. Refreshing =>
            \A k \in 1..Len(wire') : EndsRefresh(wire'[k]) =>
                \A x \in MadeBefore : x \in bridge'.seen \/ \E j \in 1..(k - 1) : Shows(wire'[j], x)
      BY <2>5
    <2> QED
      BY <1>8, <1>11, <2>1, <2>2, <2>3, <2>4, <2>6, <2>7
      DEF RefreshSound, Refreshing, EndsRefresh, Shows
  <1> QED BY <1>9, <1>10, <1>15, <1>16, <1>17, <1>18, <1>19, <1>20, <1>21 DEF BridgeInvariant

(* IBKR's own connection comes and goes.                                    *)
LEMMA UpstreamStep ==
    ASSUME OrdersAreNumbered, BridgeInvariant, session' = session,
           NEW up \in BOOLEAN, Upstream(up)
    PROVE  BridgeInvariant'
  <1>1. /\ BridgeTypes /\ IbkrSound /\ WireSound /\ Numbered
        /\ ReportedOnce /\ CancelsOwed /\ RefreshSound
    BY DEF BridgeInvariant
  <1>2. /\ bridge' = [bridge EXCEPT !.ready = up] /\ UNCHANGED <<ibkr, asked, wire, task, memo>>
        /\ bridge.socket /\ \A k \in 1..Len(wire) : wire[k].cb # "nextValidId"
    BY DEF Upstream, AfterUpstream
  <1>3. bridge' \in Memories
    BY <1>1, <1>2 DEF BridgeTypes, Memories
  <1>4. /\ bridge'.socket = bridge.socket /\ bridge'.nextId = bridge.nextId
        /\ bridge'.refOf = bridge.refOf /\ bridge'.idOf = bridge.idOf
        /\ bridge'.orders = bridge.orders /\ bridge'.details = bridge.details
        /\ bridge'.fees = bridge.fees /\ bridge'.seen = bridge.seen
        /\ bridge'.reported = bridge.reported /\ bridge'.events = bridge.events
        /\ bridge'.cancelling = bridge.cancelling /\ bridge'.done = bridge.done
        /\ bridge'.execRequest = bridge.execRequest
    BY <1>1, <1>2 DEF BridgeTypes, Memories
  <1>5. Advances /\ ibkr' \in [OrderIds -> IbkrOrders] /\ IbkrSound'
    BY <1>1, <1>2, NothingMoves
  <1>6. MemorySound' /\ PlacedOnce' /\ AnswersStand'
    BY <1>2, <1>4, <1>5, MemoryStands DEF SameMemory
  <1>7. CancelsOwed' /\ ReportedOnce'
    <2>1. \A c \in ClientOrders : Owed(c)' \in Nat /\ Owed(c)' <= Owed(c)
      BY <1>2, <1>4 DEF Owed
    <2> QED BY <1>1, <1>2, <1>4, <2>1, EventsStand
  <1>8. BridgeTypes'
    BY <1>1, <1>2, <1>3, <1>5 DEF BridgeTypes
  <1>9. WireSound'
    <2>1. PICK old : old = wire
      OBVIOUS
    <2>2. ASSUME NEW k \in 1..Len(old)
          PROVE  SoundCallback(old[k])'
      <3>1. old[k] \in Callbacks /\ SoundCallback(old[k]) /\ old[k].cb # "nextValidId"
        BY <1>1, <1>2, <2>1 DEF WireSound, BridgeTypes
      <3>2. memo' \in Histories /\ memo.tasks <= memo'.tasks
        BY <1>1, <1>2 DEF BridgeTypes, Histories
      <3> QED BY <1>1, <1>5, <3>1, <3>2, CallbackStands
    <2> QED BY <1>2, <2>1, <2>2 DEF WireSound
  <1>10. Numbered'
    BY <1>1, <1>2, <1>4 DEF Numbered, Greeted, GreetingFirst
  <1>11. RefreshSound'
    <2>1. MadeBefore' = MadeBefore /\ Made' = Made
      BY <1>2 DEF MadeBefore, Made, Executions, OrderLots
    <2> QED BY <1>1, <1>2, <1>4, <2>1 DEF RefreshSound, Refreshing, EndsRefresh, Shows
  <1> QED BY <1>5, <1>6, <1>7, <1>8, <1>9, <1>10, <1>11 DEF BridgeInvariant

-----------------------------------------------------------------------------
(* A request that leaves IBKR and the socket alone.                         *)
KeepsMemory ==
    /\ bridge'.ready = bridge.ready /\ bridge'.socket = bridge.socket
    /\ bridge'.nextId = bridge.nextId
    /\ bridge'.refOf = bridge.refOf /\ bridge'.idOf = bridge.idOf
    /\ bridge'.details = bridge.details /\ bridge'.fees = bridge.fees
    /\ bridge'.seen \subseteq bridge.seen
    /\ \A c \in ClientOrders :
          bridge'.orders[c].state \in {"CANCELLED", "REJECTED"} =>
             bridge'.orders[c] = bridge.orders[c]
Answered(p) ==
    /\ p[2] \in 1..memo.life
    /\ Over(p[1]) \/ \A i \in OrderIds : ~(ibkr[i].ref = p[1] /\ ibkr[i].life = p[2])

LEMMA RequestStands ==
    ASSUME OrdersAreNumbered, BridgeInvariant, UNCHANGED <<session, ibkr, wire>>,
           memo' \in Histories, memo'.life = memo.life, memo.tasks <= memo'.tasks, KeepsMemory,
           \A p \in memo'.rejected : p \in memo.rejected \/ Answered(p),
           \A x \in memo'.attested : x \in memo.attested \/ (x \in Made /\ Known(x))
    PROVE  /\ Advances /\ IbkrSound' /\ WireSound' /\ Numbered' /\ MemorySound'
           /\ PlacedOnce' /\ AnswersStand'
  <1>1. /\ BridgeTypes /\ IbkrSound /\ WireSound /\ Numbered /\ MemorySound /\ PlacedOnce
        /\ AnswersStand
    BY DEF BridgeInvariant
  <1>2. Advances /\ ibkr' \in [OrderIds -> IbkrOrders] /\ IbkrSound'
    BY <1>1, NothingMoves
  <1>3. PICK old : old = wire
    OBVIOUS
  <1>4. ASSUME NEW k \in 1..Len(old)
        PROVE  SoundCallback(old[k])'
    <2>1. old[k] \in Callbacks /\ SoundCallback(old[k])
      BY <1>1, <1>3 DEF WireSound, BridgeTypes
    <2>2. CASE old[k].cb = "nextValidId"
      <3>1. ~bridge'.ready
        BY <2>1, <2>2 DEF SoundCallback, KeepsMemory
      <3> QED BY <1>2, <2>1, <2>2, <3>1, GreetingStands
    <2>3. CASE old[k].cb # "nextValidId"
      BY <1>1, <1>2, <2>1, <2>3, CallbackStands
    <2> QED BY <2>2, <2>3
  <1>5. WireSound'
    BY <1>3, <1>4 DEF WireSound
  <1>6. Numbered'
    BY <1>1 DEF Numbered, Greeted, GreetingFirst, KeepsMemory
  <1>7. Made' = Made /\ \A c : Over(c)' <=> Over(c)
    BY DEF Made, Executions, OrderLots, Over
  <1>8. MemorySound'
    BY <1>1, <1>7 DEF MemorySound, KeepsMemory, Known
  <1>9. PlacedOnce'
    BY <1>1 DEF PlacedOnce
  <1>10. AnswersStand'
    <2>1. \A p \in memo'.rejected : Answered(p)
      BY <1>1 DEF AnswersStand, Answered
    <2>2. \A x \in memo'.attested : x \in Made /\ Known(x)
      BY <1>1 DEF AnswersStand
    <2> QED BY <1>7, <2>1, <2>2 DEF AnswersStand, Answered, Known, KeepsMemory
  <1> QED BY <1>2, <1>5, <1>6, <1>8, <1>9, <1>10

LEMMA GiveUpStep ==
    ASSUME OrdersAreNumbered, BridgeInvariant, session' = session, GiveUp
    PROVE  BridgeInvariant'
  <1>1. /\ BridgeTypes /\ ReportedOnce /\ CancelsOwed /\ RefreshSound
    BY DEF BridgeInvariant
  <1>2. task' = Idle /\ UNCHANGED <<ibkr, asked, wire, bridge, memo>> /\ task.op # "CANCEL"
    BY DEF GiveUp
  <1>3. memo' \in Histories /\ memo.tasks <= memo'.tasks
    BY <1>1, <1>2 DEF BridgeTypes, Histories
  <1>4. KeepsMemory
    BY <1>2 DEF KeepsMemory
  <1>5. /\ IbkrSound' /\ WireSound' /\ Numbered' /\ MemorySound' /\ PlacedOnce' /\ AnswersStand'
    BY <1>2, <1>3, <1>4, RequestStands
  <1>6. ReportedOnce' /\ CancelsOwed'
    <2>1. \A c \in ClientOrders : Owed(c)' \in Nat /\ Owed(c)' <= Owed(c)
      BY <1>2 DEF Owed, Idle
    <2> QED BY <1>1, <1>2, <2>1, EventsStand
  <1>7. RefreshSound'
    BY <1>1, <1>2 DEF RefreshSound, Refreshing, Idle
  <1>8. BridgeTypes'
    BY <1>1, <1>2 DEF BridgeTypes, Tasks
  <1> QED BY <1>5, <1>6, <1>7, <1>8 DEF BridgeInvariant

LEMMA FinishSubmitStep ==
    ASSUME OrdersAreNumbered, BridgeInvariant, session' = session, FinishSubmit
    PROVE  BridgeInvariant'
  <1>1. /\ BridgeTypes /\ MemorySound /\ ReportedOnce /\ CancelsOwed /\ RefreshSound
    BY DEF BridgeInvariant
  <1>2. /\ task' = Idle /\ UNCHANGED <<ibkr, asked, wire, bridge>> /\ task.op = "SUBMIT"
        /\ memo' = IF bridge.orders[task.ref].state = "REJECTED"
                   THEN Rejected(memo, task.ref) ELSE memo
    BY DEF FinishSubmit
  <1>3. task.ref \in ClientOrders
    BY <1>1, <1>2 DEF BridgeTypes, Tasks, Idle, Reconnecting
  <1>4. memo \in Histories /\ <<task.ref, memo.life>> \in ClientOrders \X Nat
    BY <1>1, <1>3 DEF BridgeTypes, Histories
  <1>5. /\ memo' \in Histories /\ memo'.life = memo.life /\ memo'.tasks = memo.tasks
        /\ memo'.attested = memo.attested /\ memo'.cancels = memo.cancels
        /\ \/ memo'.rejected = memo.rejected
           \/ /\ memo'.rejected = memo.rejected \union {<<task.ref, memo.life>>}
              /\ bridge.orders[task.ref].state = "REJECTED"
    BY <1>2, <1>4 DEF Histories, Rejected
  <1>6. KeepsMemory /\ memo.tasks <= memo'.tasks
    BY <1>2, <1>4, <1>5 DEF KeepsMemory, Histories
  <1>7. \A p \in memo'.rejected : p \in memo.rejected \/ Answered(p)
    <2>1. ASSUME bridge.orders[task.ref].state = "REJECTED"
          PROVE  Answered(<<task.ref, memo.life>>)
      BY <1>1, <1>3, <1>4, <2>1 DEF MemorySound, Answered, Histories
    <2> QED BY <1>5, <2>1
  <1>8. /\ IbkrSound' /\ WireSound' /\ Numbered' /\ MemorySound' /\ PlacedOnce' /\ AnswersStand'
    BY <1>2, <1>5, <1>6, <1>7, RequestStands
  <1>9. ReportedOnce' /\ CancelsOwed'
    <2>1. \A c \in ClientOrders : Owed(c)' \in Nat /\ Owed(c)' <= Owed(c)
      BY <1>2 DEF Owed, Idle
    <2> QED BY <1>1, <1>2, <1>5, <2>1, EventsStand
  <1>10. RefreshSound'
    BY <1>1, <1>2, <1>5 DEF RefreshSound, Refreshing, Idle
  <1>11. BridgeTypes'
    BY <1>1, <1>2, <1>5 DEF BridgeTypes, Tasks
  <1> QED BY <1>8, <1>9, <1>10, <1>11 DEF BridgeInvariant

LEMMA FinishRefreshStep ==
    ASSUME OrdersAreNumbered, BridgeInvariant, session' = session, FinishRefresh
    PROVE  BridgeInvariant'
  <1>1. /\ BridgeTypes /\ IbkrSound /\ MemorySound /\ ReportedOnce /\ CancelsOwed /\ RefreshSound
    BY DEF BridgeInvariant
  <1>2. /\ Complete /\ task' = Idle /\ UNCHANGED <<ibkr, asked, wire>>
        /\ memo' = [memo EXCEPT !.attested = memo.attested \union MadeBefore]
        /\ bridge' = [bridge EXCEPT !.execRequest = 0]
    BY DEF FinishRefresh
  <1>3. MadeBefore \subseteq Made /\ MadeBefore \subseteq bridge.details
    BY <1>1, <1>2 DEF Complete, Refreshed, RefreshSound, Refreshing, MemorySound
  <1>4. MadeBefore \subseteq OrderIds \X Nat
    BY <1>1, <1>3, MadeFacts
  <1>5. memo \in Histories /\ bridge \in Memories
    BY <1>1 DEF BridgeTypes
  <1>6. /\ memo' \in Histories /\ memo'.life = memo.life /\ memo'.tasks = memo.tasks
        /\ memo'.attested = memo.attested \union MadeBefore /\ memo'.cancels = memo.cancels
        /\ memo'.rejected = memo.rejected /\ memo.tasks \in Nat
    <2> HIDE DEF MadeBefore
    <2> QED BY <1>2, <1>4, <1>5 DEF Histories
  <1>7. bridge' \in Memories
    BY <1>2, <1>5 DEF Memories
  <1>8. KeepsMemory /\ bridge'.events = bridge.events /\ bridge'.reported = bridge.reported
        /\ bridge'.cancelling = bridge.cancelling
        /\ bridge'.details = bridge.details /\ bridge'.fees = bridge.fees
    BY <1>2, <1>5 DEF KeepsMemory, Memories
  <1>9. \A x \in MadeBefore : x \in Made /\ Known(x)
    BY <1>1, <1>3 DEF MemorySound
  <1>10. memo.tasks <= memo'.tasks
    BY <1>6
  <1>11. /\ IbkrSound' /\ WireSound' /\ Numbered' /\ MemorySound' /\ PlacedOnce' /\ AnswersStand'
    <2>1. \A x \in memo'.attested : x \in memo.attested \/ (x \in Made /\ Known(x))
      BY <1>6, <1>9
    <2> QED BY <1>2, <1>6, <1>8, <1>10, <2>1, RequestStands
  <1>12. ReportedOnce' /\ CancelsOwed'
    <2>1. \A c \in ClientOrders : Owed(c)' \in Nat /\ Owed(c)' <= Owed(c)
      BY <1>2, <1>8 DEF Owed, Idle
    <2> QED BY <1>1, <1>6, <1>8, <2>1, EventsStand
  <1>13. RefreshSound'
    BY <1>1, <1>2, <1>6 DEF RefreshSound, Refreshing, Idle
  <1>14. BridgeTypes'
    BY <1>1, <1>2, <1>6, <1>7 DEF BridgeTypes, Tasks
  <1> QED BY <1>11, <1>12, <1>13, <1>14 DEF BridgeInvariant

LEMMA SendCancelStep ==
    ASSUME OrdersAreNumbered, BridgeInvariant, session' = session, SendCancel
    PROVE  BridgeInvariant'
  <1>1. /\ BridgeTypes /\ ReportedOnce /\ CancelsOwed /\ RefreshSound
    BY DEF BridgeInvariant
  <1>2. /\ task.op = "CANCEL" /\ task' = Idle /\ UNCHANGED <<ibkr, wire, memo>>
        /\ bridge' = [bridge EXCEPT !.cancelling = bridge.cancelling \union {task.ref}]
        /\ asked' \in {asked, asked \union {[kind |-> "CANCEL", id |-> task.id]}}
    BY DEF SendCancel
  <1>3. task.ref \in ClientOrders /\ task.id \in OrderIds
    BY <1>1, <1>2 DEF BridgeTypes, Tasks, Idle, Reconnecting
  <1>4. bridge \in Memories /\ memo' \in Histories /\ memo.tasks <= memo'.tasks
    BY <1>1, <1>2 DEF BridgeTypes, Histories
  <1>5. bridge' \in Memories
    BY <1>2, <1>3, <1>4 DEF Memories
  <1>6. KeepsMemory /\ bridge'.events = bridge.events /\ bridge'.reported = bridge.reported
        /\ bridge'.cancelling = bridge.cancelling \union {task.ref}
        /\ bridge'.details = bridge.details /\ bridge'.fees = bridge.fees
    BY <1>2, <1>4 DEF KeepsMemory, Memories
  <1>7. /\ IbkrSound' /\ WireSound' /\ Numbered' /\ MemorySound' /\ PlacedOnce' /\ AnswersStand'
    BY <1>2, <1>4, <1>6, RequestStands
  <1>8. ReportedOnce' /\ CancelsOwed'
    <2>1. \A c \in ClientOrders : Owed(c)' \in Nat /\ Owed(c)' <= Owed(c)
      BY <1>2, <1>6 DEF Owed, Idle
    <2> QED BY <1>1, <1>2, <1>6, <2>1, EventsStand
  <1>9. RefreshSound'
    BY <1>1, <1>2 DEF RefreshSound, Refreshing, Idle
  <1>10. asked' \subseteq Asks
    BY <1>1, <1>2, <1>3 DEF BridgeTypes, Asks
  <1>11. BridgeTypes'
    BY <1>1, <1>2, <1>5, <1>10 DEF BridgeTypes, Tasks
  <1> QED BY <1>7, <1>8, <1>9, <1>11 DEF BridgeInvariant

LEMMA BegunFacts ==
    ASSUME BridgeTypes
    PROVE  /\ Begun \in Histories /\ Begun.tasks = memo.tasks + 1 /\ memo.tasks <= Begun.tasks
           /\ memo.tasks \in Nat /\ Begun.life = memo.life /\ Begun.rejected = memo.rejected
           /\ Begun.attested = memo.attested /\ Begun.cancels = memo.cancels
           /\ memo.tasks < Begun.tasks /\ memo.life \in Nat \ {0}
  <1>1. memo \in Histories
    BY DEF BridgeTypes
  <1>2. memo.tasks + 1 \in Nat /\ memo.tasks \in Nat
    BY <1>1 DEF Histories
  <1>3. Begun = [memo EXCEPT !.tasks = memo.tasks + 1]
    BY DEF Begun
  <1> QED BY <1>1, <1>2, <1>3 DEF Histories

LEMMA BeginCancelStep ==
    ASSUME OrdersAreNumbered, BridgeInvariant, session' = session,
           NEW c \in ClientOrders, BeginCancel(c)
    PROVE  BridgeInvariant'
  <1>1. /\ BridgeTypes /\ ReportedOnce /\ CancelsOwed /\ RefreshSound
    BY DEF BridgeInvariant
  <1>2. /\ task = Idle /\ UNCHANGED <<ibkr, asked, wire>>
        /\ memo' = [Begun EXCEPT !.cancels[c] = @ + 1]
        /\ \/ /\ bridge' = bridge /\ bridge.idOf[c] # 0
              /\ task' = [op |-> "CANCEL", ref |-> c, id |-> bridge.idOf[c]]
           \/ bridge' = Put(bridge, "CANCEL_REJECTED", c, <<>>) /\ task' = task
    BY DEF BeginCancel, MayBegin, IsRetry
  <1>3. bridge \in Memories /\ Begun \in Histories /\ memo.tasks <= Begun.tasks
    BY <1>1, BegunFacts DEF BridgeTypes
  <1>4. /\ memo' \in Histories /\ memo'.life = memo.life /\ memo.tasks <= memo'.tasks
        /\ memo'.rejected = memo.rejected /\ memo'.attested = memo.attested
        /\ memo'.cancels = [memo.cancels EXCEPT ![c] = @ + 1]
        /\ memo.tasks \in Nat /\ memo'.tasks = memo.tasks + 1
    <2>1. Begun.cancels \in [ClientOrders -> Nat]
      BY <1>3 DEF Histories
    <2>2. [Begun.cancels EXCEPT ![c] = @ + 1] \in [ClientOrders -> Nat]
      BY <2>1
    <2>3. memo' = [Begun EXCEPT !.cancels = [Begun.cancels EXCEPT ![c] = @ + 1]]
      BY <1>2, <1>3 DEF Histories
    <2> HIDE <1>2
    <2> DEFINE more == [Begun.cancels EXCEPT ![c] = @ + 1]
    <2>4. more \in [ClientOrders -> Nat] /\ memo' = [Begun EXCEPT !.cancels = more]
      BY <2>2, <2>3
    <2> HIDE DEF more
    <2>5. memo' \in Histories /\ memo'.cancels = more /\ memo'.life = Begun.life
          /\ memo'.tasks = Begun.tasks /\ memo'.rejected = Begun.rejected
          /\ memo'.attested = Begun.attested
      BY <1>3, <2>4 DEF Histories
    <2>6. more = [memo.cancels EXCEPT ![c] = @ + 1]
      BY <1>1, BegunFacts DEF more
    <2> QED BY <1>1, <2>5, <2>6, BegunFacts
  <1>5. PICK v : v = [type |-> "CANCEL_REJECTED", ref |-> c, execution |-> <<>>]
    OBVIOUS
  <1>6. v \in Reports
    BY <1>5 DEF Reports
  <1>7. \/ bridge' = bridge
        \/ bridge' = [bridge EXCEPT !.events = Append(bridge.events, v)]
    BY <1>2, <1>5 DEF Put
  <1>8. Append(bridge.events, v) \in Seq(Reports)
    BY <1>3, <1>6 DEF Memories
  <1>9. bridge' \in Memories
    BY <1>3, <1>7, <1>8 DEF Memories
  <1>10. KeepsMemory /\ bridge'.reported = bridge.reported
         /\ bridge'.cancelling = bridge.cancelling
         /\ bridge'.details = bridge.details /\ bridge'.fees = bridge.fees
    BY <1>3, <1>7 DEF KeepsMemory, Memories
  <1>11. /\ IbkrSound' /\ WireSound' /\ Numbered' /\ MemorySound' /\ PlacedOnce' /\ AnswersStand'
    BY <1>2, <1>4, <1>10, RequestStands
  <1>12. CASE /\ bridge' = bridge /\ bridge.idOf[c] # 0
              /\ task' = [op |-> "CANCEL", ref |-> c, id |-> bridge.idOf[c]]
    <2>1. ReportedOnce'
      BY <1>1, <1>12 DEF ReportedOnce
    <2>2. ASSUME NEW d \in ClientOrders
          PROVE  Cardinality(Failed(d)') + Owed(d)' <= memo'.cancels[d]
      <3>1. Failed(d)' = Failed(d)
        BY <1>12 DEF Failed
      <3>2. Cardinality(Failed(d)) \in Nat /\ memo.cancels[d] \in Nat
        BY <1>1, FailedAreCounted
      <3>3. Cardinality(Failed(d)) + Owed(d) <= memo.cancels[d]
        BY <1>1 DEF CancelsOwed
      <3>4. Owed(d) \in Nat /\ Owed(d)' = Owed(d) + (IF d = c THEN 1 ELSE 0)
        BY <1>2, <1>12 DEF Owed, Idle
      <3>5. memo'.cancels[d] = memo.cancels[d] + (IF d = c THEN 1 ELSE 0)
        BY <1>1, <1>4, <3>2 DEF BridgeTypes, Histories
      <3> QED BY <3>1, <3>2, <3>3, <3>4, <3>5
    <2>3. CancelsOwed'
      BY <2>2 DEF CancelsOwed
    <2>4. RefreshSound'
      BY <1>1, <1>2, <1>4, <1>12, BegunFacts DEF RefreshSound, Refreshing, BridgeTypes, Asks, Listings
    <2>5. bridge.idOf[c] \in OrderIds
      BY <1>3, <1>12 DEF Memories
    <2>6. BridgeTypes'
      BY <1>1, <1>2, <1>4, <1>9, <1>12, <2>5 DEF BridgeTypes, Tasks
    <2> QED BY <1>11, <2>1, <2>3, <2>4, <2>6 DEF BridgeInvariant
  <1>13. CASE bridge' = Put(bridge, "CANCEL_REJECTED", c, <<>>) /\ task' = task
    <2>1. bridge'.events = Append(bridge.events, v)
      BY <1>3, <1>5, <1>13 DEF Put, Memories
    <2>2. ReportedOnce'
      <3>1. /\ Len(bridge.events) \in Nat /\ Len(bridge'.events) = Len(bridge.events) + 1
            /\ \A n \in 1..Len(bridge.events) : bridge'.events[n] = bridge.events[n]
            /\ bridge'.events[Len(bridge.events) + 1].type = "CANCEL_REJECTED"
        BY <1>1, <1>5, <1>6, <2>1, FailuresAreAdded, FailedAreCounted
      <3>2. ASSUME NEW n \in 1..Len(bridge'.events), bridge'.events[n].type = "EXECUTION"
            PROVE  n \in 1..Len(bridge.events) /\ bridge'.events[n] = bridge.events[n]
        <4>1. n # Len(bridge.events) + 1
          BY <3>1, <3>2
        <4> QED BY <3>1, <3>2, <4>1
      <3> QED BY <1>1, <1>10, <3>2 DEF ReportedOnce
    <2>3. ASSUME NEW d \in ClientOrders
          PROVE  Cardinality(Failed(d)') + Owed(d)' <= memo'.cancels[d]
      <3>1. Cardinality(Failed(d)') = Cardinality(Failed(d)) + (IF d = c THEN 1 ELSE 0)
        BY <1>1, <1>5, <1>6, <2>1, FailuresAreAdded
      <3>2. Cardinality(Failed(d)) \in Nat /\ memo.cancels[d] \in Nat
        BY <1>1, FailedAreCounted
      <3>3. Cardinality(Failed(d)) + Owed(d) <= memo.cancels[d]
        BY <1>1 DEF CancelsOwed
      <3>4. Owed(d) \in Nat /\ Owed(d)' = Owed(d)
        BY <1>10, <1>13 DEF Owed
      <3>5. memo'.cancels[d] = memo.cancels[d] + (IF d = c THEN 1 ELSE 0)
        BY <1>1, <1>4, <3>2 DEF BridgeTypes, Histories
      <3> QED BY <3>1, <3>2, <3>3, <3>4, <3>5
    <2>4. CancelsOwed'
      BY <2>3 DEF CancelsOwed
    <2>5. RefreshSound'
      BY <1>1, <1>2, <1>4, <1>13 DEF RefreshSound, Refreshing, Idle, BridgeTypes, Asks, Listings
    <2>6. BridgeTypes'
      BY <1>1, <1>2, <1>4, <1>9, <1>13 DEF BridgeTypes
    <2> QED BY <1>11, <2>2, <2>4, <2>5, <2>6 DEF BridgeInvariant
  <1> QED BY <1>2, <1>12, <1>13

LEMMA BeginSnapshotStep ==
    ASSUME OrdersAreNumbered, BridgeInvariant, session' = session, BeginSnapshot
    PROVE  BridgeInvariant'
  <1> DEFINE n == memo.tasks + 1
  <1>1. /\ BridgeTypes /\ IbkrSound /\ WireSound /\ ReportedOnce /\ CancelsOwed /\ RefreshSound
    BY DEF BridgeInvariant
  <1>2. /\ task = Idle /\ UNCHANGED <<ibkr, wire>>
        /\ bridge' = [bridge EXCEPT
                         !.orders = [c \in ClientOrders |-> Unlisted], !.done = {}, !.seen = {},
                         !.execRequest = n]
        /\ asked' = asked \union [kind : Listings, request : {n}]
        /\ memo' = [Begun EXCEPT !.over = {}]
    BY DEF BeginSnapshot, MayBegin
  <1>3. PICK flag \in BOOLEAN :
           task' = [op |-> "SNAPSHOT", request |-> n, since |-> ibkr, disturbed |-> flag]
    <2>1. task' = [op |-> "SNAPSHOT", request |-> n, since |-> ibkr,
                   disturbed |-> \/ {r \in asked : r.kind \in {"OPEN", "COMPLETED"}} # {}
                                 \/ {k \in 1..Len(wire) :
                                        /\ wire[k].cb = "end"
                                        /\ wire[k].kind \in {"OPEN", "COMPLETED"}} # {}]
      BY DEF BeginSnapshot
    <2> QED BY <2>1
  <1>4. bridge \in Memories /\ n \in Nat /\ memo.tasks \in Nat /\ memo.tasks < n
    BY <1>1, BegunFacts DEF BridgeTypes
  <1>5. /\ memo' \in Histories /\ memo'.life = memo.life /\ memo'.tasks = n
        /\ memo'.rejected = memo.rejected /\ memo'.attested = memo.attested
        /\ memo'.cancels = memo.cancels /\ memo.tasks <= memo'.tasks
    BY <1>1, <1>2, BegunFacts DEF Histories
  <1> HIDE DEF n
  <1>6. bridge' \in Memories
    <2>1. [c \in ClientOrders |-> Unlisted] \in [ClientOrders -> ListedOrders]
      BY DEF Unlisted, ListedOrders
    <2> QED BY <1>2, <1>4, <2>1 DEF Memories
  <1>7. /\ bridge'.ready = bridge.ready /\ bridge'.socket = bridge.socket
        /\ bridge'.nextId = bridge.nextId
        /\ bridge'.refOf = bridge.refOf /\ bridge'.idOf = bridge.idOf
        /\ bridge'.details = bridge.details /\ bridge'.fees = bridge.fees
        /\ bridge'.seen = {} /\ bridge'.orders = [c \in ClientOrders |-> Unlisted]
        /\ bridge'.events = bridge.events /\ bridge'.reported = bridge.reported
        /\ bridge'.cancelling = bridge.cancelling /\ bridge'.done = {}
        /\ bridge'.execRequest = n
    BY <1>2, <1>4 DEF Memories
  <1>8. KeepsMemory
    BY <1>7 DEF KeepsMemory, Unlisted
  <1>9. /\ IbkrSound' /\ WireSound' /\ Numbered' /\ MemorySound' /\ PlacedOnce' /\ AnswersStand'
    BY <1>2, <1>5, <1>8, RequestStands
  <1>10. ReportedOnce' /\ CancelsOwed'
    <2>1. \A c \in ClientOrders : Owed(c)' \in Nat /\ Owed(c)' <= Owed(c)
      BY <1>3, <1>7 DEF Owed
    <2> QED BY <1>1, <1>5, <1>7, <2>1, EventsStand
  <1>11. RefreshSound'
    <2>1. \A r \in asked' : r.kind # "CANCEL" => r.request <= memo'.tasks
      <3>1. ASSUME NEW r \in asked, r.kind # "CANCEL"
            PROVE  r.request <= n
        <4>1. r.request \in Nat /\ r.request <= memo.tasks
          BY <1>1, <3>1 DEF RefreshSound, BridgeTypes, Asks
        <4> QED BY <1>4, <4>1
      <3>2. n <= n
        BY <1>4
      <3> QED BY <1>2, <1>5, <3>1, <3>2
    <2>2. MadeBefore' = Made' /\ task'.op = "SNAPSHOT" /\ task'.request = n
      BY <1>2, <1>3 DEF MadeBefore, Made, Executions, OrderLots
    <2>3. ASSUME NEW k \in 1..Len(wire)
          PROVE  ~(wire[k].cb = "end" /\ wire[k].request = n)
      <3>1. wire[k] \in Callbacks /\ (wire[k].cb = "end" => wire[k].request <= memo.tasks)
        BY <1>1 DEF BridgeTypes, WireSound, SoundCallback
      <3>2. wire[k].cb = "end" => wire[k].request \in Nat
        BY <3>1 DEF Callbacks
      <3> QED BY <1>4, <3>1, <3>2
    <2>4. task'.request <= memo'.tasks
      BY <1>4, <1>5, <2>2
    <2> QED BY <1>2, <1>7, <2>1, <2>2, <2>3, <2>4 DEF RefreshSound, Refreshing, EndsRefresh
  <1>12. asked' \subseteq Asks
    BY <1>1, <1>2, <1>4 DEF BridgeTypes, Asks
  <1>13. task' \in Tasks
    BY <1>1, <1>3, <1>4 DEF Tasks, BridgeTypes
  <1>14. BridgeTypes'
    BY <1>1, <1>2, <1>5, <1>6, <1>12, <1>13 DEF BridgeTypes
  <1> QED BY <1>9, <1>10, <1>11, <1>14 DEF BridgeInvariant

LEMMA RefreshExecutionsStep ==
    ASSUME OrdersAreNumbered, BridgeInvariant, session' = session, RefreshExecutions
    PROVE  BridgeInvariant'
  <1> DEFINE n == memo.tasks
  <1>1. /\ BridgeTypes /\ IbkrSound /\ ReportedOnce /\ CancelsOwed /\ RefreshSound
    BY DEF BridgeInvariant
  <1>2. /\ task.op = "CONNECT" /\ UNCHANGED <<ibkr, wire, memo>>
        /\ bridge' = [bridge EXCEPT !.done = bridge.done \ {"EXECUTIONS"}, !.seen = {},
                                    !.execRequest = n]
        /\ asked' = asked \union {[kind |-> "EXECUTIONS", request |-> n]}
        /\ task' = [op |-> "REFRESH", request |-> n, since |-> ibkr]
    BY DEF RefreshExecutions
  <1>3. bridge \in Memories /\ n \in Nat /\ memo' \in Histories /\ memo.tasks <= memo'.tasks
    BY <1>1, <1>2 DEF BridgeTypes, Histories
  <1>4. memo'.tasks = n
    BY <1>2
  <1> HIDE DEF n
  <1>5. bridge' \in Memories
    BY <1>2, <1>3 DEF Memories
  <1>6. /\ bridge'.ready = bridge.ready /\ bridge'.socket = bridge.socket
        /\ bridge'.nextId = bridge.nextId
        /\ bridge'.refOf = bridge.refOf /\ bridge'.idOf = bridge.idOf
        /\ bridge'.details = bridge.details /\ bridge'.fees = bridge.fees
        /\ bridge'.seen = {} /\ bridge'.orders = bridge.orders
        /\ bridge'.events = bridge.events /\ bridge'.reported = bridge.reported
        /\ bridge'.cancelling = bridge.cancelling /\ bridge'.done = bridge.done \ {"EXECUTIONS"}
        /\ bridge'.execRequest = n
    BY <1>2, <1>3 DEF Memories
  <1>7. KeepsMemory
    BY <1>6 DEF KeepsMemory
  <1>8. /\ IbkrSound' /\ WireSound' /\ Numbered' /\ MemorySound' /\ PlacedOnce' /\ AnswersStand'
    BY <1>2, <1>3, <1>7, RequestStands
  <1>9. ReportedOnce' /\ CancelsOwed'
    <2>1. \A c \in ClientOrders : Owed(c)' \in Nat /\ Owed(c)' <= Owed(c)
      BY <1>2, <1>6 DEF Owed
    <2> QED BY <1>1, <1>2, <1>6, <2>1, EventsStand
  <1>10. RefreshSound'
    <2>1. \A r \in asked' : r.kind # "CANCEL" => r.request <= memo'.tasks
      <3>1. n <= n
        BY <1>3
      <3> QED BY <1>1, <1>2, <1>4, <3>1 DEF RefreshSound
    <2>2. MadeBefore' = Made' /\ task'.op = "REFRESH" /\ task'.request = n
      BY <1>2 DEF MadeBefore, Made, Executions, OrderLots
    <2>3. \A k \in 1..Len(wire) : wire[k].cb # "end"
      BY <1>1, <1>2 DEF RefreshSound
    <2>4. task'.request <= memo'.tasks
      BY <1>3, <1>4, <2>2
    <2> QED BY <1>2, <1>6, <2>1, <2>2, <2>3, <2>4 DEF RefreshSound, Refreshing, EndsRefresh
  <1>11. asked' \subseteq Asks
    BY <1>1, <1>2, <1>3 DEF BridgeTypes, Asks, Listings
  <1>12. task' \in Tasks
    BY <1>1, <1>2, <1>3 DEF Tasks, BridgeTypes
  <1>13. BridgeTypes'
    BY <1>1, <1>2, <1>5, <1>11, <1>12 DEF BridgeTypes
  <1> QED BY <1>8, <1>9, <1>10, <1>13 DEF BridgeInvariant

(* A submission answered at once: from memory, or for want of a connection. *)
LEMMA SubmitAnswered ==
    ASSUME OrdersAreNumbered, BridgeInvariant, session' = session, NEW c \in ClientOrders,
           task = Idle, UNCHANGED <<ibkr, asked, wire, bridge, task>>,
           \/ memo' = Begun
           \/ memo' = Rejected(Begun, c) /\ Answered(<<c, memo.life>>)
    PROVE  BridgeInvariant'
  <1>1. /\ BridgeTypes /\ IbkrSound /\ ReportedOnce /\ CancelsOwed /\ RefreshSound
    BY DEF BridgeInvariant
  <1>2. /\ Begun \in Histories /\ Begun.tasks = memo.tasks + 1
        /\ memo.tasks \in Nat /\ Begun.life = memo.life /\ Begun.rejected = memo.rejected
        /\ Begun.attested = memo.attested /\ Begun.cancels = memo.cancels
        /\ memo.life \in Nat
    BY <1>1, BegunFacts
  <1>3. /\ memo' \in Histories /\ memo'.life = memo.life /\ memo'.tasks = memo.tasks + 1
        /\ memo'.attested = memo.attested /\ memo'.cancels = memo.cancels
        /\ \/ memo'.rejected = memo.rejected
           \/ /\ memo'.rejected = memo.rejected \union {<<c, memo.life>>}
              /\ Answered(<<c, memo.life>>)
    <2>1. CASE memo' = Begun
      BY <1>2, <2>1
    <2>2. CASE memo' = Rejected(Begun, c) /\ Answered(<<c, memo.life>>)
      <3>1. memo' = [Begun EXCEPT !.rejected = Begun.rejected \union {<<c, memo.life>>}]
        BY <1>2, <2>2 DEF Rejected
      <3>2. Begun.rejected \union {<<c, memo.life>>} \in SUBSET (ClientOrders \X Nat)
        BY <1>2 DEF Histories
      <3> QED BY <1>2, <2>2, <3>1, <3>2 DEF Histories
    <2> QED BY <2>1, <2>2
  <1>4. KeepsMemory /\ memo.tasks <= memo'.tasks
    BY <1>2, <1>3 DEF KeepsMemory
  <1>5. /\ IbkrSound' /\ WireSound' /\ Numbered' /\ MemorySound' /\ PlacedOnce' /\ AnswersStand'
    BY <1>3, <1>4, RequestStands
  <1>6. ReportedOnce' /\ CancelsOwed'
    <2>1. \A d \in ClientOrders : Owed(d)' \in Nat /\ Owed(d)' <= Owed(d)
      BY DEF Owed
    <2> QED BY <1>1, <1>3, <2>1, EventsStand
  <1>7. RefreshSound'
    BY <1>1, <1>2, <1>3 DEF RefreshSound, Refreshing, Idle, BridgeTypes, Asks, Listings
  <1>8. BridgeTypes'
    BY <1>1, <1>3 DEF BridgeTypes
  <1> QED BY <1>5, <1>6, <1>7, <1>8 DEF BridgeInvariant

(* A submission that is sent: under a number that nothing has.              *)
SubmitSent(c, i) ==
    /\ task = Idle /\ i = bridge.nextId /\ i \in OrderIds /\ bridge.idOf[c] = 0
    /\ bridge.ready /\ \A life \in 1..memo.life : <<c, life>> \notin memo.rejected
    /\ bridge' = [Mapped(bridge, i, c) EXCEPT !.nextId = i + 1]
    /\ ibkr' = [ibkr EXCEPT ![i] = [ref |-> c, life |-> memo.life, state |-> "SENT", filled |-> 0]]
    /\ task' = [op |-> "SUBMIT", ref |-> c]
    /\ memo' = Begun /\ UNCHANGED <<asked, wire>>

LEMMA OrderPlaced ==
    ASSUME OrdersAreNumbered, BridgeInvariant, session' = session,
           NEW c \in ClientOrders, NEW i, SubmitSent(c, i)
    PROVE  /\ i \in OrderIds /\ ibkr[i] = NoTrace /\ KeepsOn
           /\ ibkr' \in [OrderIds -> IbkrOrders] /\ IbkrSound'
           /\ ibkr'[i].ref = c /\ ibkr'[i].life = memo.life /\ ibkr'[i].state = "SENT"
           /\ ibkr'[i].filled = 0
           /\ \A j \in OrderIds : j # i => ibkr'[j] = ibkr[j]
           /\ Made' = Made /\ \A d \in ClientOrders : Over(d)' <=> Over(d)
  <1> DEFINE o == [ref |-> c, life |-> memo.life, state |-> "SENT", filled |-> 0]
  <1>1. /\ BridgeTypes /\ IbkrSound /\ Numbered /\ memo.life \in Nat
    BY BegunFacts DEF BridgeInvariant
  <1>2. /\ i \in OrderIds /\ i = bridge.nextId /\ bridge.ready
        /\ ibkr' = [ibkr EXCEPT ![i] = o] /\ memo' = Begun
    BY DEF SubmitSent
  <1>3. memo'.life = memo.life
    BY <1>1, <1>2, BegunFacts
  <1>4. ibkr[i] = NoTrace
    <2>1. i \in Nat /\ ~(i < i)
      BY <1>1, <1>2, BridgeFacts
    <2> QED BY <1>1, <1>2, <2>1 DEF Numbered
  <1>5. o \in IbkrOrders /\ ibkr \in [OrderIds -> IbkrOrders]
    BY <1>1 DEF IbkrOrders, BridgeTypes
  <1>6. ibkr'[i] = o /\ \A j \in OrderIds : j # i => ibkr'[j] = ibkr[j]
    BY <1>2, <1>5
  <1>7. ibkr' \in [OrderIds -> IbkrOrders]
    BY <1>2, <1>5
  <1>8. ~Kept(i) /\ \A j \in OrderIds : ibkr[j].filled \in Nat
    BY <1>1, <1>4, IbkrFacts DEF Kept, NoTrace
  <1>9. KeepsOn
    <2>1. \A j \in OrderIds : Kept(j) => ibkr'[j] = ibkr[j] /\ ibkr[j].filled <= ibkr[j].filled
      BY <1>6, <1>8
    <2> QED BY <2>1 DEF KeepsOn, Kept
  <1>10. IbkrSound'
    <2>1. OrderLots \in Nat /\ OrderLots' = OrderLots
      BY <1>1, BridgeFacts DEF OrderLots
    <2>2. SoundOrder(o)
      BY <1>1, <2>1 DEF SoundOrder
    <2>3. \A j \in OrderIds : SoundOrder(ibkr'[j])
      BY <1>1, <1>6, <2>2 DEF IbkrSound
    <2> QED BY <1>3, <2>1, <2>3 DEF IbkrSound, SoundOrder
  <1>11. Made' = Made
    <2>1. Executions' = Executions /\ \A x \in Executions : x[1] \in OrderIds
      BY DEF Executions, OrderLots
    <2>2. \A j \in OrderIds : ibkr'[j].filled = ibkr[j].filled
      BY <1>4, <1>6 DEF NoTrace
    <2> QED BY <2>1, <2>2 DEF Made
  <1>12. \A d \in ClientOrders : Over(d)' <=> Over(d)
    <2>1. ibkr[i].state \notin {"CANCELLED", "REJECTED"}
      BY <1>4 DEF NoTrace
    <2>2. ibkr'[i].state \notin {"CANCELLED", "REJECTED"}
      BY <1>6
    <2> QED BY <1>6, <2>1, <2>2 DEF Over
  <1> QED BY <1>2, <1>4, <1>6, <1>7, <1>9, <1>10, <1>11, <1>12

LEMMA SubmitSentStep ==
    ASSUME OrdersAreNumbered, BridgeInvariant, session' = session,
           NEW c \in ClientOrders, NEW i, SubmitSent(c, i)
    PROVE  BridgeInvariant'
  <1>1. /\ BridgeTypes /\ IbkrSound /\ WireSound /\ Numbered /\ MemorySound /\ PlacedOnce
        /\ ReportedOnce /\ CancelsOwed /\ RefreshSound /\ AnswersStand
    BY DEF BridgeInvariant
  <1>2. /\ task = Idle /\ i = bridge.nextId /\ bridge.idOf[c] = 0 /\ bridge.ready
        /\ \A life \in 1..memo.life : <<c, life>> \notin memo.rejected
        /\ bridge' = [bridge EXCEPT !.refOf = [bridge.refOf EXCEPT ![i] = c],
                                    !.idOf = [bridge.idOf EXCEPT ![c] = i], !.nextId = i + 1]
        /\ task' = [op |-> "SUBMIT", ref |-> c] /\ memo' = Begun /\ UNCHANGED <<asked, wire>>
    BY <1>1 DEF SubmitSent, Mapped, BridgeTypes, Memories
  <1>3. /\ i \in OrderIds /\ ibkr[i] = NoTrace /\ KeepsOn
        /\ ibkr' \in [OrderIds -> IbkrOrders] /\ IbkrSound'
        /\ ibkr'[i].ref = c /\ ibkr'[i].life = memo.life /\ ibkr'[i].state = "SENT"
        /\ ibkr'[i].filled = 0
        /\ \A j \in OrderIds : j # i => ibkr'[j] = ibkr[j]
        /\ Made' = Made /\ \A d \in ClientOrders : Over(d)' <=> Over(d)
    BY OrderPlaced
  <1>4. bridge \in Memories /\ i + 1 \in NextIds /\ i \in Nat /\ i # 0
    <2>1. Cardinality(OrderIds) \in Nat /\ OrderIds = 1..Cardinality(OrderIds)
      BY FS_CardinalityType DEF OrdersAreNumbered
    <2> QED BY <1>1, <1>3, <2>1 DEF BridgeTypes, NextIds
  <1> DEFINE refOf == [bridge.refOf EXCEPT ![i] = c]
             idOf == [bridge.idOf EXCEPT ![c] = i]
  <1>5. /\ refOf \in [OrderIds -> ClientOrders \union {"none"}]
        /\ idOf \in [ClientOrders -> OrderIds \union {0}]
        /\ refOf[i] = c /\ idOf[c] = i
        /\ \A j \in OrderIds : j # i => refOf[j] = bridge.refOf[j]
        /\ \A d \in ClientOrders : bridge.idOf[d] # 0 => idOf[d] # 0
    BY <1>3, <1>4 DEF Memories
  <1>6. bridge' = [bridge EXCEPT !.refOf = refOf, !.idOf = idOf, !.nextId = i + 1]
    BY <1>2
  <1> HIDE DEF refOf, idOf
  <1>7. /\ bridge' \in Memories
        /\ bridge'.refOf = refOf /\ bridge'.idOf = idOf /\ bridge'.nextId = i + 1
        /\ bridge'.ready = bridge.ready /\ bridge'.socket = bridge.socket
        /\ bridge'.orders = bridge.orders /\ bridge'.details = bridge.details
        /\ bridge'.fees = bridge.fees /\ bridge'.seen = bridge.seen
        /\ bridge'.reported = bridge.reported /\ bridge'.events = bridge.events
        /\ bridge'.cancelling = bridge.cancelling
    <2> HIDE <1>2
    <2> QED BY <1>4, <1>5, <1>6 DEF Memories
  <1>8. /\ memo' \in Histories /\ memo'.tasks = memo.tasks + 1 /\ memo.tasks <= memo'.tasks
        /\ memo.tasks \in Nat /\ memo'.life = memo.life /\ memo'.rejected = memo.rejected
        /\ memo'.attested = memo.attested /\ memo'.cancels = memo.cancels
    BY <1>1, <1>2, BegunFacts
  <1>9. BridgeTypes'
    BY <1>1, <1>2, <1>3, <1>7, <1>8 DEF BridgeTypes, Tasks
  <1>10. \A k \in 1..Len(wire) : wire[k].cb # "nextValidId"
    BY <1>1, <1>2 DEF Numbered, Greeted
  <1>11. WireSound'
    <2>1. PICK old : old = wire
      OBVIOUS
    <2>2. ASSUME NEW k \in 1..Len(old)
          PROVE  SoundCallback(old[k])'
      <3>1. old[k] \in Callbacks /\ SoundCallback(old[k]) /\ old[k].cb # "nextValidId"
        BY <1>1, <1>10, <2>1 DEF WireSound, BridgeTypes
      <3> QED BY <1>1, <1>3, <1>8, <3>1, CallbackKept
    <2> QED BY <1>2, <2>1, <2>2 DEF WireSound
  <1>12. Numbered'
    <2>1. Greeted /\ GreetingFirst
      BY <1>1, <1>2 DEF Numbered
    <2>2. Greeted' /\ GreetingFirst'
      BY <1>2, <1>7, <2>1 DEF Greeted, GreetingFirst
    <2>3. ASSUME NEW j \in OrderIds, ibkr'[j] # NoTrace
          PROVE  j < i + 1
      <3>1. CASE j = i
        BY <1>4, <3>1
      <3>2. CASE j # i
        <4>1. j < i /\ j \in Nat
          BY <1>1, <1>2, <1>3, <2>1, <2>3, <3>2, BridgeFacts DEF Numbered
        <4> QED BY <1>4, <4>1
      <3> QED BY <3>1, <3>2
    <2> QED BY <1>7, <2>2, <2>3 DEF Numbered
  <1>13. MemorySound'
    <2>1. \A j \in OrderIds : ibkr'[j] # NoTrace => refOf[j] \in {"none", ibkr'[j].ref}
      BY <1>1, <1>3, <1>5 DEF MemorySound
    <2>2. ASSUME NEW j \in OrderIds, ibkr'[j] # NoTrace, ibkr'[j].life = memo.life
          PROVE  idOf[ibkr'[j].ref] # 0
      <3>1. CASE j = i
        BY <1>3, <1>4, <1>5, <3>1
      <3>2. CASE j # i
        <4>1. ibkr[j].ref \in ClientOrders
          BY <1>1, <1>3, <2>2, <3>2, IbkrFacts
        <4> QED BY <1>1, <1>3, <1>5, <2>2, <3>2, <4>1 DEF MemorySound
      <3> QED BY <3>1, <3>2
    <2>3. \A d \in ClientOrders : bridge.orders[d].state \in {"CANCELLED", "REJECTED"} => Over(d)'
      BY <1>1, <1>3 DEF MemorySound
    <2>4. ASSUME NEW x \in bridge.details
          PROVE  idOf[ibkr'[x[1]].ref] # 0
      <3>1. x \in Made /\ bridge.idOf[ibkr[x[1]].ref] # 0
        BY <1>1 DEF MemorySound, Known
      <3>2. x[1] \in OrderIds /\ ibkr[x[1]].ref \in ClientOrders /\ Kept(x[1])
        BY <1>1, <3>1, MadeFacts
      <3>3. ibkr'[x[1]].ref = ibkr[x[1]].ref
        BY <1>3, <3>2 DEF KeepsOn
      <3> QED BY <1>5, <3>1, <3>2, <3>3
    <2> QED BY <1>1, <1>3, <1>7, <1>8, <2>1, <2>2, <2>3, <2>4 DEF MemorySound, Known
  <1>14. PlacedOnce'
    <2>1. \A j \in OrderIds : j # i /\ ibkr[j].ref = c => ibkr[j].life # memo.life
      <3> TAKE j \in OrderIds
      <3>1. c # "none"
        BY DEF OrdersAreNumbered
      <3>2. ibkr[j].ref = c => ibkr[j] # NoTrace
        BY <3>1 DEF NoTrace
      <3> QED BY <1>1, <1>2, <3>2 DEF MemorySound
    <2>2. ASSUME NEW j \in OrderIds, NEW k \in OrderIds, j # k, ibkr'[j].ref = ibkr'[k].ref,
                 ibkr'[j].ref # "none"
          PROVE  ibkr'[j].life # ibkr'[k].life
      <3>1. CASE j # i /\ k # i
        BY <1>1, <1>3, <2>2, <3>1 DEF PlacedOnce
      <3>2. CASE j = i
        BY <1>3, <2>1, <2>2, <3>2
      <3>3. CASE k = i
        BY <1>3, <2>1, <2>2, <3>3
      <3> QED BY <3>1, <3>2, <3>3
    <2> QED BY <2>2 DEF PlacedOnce
  <1>15. ReportedOnce' /\ CancelsOwed'
    <2>1. \A d \in ClientOrders : Owed(d)' \in Nat /\ Owed(d)' <= Owed(d)
      BY <1>2, <1>7 DEF Owed
    <2> QED BY <1>1, <1>7, <1>8, <2>1, EventsStand
  <1>16. AnswersStand'
    <2>1. ASSUME NEW p \in memo.rejected
          PROVE  /\ p[2] \in 1..memo.life
                 /\ \/ Over(p[1])'
                    \/ \A j \in OrderIds : ~(ibkr'[j].ref = p[1] /\ ibkr'[j].life = p[2])
      <3>1. p \in ClientOrders \X Nat /\ p = <<p[1], p[2]>> /\ p[2] \in 1..memo.life
        BY <1>1 DEF AnswersStand, BridgeTypes, Histories
      <3>2. p[1] # c
        BY <1>2, <2>1, <3>1
      <3>3. CASE Over(p[1])
        BY <1>3, <3>1, <3>3
      <3>4. CASE \A j \in OrderIds : ~(ibkr[j].ref = p[1] /\ ibkr[j].life = p[2])
        BY <1>3, <3>1, <3>2, <3>4
      <3> QED BY <1>1, <3>1, <3>3, <3>4 DEF AnswersStand
    <2>2. ASSUME NEW x \in memo.attested
          PROVE  x \in Made /\ idOf[ibkr'[x[1]].ref] # 0
      <3>1. x \in Made /\ bridge.idOf[ibkr[x[1]].ref] # 0
        BY <1>1 DEF AnswersStand, Known
      <3>2. x[1] \in OrderIds /\ ibkr[x[1]].ref \in ClientOrders /\ Kept(x[1])
        BY <1>1, <3>1, MadeFacts
      <3>3. ibkr'[x[1]].ref = ibkr[x[1]].ref
        BY <1>3, <3>2 DEF KeepsOn
      <3> QED BY <1>5, <3>1, <3>2, <3>3
    <2> QED BY <1>3, <1>7, <1>8, <2>1, <2>2 DEF AnswersStand, Known
  <1>17. RefreshSound'
    <2>1. \A r \in asked : r.kind # "CANCEL" => r.request <= memo.tasks + 1
      BY <1>1, <1>8 DEF RefreshSound, BridgeTypes, Asks, Listings
    <2> QED BY <1>2, <1>8, <2>1 DEF RefreshSound, Refreshing
  <1> QED
    BY <1>3, <1>9, <1>11, <1>12, <1>13, <1>14, <1>15, <1>16, <1>17 DEF BridgeInvariant

LEMMA BeginSubmitStep ==
    ASSUME OrdersAreNumbered, BridgeInvariant, session' = session,
           NEW c \in ClientOrders, BeginSubmit(c)
    PROVE  BridgeInvariant'
  <1>1. BridgeTypes /\ MemorySound /\ IbkrSound
    BY DEF BridgeInvariant
  <1>2. memo.life \in 1..memo.life
    BY <1>1, BegunFacts
  <1>3. /\ task = Idle /\ UNCHANGED <<asked, wire>>
        /\ \A life \in 1..memo.life : <<c, life>> \notin memo.rejected
    BY DEF BeginSubmit, MayBegin
  <1>4. CASE /\ IsRetry(c) /\ UNCHANGED <<ibkr, bridge, task>>
             /\ memo' = IF bridge.orders[c].state \in {"REJECTED", "CANCELLED"}
                        THEN Rejected(Begun, c) ELSE Begun
    <2>1. ASSUME bridge.orders[c].state \in {"REJECTED", "CANCELLED"}
          PROVE  Answered(<<c, memo.life>>)
      BY <1>1, <1>2, <2>1 DEF MemorySound, Answered
    <2> QED BY <1>3, <1>4, <2>1, SubmitAnswered
  <1>5. CASE /\ ~IsRetry(c) /\ UNCHANGED <<ibkr, bridge, task>> /\ memo' = Rejected(Begun, c)
    <2>1. \A i \in OrderIds : ~(ibkr[i].ref = c /\ ibkr[i].life = memo.life)
      <3> TAKE i \in OrderIds
      <3>1. c # "none"
        BY DEF OrdersAreNumbered
      <3>2. ibkr[i].ref = c => ibkr[i] # NoTrace
        BY <3>1 DEF NoTrace
      <3> QED BY <1>1, <1>5, <3>2 DEF MemorySound, IsRetry
    <2>2. Answered(<<c, memo.life>>)
      BY <1>2, <2>1 DEF Answered
    <2> QED BY <1>3, <1>5, <2>2, SubmitAnswered
  <1>6. CASE SubmitSent(c, bridge.nextId)
    <2>1. PICK i : i = bridge.nextId
      OBVIOUS
    <2> QED BY <1>6, <2>1, SubmitSentStep
  <1> QED BY <1>3, <1>4, <1>5, <1>6 DEF BeginSubmit, SubmitSent, IsRetry, CanPlace, Connected

-----------------------------------------------------------------------------
LEMMA BridgeStarts ==
    ASSUME OrdersAreNumbered, BridgeInit
    PROVE  BridgeInvariant
  <1>1. Cardinality(OrderIds) \in Nat /\ "none" \notin ClientOrders /\ OrderLots \in Nat \ {0}
    BY FS_CardinalityType DEF OrdersAreNumbered, BridgeInit, OrderLots
  <1>2. /\ ibkr = [i \in OrderIds |-> NoTrace] /\ asked = {} /\ wire = <<NextValidId(ibkr)>>
        /\ bridge = FreshMemory /\ task = Reconnecting /\ session \in Sessions
        /\ memo = [life |-> 1, tasks |-> 0, repeats |-> 0, lossy |-> FALSE, over |-> {},
                   attested |-> {}, rejected |-> {}, cancels |-> [c \in ClientOrders |-> 0]]
    BY DEF BridgeInit
  <1>3. ibkr \in [OrderIds -> IbkrOrders]
    BY <1>2 DEF IbkrOrders
  <1>4. PICK e : e = NextValidId(ibkr)
    OBVIOUS
  <1>5. e \in [cb : {"nextValidId"}, id : NextIds]
    BY <1>3, <1>4, GreetingIsAbove
  <1>6. e.cb = "nextValidId" /\ e \in Callbacks
    BY <1>5 DEF Callbacks
  <1>7. wire = <<e>> /\ Len(wire) = 1 /\ wire[1] = e /\ wire \in Seq(Callbacks)
    BY <1>2, <1>4, <1>6
  <1>8. bridge \in Memories
    <2>1. 0 \in NextIds
      BY <1>1 DEF NextIds
    <2> QED BY <1>2, <2>1 DEF FreshMemory, Memories, ListedOrders, Unlisted
  <1>9. /\ bridge.ready = FALSE /\ bridge.socket = TRUE
        /\ bridge.orders = [c \in ClientOrders |-> Unlisted] /\ bridge.cancelling = {}
        /\ bridge.details = {} /\ bridge.fees = {} /\ bridge.reported = {}
        /\ bridge.seen = {} /\ bridge.events = <<>>
    BY <1>2 DEF FreshMemory
  <1>10. memo \in Histories
    BY <1>2 DEF Histories
  <1>11. BridgeTypes
    BY <1>2, <1>3, <1>7, <1>8, <1>10 DEF BridgeTypes, Tasks
  <1>12. IbkrSound
    BY <1>1, <1>2 DEF IbkrSound, SoundOrder, NoTrace
  <1>13. WireSound
    BY <1>2, <1>6, <1>7, <1>9 DEF WireSound, SoundCallback
  <1>14. Numbered
    BY <1>6, <1>7, <1>9 DEF Numbered, Greeted, GreetingFirst
  <1>15. MemorySound
    BY <1>2, <1>9 DEF MemorySound, Unlisted
  <1>16. PlacedOnce /\ ReportedOnce /\ AnswersStand
    BY <1>2, <1>9 DEF PlacedOnce, ReportedOnce, AnswersStand, NoTrace
  <1>17. CancelsOwed
    <2>1. ASSUME NEW c \in ClientOrders
          PROVE  Cardinality(Failed(c)) + Owed(c) <= memo.cancels[c]
      <3>1. Failed(c) = {}
        BY <1>9 DEF Failed
      <3>2. Owed(c) = 0
        BY <1>2, <1>9 DEF Owed, Reconnecting
      <3> QED BY <1>2, <3>1, <3>2, FS_EmptySet
    <2> QED BY <2>1 DEF CancelsOwed
  <1>18. RefreshSound
    BY <1>2, <1>6, <1>7 DEF RefreshSound, Refreshing, Reconnecting
  <1> QED
    BY <1>11, <1>12, <1>13, <1>14, <1>15, <1>16, <1>17, <1>18 DEF BridgeInvariant

LEMMA BridgeRests ==
    ASSUME OrdersAreNumbered, BridgeInvariant, UNCHANGED bridgeVars
    PROVE  BridgeInvariant'
  <1>1. /\ BridgeTypes /\ ReportedOnce /\ CancelsOwed /\ RefreshSound
    BY DEF BridgeInvariant
  <1>2. UNCHANGED <<session, ibkr, asked, wire, bridge, task, memo>>
    BY DEF bridgeVars
  <1>3. memo' \in Histories /\ memo.tasks <= memo'.tasks /\ KeepsMemory
    BY <1>1, <1>2 DEF BridgeTypes, Histories, KeepsMemory
  <1>4. /\ IbkrSound' /\ WireSound' /\ Numbered' /\ MemorySound' /\ PlacedOnce' /\ AnswersStand'
    BY <1>2, <1>3, RequestStands
  <1>5. ReportedOnce' /\ CancelsOwed'
    <2>1. \A c \in ClientOrders : Owed(c)' \in Nat /\ Owed(c)' <= Owed(c)
      BY <1>2 DEF Owed
    <2> QED BY <1>1, <1>2, <2>1, EventsStand
  <1>6. RefreshSound'
    <2>1. MadeBefore' = MadeBefore /\ Made' = Made
      BY <1>2 DEF MadeBefore, Made, Executions, OrderLots
    <2> QED BY <1>1, <1>2, <2>1 DEF RefreshSound, Refreshing, EndsRefresh, Shows
  <1>7. BridgeTypes'
    BY <1>1, <1>2 DEF BridgeTypes
  <1> QED BY <1>4, <1>5, <1>6, <1>7 DEF BridgeInvariant

LEMMA BridgeSteps ==
    ASSUME OrdersAreNumbered, BridgeInvariant, [BridgeNext]_bridgeVars
    PROVE  BridgeInvariant'
  <1>1. CASE UNCHANGED bridgeVars
    BY <1>1, BridgeRests
  <1>2. CASE Step /\ session' = session
    <2>1. ASSUME NEW i \in OrderIds, AcceptOrder(i) \/ RejectByIbkr(i) \/ Execute(i) \/ Close(i)
          PROVE  BridgeInvariant'
      BY <1>2, <2>1, AcceptOrderStep, RejectByIbkrStep, ExecuteStep, CloseStep
    <2>2. ASSUME NEW r \in asked, AnswerCancel(r) \/ AnswerListing(r)
          PROVE  BridgeInvariant'
      BY <1>2, <2>2, AnswerCancelStep, AnswerListingStep
    <2>3. ASSUME NEW up \in BOOLEAN, Upstream(up)
          PROVE  BridgeInvariant'
      BY <1>2, <2>3, UpstreamStep
    <2>4. ASSUME NEW c \in ClientOrders, BeginSubmit(c) \/ BeginCancel(c)
          PROVE  BridgeInvariant'
      BY <1>2, <2>4, BeginSubmitStep, BeginCancelStep
    <2>5. ASSUME TakeCallback \/ LoseConnection \/ BeginReconnect \/ RestartBridge
          PROVE  BridgeInvariant'
      BY <1>2, <2>5, TakeCallbackStep, LoseConnectionStep, BeginReconnectStep, RestartBridgeStep
    <2>6. ASSUME FinishSubmit \/ SendCancel \/ GiveUp
          PROVE  BridgeInvariant'
      BY <1>2, <2>6, FinishSubmitStep, SendCancelStep, GiveUpStep
    <2>7. ASSUME BeginSnapshot \/ RefreshExecutions \/ FinishRefresh
          PROVE  BridgeInvariant'
      BY <1>2, <2>7, BeginSnapshotStep, RefreshExecutionsStep, FinishRefreshStep
    <2> QED BY <1>2, <2>1, <2>2, <2>3, <2>4, <2>5, <2>6, <2>7 DEF Step
  <1> QED BY <1>1, <1>2 DEF BridgeNext

(* What the invariant is for.                                               *)
BridgePromises ==
    /\ BridgeTypeOK /\ PlacedOnce /\ RejectedNeverWorks /\ RefreshIsComplete
    /\ CancelsAnsweredOnce

LEMMA BridgeKeepsPromises ==
    ASSUME OrdersAreNumbered, BridgeInvariant
    PROVE  BridgePromises
  <1>1. /\ BridgeTypes /\ IbkrSound /\ MemorySound /\ PlacedOnce /\ ReportedOnce
        /\ CancelsOwed /\ RefreshSound /\ AnswersStand
    BY DEF BridgeInvariant
  <1>2. BridgeTypeOK
    <2>1. \A i \in OrderIds : ibkr[i].filled \in 0..OrderLots
      <3>1. \A i \in OrderIds : ibkr[i].filled \in Nat /\ ibkr[i].filled <= OrderLots
        BY <1>1, IbkrFacts
      <3>2. OrderLots \in Nat
        BY <1>1, BridgeFacts
      <3> QED BY <3>1, <3>2
    <2>2. task.op \in {"NONE", "SUBMIT", "CANCEL", "SNAPSHOT", "CONNECT", "REFRESH"}
      BY <1>1 DEF BridgeTypes, Tasks, Idle, Reconnecting
    <2>3. bridge.nextId \in 0..(Cardinality(OrderIds) + 1) /\ session \in Sessions
      BY <1>1, BridgeFacts DEF NextIds, BridgeTypes
    <2> QED BY <1>1, <2>1, <2>2, <2>3 DEF BridgeTypeOK, MemorySound, ReportedOnce
  <1>3. RejectedNeverWorks
    <2> SUFFICES ASSUME NEW i \in OrderIds, <<ibkr[i].ref, ibkr[i].life>> \in memo.rejected,
                        PlacedAlone(i)
                 PROVE  ibkr[i].state \notin {"SENT", "WORKING", "FILLED"}
      BY DEF RejectedNeverWorks
    <2>1. Over(ibkr[i].ref)
      BY <1>1 DEF AnswersStand
    <2>2. PICK j \in OrderIds : ibkr[j].ref = ibkr[i].ref /\ ibkr[j].state \in {"CANCELLED", "REJECTED"}
      BY <2>1 DEF Over
    <2>3. j = i
      BY <2>2 DEF PlacedAlone
    <2> QED BY <2>2, <2>3
  <1>4. RefreshIsComplete
    <2>1. ASSUME Complete
          PROVE  MadeBefore \subseteq bridge.reported
      <3>1. MadeBefore \subseteq bridge.seen
        BY <1>1, <2>1 DEF Complete, Refreshed, RefreshSound, Refreshing
      <3>2. bridge.seen \subseteq bridge.fees /\ bridge.seen \subseteq bridge.details
        BY <1>1, <2>1 DEF Complete, Refreshed, MemorySound
      <3> QED BY <1>1, <3>1, <3>2 DEF ReportedOnce
    <2> QED BY <1>1, <2>1 DEF RefreshIsComplete, ReportedOnce
  <1>5. CancelsAnsweredOnce
    <2>1. ASSUME NEW c \in ClientOrders
          PROVE  Cardinality(Failed(c)) <= memo.cancels[c]
      <3>1. Cardinality(Failed(c)) \in Nat /\ memo.cancels[c] \in Nat
        BY <1>1, FailedAreCounted
      <3>2. Owed(c) \in Nat /\ Cardinality(Failed(c)) + Owed(c) <= memo.cancels[c]
        BY <1>1 DEF CancelsOwed, Owed
      <3> QED BY <3>1, <3>2
    <2> QED BY <2>1 DEF CancelsAnsweredOnce, Failed
  <1> QED BY <1>1, <1>2, <1>3, <1>4, <1>5 DEF BridgePromises

(* Only a submission places an order, and not one that is known.            *)
LEMMA ExecutedIsKnown ==
    ASSUME OrdersAreNumbered, BridgeInvariant, BridgeNext
    PROVE  NothingExecutedIsPlaced
  <1>1. /\ BridgeTypes /\ IbkrSound /\ AnswersStand /\ session' = session
    BY DEF BridgeInvariant, BridgeNext
  <1>2. ASSUME NEW c \in ClientOrders, SubmitSent(c, bridge.nextId)
        PROVE  NothingExecutedIsPlaced
    <2>1. PICK i : i = bridge.nextId
      OBVIOUS
    <2>2. bridge.idOf[c] = 0
      BY <1>2 DEF SubmitSent
    <2>3. ibkr'[i].ref = c /\ \A j \in OrderIds : j # i => ibkr'[j] = ibkr[j]
      BY <1>1, <1>2, <2>1, OrderPlaced
    <2>4. \A x \in memo.attested : ibkr[x[1]].ref # c
      BY <1>1, <2>2 DEF AnswersStand, Known
    <2> QED BY <2>3, <2>4 DEF NothingExecutedIsPlaced
  <1>3. ASSUME \A i \in OrderIds : ibkr[i] = NoTrace => ibkr'[i] = NoTrace
        PROVE  NothingExecutedIsPlaced
    BY <1>3 DEF NothingExecutedIsPlaced
  <1>4. ASSUME UNCHANGED ibkr
        PROVE  NothingExecutedIsPlaced
    BY <1>4 DEF NothingExecutedIsPlaced
  <1>6. ASSUME Disconnected
        PROVE  NothingExecutedIsPlaced
    <2>1. \A i \in OrderIds : ibkr[i] = NoTrace => ibkr'[i] = NoTrace
      BY <1>6 DEF Disconnected
    <2> QED BY <1>3, <2>1
  <1>7. ASSUME NEW i \in OrderIds, AcceptOrder(i) \/ RejectByIbkr(i) \/ Execute(i) \/ Close(i)
        PROVE  NothingExecutedIsPlaced
    <2>1. ibkr[i].state # "NONE" /\ \A j \in OrderIds : j # i => ibkr'[j] = ibkr[j]
      BY <1>1, <1>7 DEF AcceptOrder, RejectByIbkr, Execute, Close, BridgeTypes
    <2>2. ibkr[i] # NoTrace
      BY <2>1 DEF NoTrace
    <2> QED BY <1>3, <2>1, <2>2
  <1>8. ASSUME NEW r \in asked, AnswerCancel(r) \/ AnswerListing(r)
        PROVE  NothingExecutedIsPlaced
    <2>1. CASE UNCHANGED ibkr
      BY <1>4, <2>1
    <2>2. CASE ibkr[r.id].state = "WORKING" /\ ibkr' = [ibkr EXCEPT ![r.id].state = "CANCELLED"]
      <3>1. ibkr[r.id] # NoTrace /\ \A j \in OrderIds : j # r.id => ibkr'[j] = ibkr[j]
        BY <1>1, <2>2 DEF BridgeTypes, NoTrace
      <3> QED BY <1>3, <3>1
    <2> QED BY <1>8, <2>1, <2>2 DEF AnswerCancel, AnswerListing
  <1>9. ASSUME NEW c \in ClientOrders, BeginSubmit(c) \/ BeginCancel(c)
        PROVE  NothingExecutedIsPlaced
    <2>1. CASE UNCHANGED ibkr
      BY <1>4, <2>1
    <2>2. CASE BeginSubmit(c) /\ ~UNCHANGED ibkr
      <3>1. SubmitSent(c, bridge.nextId)
        BY <2>2 DEF BeginSubmit, SubmitSent, MayBegin, IsRetry, CanPlace, Connected
      <3> QED BY <1>2, <3>1
    <2> QED BY <1>9, <2>1, <2>2 DEF BeginCancel
  <1>10. ASSUME NEW up \in BOOLEAN, Upstream(up)
         PROVE  NothingExecutedIsPlaced
    BY <1>4, <1>10 DEF Upstream
  <1>11. ASSUME \/ TakeCallback \/ FinishSubmit \/ SendCancel \/ BeginSnapshot
                \/ RefreshExecutions \/ FinishRefresh \/ GiveUp
         PROVE  NothingExecutedIsPlaced
    BY <1>4, <1>11
    DEF TakeCallback, FinishSubmit, SendCancel, BeginSnapshot, RefreshExecutions, FinishRefresh,
        GiveUp
  <1>12. ASSUME LoseConnection \/ BeginReconnect \/ RestartBridge
         PROVE  NothingExecutedIsPlaced
    BY <1>6, <1>12 DEF LoseConnection, BeginReconnect, RestartBridge
  <1> QED BY <1>7, <1>8, <1>9, <1>10, <1>11, <1>12 DEF BridgeNext, Step

(* For any client orders, order identities and sessions, whatever is lost,  *)
(* late, repeated or cleared by a snapshot, and however often the bridge is  *)
(* restarted (follon_ibkr_gateway.py): one process places a client order     *)
(* once; an order answered REJECTED does not work at IBKR; a refresh that    *)
(* may report success has put every execution made before it in the queue,  *)
(* once; a failed cancellation is reported once for a request; and what was *)
(* executed before a refresh that succeeded is not placed again.            *)
BridgeSpec == BridgeInit /\ [][BridgeNext]_bridgeVars
THEOREM BridgeHolds ==
    OrdersAreNumbered /\ BridgeSpec => []BridgePromises /\ [][NothingExecutedIsPlaced]_bridgeVars
  <1> SUFFICES ASSUME OrdersAreNumbered
               PROVE  BridgeSpec => []BridgePromises /\ [][NothingExecutedIsPlaced]_bridgeVars
    OBVIOUS
  <1>1. BridgeInit => BridgeInvariant
    BY BridgeStarts
  <1>2. BridgeInvariant /\ [BridgeNext]_bridgeVars => BridgeInvariant'
    BY BridgeSteps
  <1>3. BridgeInvariant => BridgePromises
    BY BridgeKeepsPromises
  <1>4. BridgeInvariant /\ [BridgeNext]_bridgeVars => [NothingExecutedIsPlaced]_bridgeVars
    BY ExecutedIsKnown
  <1> QED BY <1>1, <1>2, <1>3, <1>4, PTL DEF BridgeSpec
==============================================================================
