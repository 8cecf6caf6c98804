---------------------------- MODULE MfaAccountProofs ----------------------------
(***************************************************************************)
(* Theorems about MfaAccount, for any number of requests, saves and clock  *)
(* ticks, and any limits.                                                  *)
(***************************************************************************)
EXTENDS MfaAccount, FiniteSetTheorems, TLAPS

(* The parts of the inductive invariant. *)

\* Every save raises the later of a row's revision and stamp, which thus
\* tells rows apart.
Number(a) == Later(a.rev, a.stamp)

\* The row a request works on is an earlier one, or the row there is.
Known(q) == Number(q.auth) <= Number(row) /\ (Number(q.auth) = Number(row) => q.auth = row)

SameCredentials(a, b) ==
    a.password = b.password /\ a.stamp = b.stamp /\ a.secret = b.secret /\ a.reset = b.reset

\* A sign-in that asks for a factor belongs to an account that has one.
AsksForFactor(a) == a.login.kind = "verify" /\ a.login.stamp = a.stamp
HasFactor(a) == a.secret # 0 /\ ~a.reset
Verifies(a) == AsksForFactor(a) => HasFactor(a)

\* What the save of a request would do: close the sign-in step and revoke,
\* or leave the credentials as they were.
Prepared(q) ==
    /\ q.op = "revoke" => q.stage = "final" /\ q.revokes
    /\ q.stage \in {"count", "password", "challenge"} => ~q.revokes
    /\ q.stage \in {"password", "challenge"} => q.op = "signin"
    /\ q.stage = "final" /\ q.revokes => q.next.login = NoChallenge
    /\ q.stage \in {"count", "final"} /\ ~(q.stage = "final" /\ q.revokes) =>
         SameCredentials(q.next, q.auth) /\ Verifies(q.next)
    /\ q.stage = "count" /\ q.op = "verify" => HasFactor(q.auth)
    /\ q.stage = "final" /\ q.op \in {"verify", "confirm"} => HasFactor(q.next)

\* Credentials signed in with are those of the account while its stamp stays.
Current(stamp, password, secret) ==
    /\ stamp <= Number(row)
    /\ stamp = row.stamp => password = row.password /\ secret = row.secret /\ HasFactor(row)

Sound(q) == /\ Known(q)
            /\ Prepared(q)
            /\ q.stage = "session" => Current(q.auth.stamp, q.auth.password, q.auth.secret)

IInv == /\ TypeOK
        /\ Verifies(row)
        /\ \A r \in Request : request[r] # Idle => Sound(request[r])
        /\ \A s \in sessions : Current(s.stamp, s.password, s.secret)

-----------------------------------------------------------------------------
(* Rows. *)

LEMMA ConstantTypes ==
    /\ ChallengeTicks \in Nat /\ TicketTicks \in Nat /\ LimitTicks \in Nat
    /\ Tries \in Nat /\ CodesPerSet \in Nat
BY ConstantsAssumption

LEMMA NoneTyped == NoChallenge \in Challenges /\ NoTicket \in [id: Nat, expires: Nat]
                   /\ NoLimit \in [count: Nat, expires: Nat]
BY DEF NoChallenge, NoTicket, NoLimit, Challenges

LEMMA NumberTyped ==
    ASSUME NEW a \in Rows
    PROVE  /\ a.rev \in Nat /\ a.stamp \in Nat
           /\ Number(a) \in Nat /\ Fresh(a) \in Nat /\ Fresh(a) = Number(a) + 1
           /\ a.rev <= Number(a) /\ a.stamp <= Number(a)
<1>1. a.rev \in Nat /\ a.stamp \in Nat
  BY DEF Rows
<1> QED BY <1>1 DEF Number, Fresh, Later

LEMMA ChallengeTyped ==
    ASSUME NEW a \in Rows, clock \in Nat,
           NEW kind \in {"enroll", "verify", "recover", "replace"}
    PROVE  /\ NewChallenge(a, kind) \in Challenges
           /\ NewChallenge(a, kind).kind = kind
           /\ NewChallenge(a, kind).stamp = a.stamp
<1>1. Fresh(a) \in Nat /\ a.stamp \in Nat /\ clock + ChallengeTicks \in Nat
  BY NumberTyped, ConstantTypes
<1> QED BY <1>1 DEF NewChallenge, Challenges

LEMMA RecoveryTyped == ASSUME NEW n \in Nat PROVE RecoveryCodes(n) \in SUBSET Codes
BY ConstantTypes DEF RecoveryCodes, Codes

\* Two rows whose sign-in steps are of the same kind and stamp.
SameStep(a, b) == a.login.kind = b.login.kind /\ a.login.stamp = b.login.stamp

LEMMA CountedKeeps ==
    ASSUME NEW a \in Rows, NEW q \in Requests, clock \in Nat
    PROVE  /\ Counted(a, q) \in Rows
           /\ SameCredentials(Counted(a, q), a) /\ SameStep(Counted(a, q), a)
<1> DEFINE k == LimitKind(q)
           limit == LimitOf(a, k)
           b == [a EXCEPT !.limits[k] = [limit EXCEPT !.count = @ + 1]]
           c == Challenge(a, q)
<1>1. k \in {"password", "factor"}
  BY DEF LimitKind
<1>2. limit \in [count: Nat, expires: Nat]
  BY <1>1, ConstantTypes DEF LimitOf, Rows
<1>3. [limit EXCEPT !.count = @ + 1] \in [count: Nat, expires: Nat]
  BY <1>2
<1> HIDE DEF k, limit
<1>4. b \in Rows /\ SameCredentials(b, a) /\ b.login = a.login /\ b.manage = a.manage
  BY <1>1, <1>3 DEF Rows, SameCredentials
<1>5. c \in Challenges
  BY DEF Challenge, Rows
<1>6. c.attempts \in Nat
  BY <1>5 DEF Challenges
<1>7. /\ [c EXCEPT !.attempts = @ + 1] \in Challenges
      /\ [c EXCEPT !.attempts = @ + 1].kind = c.kind
      /\ [c EXCEPT !.attempts = @ + 1].stamp = c.stamp
  BY <1>5, <1>6 DEF Challenges
<1>8. Counted(a, q) = IF q.op \in ChallengeOps
                      THEN WithChallenge(b, q, [c EXCEPT !.attempts = @ + 1]) ELSE b
  BY DEF Counted, k, limit
<1>9. ~InManage(b, q) => c = a.login
  BY <1>4 DEF InManage, Challenge
<1> HIDE DEF b, c
<1>10. WithChallenge(b, q, [c EXCEPT !.attempts = @ + 1]) \in Rows
       /\ SameCredentials(WithChallenge(b, q, [c EXCEPT !.attempts = @ + 1]), a)
       /\ SameStep(WithChallenge(b, q, [c EXCEPT !.attempts = @ + 1]), a)
  <2> DEFINE d == [c EXCEPT !.attempts = @ + 1]
  <2>1. d \in Challenges /\ d.kind = c.kind /\ d.stamp = c.stamp
    BY <1>7
  <2> HIDE DEF d
  <2>2. CASE InManage(b, q)
    <3>1. WithChallenge(b, q, d) = [b EXCEPT !.manage = d]
      BY <2>2 DEF WithChallenge
    <3> QED BY <1>4, <2>1, <3>1 DEF Rows, SameCredentials, SameStep, d
  <2>3. CASE ~InManage(b, q)
    <3>1. WithChallenge(b, q, d) = [b EXCEPT !.login = d]
      BY <2>3 DEF WithChallenge
    <3> QED BY <1>4, <1>9, <2>1, <2>3, <3>1 DEF Rows, SameCredentials, SameStep, d
  <2> QED BY <2>2, <2>3
<1> QED BY <1>4, <1>8, <1>10 DEF SameStep

\* What a save stores: a row of the next number, with the same credentials or
\* a stamp that no earlier row had.
Stores(q) == q.stage \in {"count", "final"} /\ q.auth = row

LEMMA StoredRow ==
    ASSUME row \in Rows, NEW q \in Requests, Stores(q), Prepared(q)
    PROVE  /\ Stored(q) \in Rows
           /\ Number(Stored(q)) = Number(row) + 1
           /\ Verifies(Stored(q))
           /\ \/ SameCredentials(Stored(q), row)
              \/ Stored(q).stamp = Number(row) + 1
           /\ q.op = "verify" /\ q.stage = "count" => HasFactor(Stored(q))
           /\ q.op \in {"verify", "confirm"} /\ q.stage = "final" => HasFactor(Stored(q))
<1> DEFINE f == Fresh(q.auth)
           rev == IF q.op = "revoke" /\ q.auth.rev = 0 THEN 0 ELSE f
           stamp == IF q.stage = "final" /\ q.revokes THEN f ELSE q.next.stamp
           S == Stored(q)
<1>1. f \in Nat /\ f = Number(row) + 1 /\ row.stamp \in Nat /\ row.rev \in Nat
      /\ Number(row) \in Nat /\ row.stamp <= Number(row)
  BY NumberTyped DEF Stores
<1>2. q.next \in Rows
  BY DEF Requests
<1>3. rev \in Nat /\ stamp \in Nat
  BY <1>1, <1>2 DEF Rows
<1>4. S = [q.next EXCEPT !.rev = rev, !.stamp = stamp]
  BY <1>2 DEF Stored, Rows
<1> HIDE DEF rev, stamp, S, f
<1>5. /\ S \in Rows /\ S.rev = rev /\ S.stamp = stamp /\ S.login = q.next.login
      /\ S.password = q.next.password /\ S.secret = q.next.secret /\ S.reset = q.next.reset
  BY <1>2, <1>3, <1>4 DEF Rows
<1>6. CASE q.stage = "final" /\ q.revokes
  <2>1. stamp = f /\ (rev = 0 \/ rev = f) /\ q.next.login = NoChallenge
    BY <1>6 DEF stamp, rev, Prepared
  <2>2. Number(S) = f
    BY <1>1, <1>5, <2>1 DEF Number, Later
  <2>3. Verifies(S)
    BY <1>5, <2>1 DEF Verifies, AsksForFactor, NoChallenge
  <2> QED BY <1>1, <1>5, <1>6, <2>1, <2>2, <2>3 DEF Prepared, HasFactor, S
<1>7. CASE ~(q.stage = "final" /\ q.revokes)
  <2>1. SameCredentials(q.next, row) /\ Verifies(q.next)
    BY <1>7 DEF Prepared, Stores
  <2>2. q.op # "revoke"
    BY <1>7 DEF Prepared
  <2>3. rev = f /\ stamp = row.stamp
    BY <1>7, <2>1, <2>2 DEF rev, stamp, SameCredentials
  <2>4. Number(S) = f
    BY <1>1, <1>5, <2>3 DEF Number, Later
  <2>5. SameCredentials(S, row) /\ Verifies(S)
    BY <1>5, <2>1, <2>3 DEF SameCredentials, Verifies, AsksForFactor, HasFactor
  <2>6. HasFactor(row) => HasFactor(S)
    BY <2>5 DEF SameCredentials, HasFactor
  <2>7. HasFactor(q.next) => HasFactor(S)
    BY <1>5 DEF HasFactor
  <2> QED BY <1>1, <1>5, <2>4, <2>5, <2>6, <2>7 DEF Prepared, Stores, S
<1> QED BY <1>6, <1>7

-----------------------------------------------------------------------------
(* Steps. *)

\* A request that finds the row unchanged has the row there is.
LEMMA UnchangedKnown ==
    ASSUME row \in Rows, NEW q \in Requests, Known(q), Unchanged(q.auth)
    PROVE  q.auth = row
BY DEF Known, Unchanged, Number

\* A save leaves what every request and session relies on.
LEMMA SaveKeeps ==
    ASSUME IInv, NEW r \in Request, request[r] # Idle, Stores(request[r]),
           row' = Stored(request[r])
    PROVE  /\ row' \in Rows /\ Verifies(row)'
           /\ \A p \in Request \ {r} : request[p] # Idle /\ request'[p] = request[p]
                 => Sound(request[p])'
           /\ \A s \in sessions : Current(s.stamp, s.password, s.secret)'
<1> DEFINE q == request[r]
<1>1. q \in Requests /\ Prepared(q) /\ row \in Rows
  BY DEF IInv, TypeOK, Sound
<1>2. /\ row' \in Rows /\ Verifies(row')
      /\ Number(row') = Number(row) + 1
      /\ SameCredentials(row', row) \/ row'.stamp = Number(row) + 1
  BY <1>1, StoredRow
<1>3. Number(row) \in Nat
  BY <1>1, NumberTyped
<1>4. ASSUME NEW stamp \in Nat, NEW pw, NEW s, Current(stamp, pw, s)
      PROVE  Current(stamp, pw, s)'
  <2>1. stamp <= Number(row) /\ stamp <= Number(row')
    BY <1>2, <1>3, <1>4 DEF Current
  <2>2. CASE SameCredentials(row', row)
    <3>1. stamp = row'.stamp => pw = row'.password /\ s = row'.secret /\ HasFactor(row')
      BY <1>4, <2>2 DEF Current, SameCredentials, HasFactor
    <3> QED BY <2>1, <3>1 DEF Current, HasFactor
  <2>3. CASE row'.stamp = Number(row) + 1
    <3>1. stamp # row'.stamp
      BY <1>3, <2>1, <2>3
    <3> QED BY <2>1, <3>1 DEF Current
  <2> QED BY <1>2, <2>2, <2>3
<1>5. ASSUME NEW p \in Request, request[p] # Idle, request'[p] = request[p]
      PROVE  Sound(request[p])'
  <2>1. Sound(request[p]) /\ request[p] \in Requests
    BY <1>5 DEF IInv, TypeOK
  <2>2. request[p].auth \in Rows
    BY <2>1 DEF Requests
  <2>3. Number(request[p].auth) \in Nat /\ Number(request[p].auth) <= Number(row)
    BY <2>1, <2>2, NumberTyped DEF Sound, Known
  <2>4. Number(request[p].auth) < Number(row')
    BY <1>2, <1>3, <2>3
  <2>5. Known(request[p])'
    BY <1>2, <1>3, <1>5, <2>3, <2>4 DEF Known
  <2>6. Prepared(request[p])'
    BY <1>5, <2>1 DEF Sound, Prepared
  <2>7. request[p].auth.stamp \in Nat
    BY <2>2, NumberTyped
  <2> QED BY <1>4, <1>5, <2>1, <2>5, <2>6, <2>7 DEF Sound
<1>6. \A s \in sessions : Current(s.stamp, s.password, s.secret)'
  <2> SUFFICES ASSUME NEW s \in sessions PROVE Current(s.stamp, s.password, s.secret)'
    OBVIOUS
  <2>1. s.stamp \in Nat /\ Current(s.stamp, s.password, s.secret)
    BY DEF IInv, TypeOK
  <2> QED BY <1>4, <2>1
<1> QED BY <1>2, <1>5, <1>6 DEF Verifies, AsksForFactor, HasFactor

\* The parts of the invariant other than the types.
Safe == /\ Verifies(row)
        /\ \A r \in Request : request[r] # Idle => Sound(request[r])
        /\ \A s \in sessions : Current(s.stamp, s.password, s.secret)

\* A step of request r alone.
StepOf(r) == \E n : request' = [request EXCEPT ![r] = n]

LEMMA StepTyped ==
    ASSUME TypeOK, NEW r \in Request, StepOf(r), request'[r] \in {Idle} \cup Requests
    PROVE  /\ request' \in [Request -> {Idle} \cup Requests]
           /\ \A p \in Request \ {r} : request'[p] = request[p]
BY DEF StepOf, TypeOK

\* A step that does not write the row.
LEMMA QuietSafe ==
    ASSUME IInv, NEW r \in Request, StepOf(r), row' = row, sessions' = sessions,
           request'[r] \in {Idle} \cup Requests, request'[r] # Idle => Sound(request[r])'
    PROVE  Safe'
<1>1. \A p \in Request \ {r} : request'[p] = request[p]
  BY StepTyped DEF IInv
<1>2. ASSUME NEW p \in Request, request'[p] # Idle PROVE Sound(request[p])'
  <2>1. CASE p # r
    BY <1>1, <1>2, <2>1 DEF IInv, Sound, Known, Prepared, Current, HasFactor
  <2> QED BY <1>2, <2>1
<1>3. \A s \in sessions' : Current(s.stamp, s.password, s.secret)'
  BY DEF IInv, Current, HasFactor
<1>4. Verifies(row)'
  BY DEF IInv, Verifies, AsksForFactor, HasFactor
<1> QED BY <1>2, <1>3, <1>4 DEF Safe

\* A step that saves the row of the request.
LEMMA SaveSafe ==
    ASSUME IInv, NEW r \in Request, StepOf(r), request[r] # Idle, Stores(request[r]),
           row' = Stored(request[r]), sessions' = sessions,
           request'[r] \in {Idle} \cup Requests, request'[r] # Idle => Sound(request[r])'
    PROVE  Safe' /\ row' \in Rows
<1>1. \A p \in Request \ {r} : request'[p] = request[p]
  BY StepTyped DEF IInv
<1>2. ASSUME NEW p \in Request, request'[p] # Idle PROVE Sound(request[p])'
  <2>1. CASE p # r
    BY <1>1, <1>2, <2>1, SaveKeeps
  <2> QED BY <1>2, <2>1
<1>3. \A s \in sessions' : Current(s.stamp, s.password, s.secret)'
  BY SaveKeeps
<1>4. Verifies(row)' /\ row' \in Rows
  BY SaveKeeps
<1> QED BY <1>2, <1>3, <1>4 DEF Safe

-----------------------------------------------------------------------------
(* Requests. *)

LEMMA AskTyped ==
    ASSUME row \in Rows, NEW op \in Ops, NEW token \in Nat, NEW claim \in Nat
    PROVE  /\ Ask(op, token, claim) \in Requests
           /\ Ask(op, token, claim).op = op /\ Ask(op, token, claim).auth = row
           /\ Ask(op, token, claim).stage = "count" /\ ~Ask(op, token, claim).revokes
           /\ Ask(op, token, claim).token = token
<1>1. <<"none", 0, 0>> \in Codes /\ Tries \in Nat
  BY ConstantTypes DEF Codes
<1> QED BY <1>1 DEF Ask, Requests

\* A request that is about to count an attempt has nothing else in mind.
LEMMA CountSound ==
    ASSUME row \in Rows, Verifies(row), clock \in Nat,
           NEW q \in Requests, MayCount(row, q), NEW n \in Requests,
           n.stage = "count", ~n.revokes,
           n.auth = row, n.op = q.op, n.next = Counted(row, q), n.op # "revoke"
    PROVE  Sound(n)
<1>1. SameCredentials(n.next, row) /\ SameStep(n.next, row)
  BY CountedKeeps
<1>2. Verifies(n.next)
  BY <1>1 DEF Verifies, AsksForFactor, HasFactor, SameCredentials, SameStep
<1>3. n.op = "verify" => HasFactor(row)
  <2> SUFFICES ASSUME n.op = "verify" PROVE HasFactor(row)
    OBVIOUS
  <2>1. Open(row, q) /\ ~InManage(row, q)
    BY DEF MayCount, ChallengeOps, InManage
  <2>2. AsksForFactor(row)
    BY <2>1 DEF Open, Challenge, Kinds, AsksForFactor
  <2> QED BY <2>2 DEF Verifies
<1>4. Number(row) \in Nat
  BY NumberTyped
<1> QED BY <1>1, <1>2, <1>3, <1>4 DEF Sound, Known, Prepared

\* Codes and what using them up leaves.
LEMMA TotpTyped ==
    ASSUME clock \in Nat, NEW S, S \subseteq Nat
    PROVE  /\ TotpCodes(S) \subseteq Codes
           /\ \A f \in TotpCodes(S) : f[2] \in S /\ f[3] \in Nat
<1> SUFFICES ASSUME NEW f \in TotpCodes(S) PROVE f \in Codes /\ f[2] \in S /\ f[3] \in Nat
  OBVIOUS
<1>1. PICK s \in S, t \in (clock - 1 .. clock + 1) \cap Nat : f = <<"totp", s, t>>
  BY DEF TotpCodes
<1>2. s \in Nat /\ t \in Nat
  OBVIOUS
<1> QED BY <1>1, <1>2 DEF Codes

LEMMA ConsumedKeeps ==
    ASSUME NEW a \in Rows, NEW code \in Codes
    PROVE  /\ Consumed(a, code) \in Rows
           /\ SameCredentials(Consumed(a, code), a) /\ Consumed(a, code).login = a.login
           /\ Consumed(a, code).rev = a.rev
<1>1. code[3] \in Nat /\ a.codes \ {code} \in SUBSET Codes
  BY DEF Codes, Rows
<1>2. CASE code[1] = "recovery"
  BY <1>1, <1>2 DEF Consumed, Rows, SameCredentials
<1>3. CASE code[1] # "recovery"
  BY <1>1, <1>3 DEF Consumed, Rows, SameCredentials
<1> QED BY <1>2, <1>3

LEMMA ClearedKeeps ==
    ASSUME NEW a \in Rows
    PROVE  /\ Cleared(a) \in Rows
           /\ SameCredentials(Cleared(a), a) /\ Cleared(a).login = NoChallenge
BY NoneTyped DEF Cleared, Rows, SameCredentials

LEMMA FinalTyped ==
    ASSUME NEW q \in Requests, NEW code \in Codes, NEW a \in Rows, NEW b \in BOOLEAN
    PROVE  /\ Final(q, code, a, b) \in Requests
           /\ Final(q, code, a, b).stage = "final" /\ Final(q, code, a, b).next = a
           /\ Final(q, code, a, b).revokes = b /\ Final(q, code, a, b).op = q.op
           /\ Final(q, code, a, b).auth = q.auth
BY DEF Final, Requests

LEMMA FactorTyped ==
    ASSUME clock \in Nat, NEW a \in Rows
    PROVE  a.codes \cup TotpCodes({a.secret}) \subseteq Codes
<1>1. a.codes \subseteq Codes /\ {a.secret} \subseteq Nat
  BY DEF Rows
<1> QED BY <1>1, TotpTyped

\* A row whose sign-in step is closed, or that was given a new one that asks
\* for no factor.
LEMMA LoginKeeps ==
    ASSUME NEW a \in Rows, NEW c \in Challenges, c.kind # "verify"
    PROVE  /\ [a EXCEPT !.login = c] \in Rows
           /\ SameCredentials([a EXCEPT !.login = c], a)
           /\ Verifies([a EXCEPT !.login = c])
BY DEF Rows, SameCredentials, Verifies, AsksForFactor

\* Whatever code is accepted, the request comes to save a row that keeps the
\* credentials or revokes what was signed in with them.
LEMMA AcceptedSound ==
    ASSUME clock \in Nat, NEW x \in Rows, Verifies(x), NEW q \in Requests, q.auth = x,
           q.op = "verify" => HasFactor(x), NEW f \in Accepted(q)
    PROVE  f \in Requests /\ f.auth = x /\ f.stage = "final" /\ f.op = q.op /\ Prepared(f)
<1> DEFINE Factors == x.codes \cup TotpCodes({x.secret})
           c == Challenge(x, q)
<1>1. Factors \subseteq Codes
  BY FactorTyped
<1>2. Fresh(x) \in Nat
  BY NumberTyped
<1>3. c \in Challenges /\ c.secret \in Nat
  BY DEF Challenge, Rows, Challenges
<1>4. NoChallenge \in Challenges /\ NoChallenge.kind # "verify" /\ NoTicket \in [id: Nat, expires: Nat]
  BY NoneTyped DEF NoChallenge
<1>5. ASSUME NEW code \in Codes, NEW n \in Rows, f = Final(q, code, n, FALSE),
             SameCredentials(n, x), Verifies(n), q.op \notin {"confirm", "revoke"}
      PROVE  f \in Requests /\ f.auth = x /\ f.stage = "final" /\ f.op = q.op /\ Prepared(f)
  <2>1. f \in Requests /\ f.auth = x /\ f.stage = "final" /\ f.op = q.op /\ ~f.revokes /\ f.next = n
    <3>1. Final(q, code, n, FALSE) \in Requests
      BY DEF Final, Requests
    <3> QED BY <1>5, <3>1 DEF Final, Requests
  <2>2. q.op = "verify" => HasFactor(n)
    BY <1>5 DEF SameCredentials, HasFactor
  <2> QED BY <1>5, <2>1, <2>2 DEF Prepared
<1>6. ASSUME NEW code \in Codes, NEW n \in Rows, f = Final(q, code, n, TRUE),
             n.login = NoChallenge, q.op \notin {"verify", "revoke"}, q.op = "confirm" => HasFactor(n)
      PROVE  f \in Requests /\ f.auth = x /\ f.stage = "final" /\ f.op = q.op /\ Prepared(f)
  <2>1. f \in Requests /\ f.auth = x /\ f.stage = "final" /\ f.op = q.op /\ f.revokes /\ f.next = n
    <3>1. Final(q, code, n, TRUE) \in Requests
      BY DEF Final, Requests
    <3> QED BY <1>6, <3>1 DEF Final, Requests
  <2> QED BY <1>6, <2>1 DEF Prepared
<1>7. CASE q.op = "verify"
  <2>1. PICK code \in Factors : f = Final(q, code, [Consumed(x, code) EXCEPT !.login = NoChallenge], FALSE)
    BY <1>7 DEF Accepted
  <2> DEFINE n == [Consumed(x, code) EXCEPT !.login = NoChallenge]
  <2>2. code \in Codes
    BY <1>1
  <2>3. n \in Rows /\ SameCredentials(n, Consumed(x, code)) /\ Verifies(n)
    BY <1>4, <2>2, ConsumedKeeps, LoginKeeps
  <2>4. SameCredentials(n, x)
    BY <2>2, <2>3, ConsumedKeeps DEF SameCredentials
  <2> HIDE DEF n
  <2> QED BY <1>5, <1>7, <2>1, <2>2, <2>3, <2>4 DEF n
<1>8. CASE q.op = "confirm"
  <2>1. PICK code \in TotpCodes({c.secret} \ {0}) :
          f = Final(q, code, [Cleared(x) EXCEPT !.secret = c.secret, !.last = code[3],
                                     !.codes = RecoveryCodes(Fresh(x)), !.reset = FALSE], TRUE)
    BY <1>8 DEF Accepted
  <2> DEFINE n == [Cleared(x) EXCEPT !.secret = c.secret, !.last = code[3],
                                     !.codes = RecoveryCodes(Fresh(x)), !.reset = FALSE]
  <2>2. code \in Codes /\ code[2] \in {c.secret} \ {0} /\ code[3] \in Nat
    BY <1>3, TotpTyped
  <2>3. c.secret # 0
    BY <2>2
  <2>4. n \in Rows /\ n.login = NoChallenge /\ HasFactor(n)
    <3>1. RecoveryCodes(Fresh(x)) \in SUBSET Codes
      BY <1>2, RecoveryTyped
    <3>2. Cleared(x) \in Rows /\ Cleared(x).login = NoChallenge
      BY ClearedKeeps
    <3> HIDE DEF c
    <3> QED BY <1>3, <2>2, <2>3, <3>1, <3>2 DEF Rows, HasFactor
  <2> HIDE DEF n
  <2> QED BY <1>6, <1>8, <2>1, <2>2, <2>4 DEF n
<1>9. CASE q.op = "replace"
  <2>1. PICK code \in Factors :
          f = Final(q, code, [Consumed(x, code) EXCEPT !.manage = NewChallenge(x, "replace")], FALSE)
    BY <1>9 DEF Accepted
  <2> DEFINE n == [Consumed(x, code) EXCEPT !.manage = NewChallenge(x, "replace")]
  <2>2. code \in Codes /\ NewChallenge(x, "replace") \in Challenges
    BY <1>1, ChallengeTyped
  <2>3. /\ Consumed(x, code) \in Rows /\ SameCredentials(Consumed(x, code), x)
        /\ Consumed(x, code).login = x.login
    BY <2>2, ConsumedKeeps
  <2>4. n \in Rows /\ SameCredentials(n, x) /\ n.login = x.login
    BY <2>2, <2>3 DEF Rows, SameCredentials
  <2>5. Verifies(n)
    BY <2>4 DEF Verifies, AsksForFactor, HasFactor, SameCredentials
  <2> HIDE DEF n
  <2> QED BY <1>5, <1>9, <2>1, <2>2, <2>4, <2>5 DEF n
<1>10. CASE q.op = "regenerate"
  <2>1. PICK code \in Factors :
          f = Final(q, code, [Cleared(Consumed(x, code)) EXCEPT !.codes = RecoveryCodes(Fresh(x))], TRUE)
    BY <1>10 DEF Accepted
  <2> DEFINE n == [Cleared(Consumed(x, code)) EXCEPT !.codes = RecoveryCodes(Fresh(x))]
  <2>2. code \in Codes /\ RecoveryCodes(Fresh(x)) \in SUBSET Codes
    BY <1>1, <1>2, RecoveryTyped
  <2>3. Cleared(Consumed(x, code)) \in Rows /\ Cleared(Consumed(x, code)).login = NoChallenge
    BY <2>2, ConsumedKeeps, ClearedKeeps
  <2>4. n \in Rows /\ n.login = NoChallenge
    BY <2>2, <2>3 DEF Rows
  <2> HIDE DEF n
  <2> QED BY <1>6, <1>10, <2>1, <2>2, <2>4 DEF n
<1>11. CASE q.op = "redeem"
  <2>1. f = Final(q, TicketOf(x), [x EXCEPT !.ticket = NoTicket, !.login = NewChallenge(x, "enroll")], FALSE)
    BY <1>11 DEF Accepted
  <2> DEFINE e == NewChallenge(x, "enroll")
             b == [x EXCEPT !.ticket = NoTicket]
             n == [x EXCEPT !.ticket = NoTicket, !.login = e]
  <2>2. e \in Challenges /\ e.kind # "verify"
    BY ChallengeTyped
  <2> HIDE DEF e
  <2>3. b \in Rows /\ SameCredentials(b, x)
    BY <1>4 DEF Rows, SameCredentials
  <2>4. n = [b EXCEPT !.login = e]
    BY DEF Rows
  <2>5. n \in Rows /\ SameCredentials(n, b) /\ Verifies(n)
    BY <2>2, <2>3, <2>4, LoginKeeps
  <2>6. SameCredentials(n, x)
    BY <2>3, <2>5 DEF SameCredentials
  <2>7. TicketOf(x) \in Codes
    BY DEF TicketOf, Codes, Rows
  <2> HIDE DEF n
  <2> QED BY <1>5, <1>11, <2>1, <2>5, <2>6, <2>7 DEF n, e
<1>12. CASE q.op \notin {"verify", "confirm", "replace", "regenerate", "redeem"}
  BY <1>12 DEF Accepted
<1> QED BY <1>7, <1>8, <1>9, <1>10, <1>11, <1>12

-----------------------------------------------------------------------------
(* The actions keep the invariant. *)

\* A request that starts from the row there is.
LEMMA StartKeeps ==
    ASSUME IInv, NEW r \in Request, NEW n \in Requests, Becomes(r, n),
           n.auth = row, Prepared(n), n.stage # "session",
           UNCHANGED <<row, clock, sessions, used, tested>>
    PROVE  IInv'
<1>1. request'[r] = n /\ StepOf(r)
  BY DEF IInv, TypeOK, Becomes, StepOf
<1>2. Number(row) \in Nat
  BY NumberTyped DEF IInv, TypeOK
<1>3. Sound(n)
  BY <1>2 DEF Sound, Known
<1>4. Sound(request[r])'
  BY <1>1, <1>3 DEF Sound, Known, Prepared, Current
<1>5. Safe'
  BY <1>1, <1>4, QuietSafe
<1>6. TypeOK'
  BY <1>1, StepTyped DEF IInv, TypeOK
<1> QED BY <1>5, <1>6 DEF IInv, Safe

LEMMA EndKeeps ==
    ASSUME IInv, NEW r \in Request, Ends(r), UNCHANGED <<row, clock, sessions, used, tested>>
    PROVE  IInv'
<1>1. request'[r] = Idle /\ StepOf(r)
  BY DEF IInv, TypeOK, Ends, Becomes, StepOf
<1>2. Safe'
  BY <1>1, QuietSafe
<1>3. TypeOK'
  BY <1>1, StepTyped DEF IInv, TypeOK
<1> QED BY <1>2, <1>3 DEF IInv, Safe

LEMMA QuestionTyped ==
    ASSUME IInv, NEW q \in Questions
    PROVE  /\ q \in Requests /\ q.op # "revoke" /\ q.auth = row /\ q.stage = "count" /\ ~q.revokes
<1>1. row \in Rows /\ row.login.id \in Nat /\ row.manage.id \in Nat
  BY DEF IInv, TypeOK, Rows, Challenges
<1>2. CASE q = Ask("signin", 0, 0)
  BY <1>1, <1>2, AskTyped DEF Ops
<1>3. ASSUME NEW op \in ChallengeOps, NEW c \in {row.login, row.manage}, q = Ask(op, c.id, 0)
      PROVE  /\ q \in Requests /\ q.op # "revoke" /\ q.auth = row /\ q.stage = "count" /\ ~q.revokes
  <2>1. c.id \in Nat /\ op \in Ops /\ op # "revoke"
    BY <1>1 DEF Ops, ChallengeOps
  <2> QED BY <1>1, <1>3, <2>1, AskTyped
<1>4. ASSUME NEW op \in ManageOps, NEW s \in sessions, q = Ask(op, 0, s.stamp)
      PROVE  /\ q \in Requests /\ q.op # "revoke" /\ q.auth = row /\ q.stage = "count" /\ ~q.revokes
  <2>1. s.stamp \in Nat /\ op \in Ops /\ op # "revoke"
    BY DEF Ops, ManageOps, IInv, TypeOK
  <2> QED BY <1>1, <1>4, <2>1, AskTyped
<1> QED BY <1>2, <1>3, <1>4 DEF Questions

LEMMA BeginKeeps == ASSUME IInv, NEW r \in Request, Begin(r) PROVE IInv'
<1>1. PICK q \in Questions : MayCount(row, q) /\ Becomes(r, [q EXCEPT !.next = Counted(row, q)])
  BY DEF Begin
<1> DEFINE n == [q EXCEPT !.next = Counted(row, q)]
<1>2. row \in Rows /\ clock \in Nat /\ Verifies(row)
  BY DEF IInv, TypeOK
<1>3. q \in Requests /\ q.op # "revoke" /\ q.auth = row /\ q.stage = "count" /\ ~q.revokes
  BY QuestionTyped
<1>4. Counted(row, q) \in Rows
  BY <1>2, <1>3, CountedKeeps
<1>5. /\ n \in Requests /\ n.stage = "count" /\ ~n.revokes /\ n.auth = row
      /\ n.op = q.op /\ n.next = Counted(row, q)
  BY <1>3, <1>4 DEF Requests
<1> HIDE DEF n
<1>6. Sound(n)
  BY <1>1, <1>2, <1>3, <1>5, CountSound
<1> QED BY <1>1, <1>5, <1>6, StartKeeps DEF Sound, Begin, n

LEMMA RetryKeeps == ASSUME IInv, NEW r \in Request, Retry(r) PROVE IInv'
<1> DEFINE q == request[r]
           n == [q EXCEPT !.auth = row, !.next = Counted(row, q), !.tries = @ - 1]
<1>1. q.stage = "count" /\ q.tries > 1 /\ MayCount(row, q) /\ Becomes(r, n)
  BY DEF Retry
<1>2. row \in Rows /\ clock \in Nat /\ Verifies(row)
  BY DEF IInv, TypeOK
<1>3. q # Idle
  BY <1>1 DEF Idle
<1>4. q \in Requests /\ Prepared(q)
  BY <1>3 DEF IInv, TypeOK, Sound
<1>5. Counted(row, q) \in Rows /\ q.tries - 1 \in Nat
  BY <1>1, <1>2, <1>4, CountedKeeps DEF Requests
<1>6. q.op # "revoke" /\ ~q.revokes
  BY <1>1, <1>4 DEF Prepared
<1> HIDE DEF q
<1>7. /\ n \in Requests /\ n.stage = "count" /\ ~n.revokes /\ n.auth = row
      /\ n.op = q.op /\ n.next = Counted(row, q)
  BY <1>1, <1>2, <1>4, <1>5, <1>6 DEF Requests
<1> HIDE DEF n
<1>8. Sound(n)
  BY <1>1, <1>2, <1>4, <1>6, <1>7, CountSound
<1> QED BY <1>1, <1>7, <1>8, StartKeeps DEF Sound, Retry, n, q

LEMMA StartEnrollmentKeeps == ASSUME IInv, NEW r \in Request, StartEnrollment(r) PROVE IInv'
<1>1. PICK c \in {row.login, row.manage} \ {NoChallenge} :
        Becomes(r, [Ask("enroll", c.id, 0) EXCEPT
                      !.stage = "final",
                      !.next = WithChallenge(row, Ask("enroll", c.id, 0), [c EXCEPT !.secret = Fresh(row)])])
  BY DEF StartEnrollment
<1> DEFINE q == Ask("enroll", c.id, 0)
           d == [c EXCEPT !.secret = Fresh(row)]
           w == WithChallenge(row, q, d)
           n == [q EXCEPT !.stage = "final", !.next = w]
<1>2. row \in Rows /\ Verifies(row) /\ c \in Challenges
  BY DEF IInv, TypeOK, Rows
<1>3. c.id \in Nat /\ Fresh(row) \in Nat
  BY <1>2, NumberTyped DEF Challenges
<1>4. /\ q \in Requests /\ q.op = "enroll" /\ q.auth = row /\ ~q.revokes /\ q.token = c.id
  <2>1. "enroll" \in Ops /\ 0 \in Nat
    BY DEF Ops
  <2> QED BY <1>2, <1>3, <2>1, AskTyped
<1>5. d \in Challenges /\ d.kind = c.kind /\ d.stamp = c.stamp
  BY <1>2, <1>3 DEF Challenges
<1>6. ~InManage(row, q) => c = row.login
  BY <1>4 DEF InManage
<1>11. Becomes(r, n)
  BY <1>1
<1> HIDE DEF q, d
<1>7. w \in Rows /\ SameCredentials(w, row) /\ SameStep(w, row)
  <2>1. CASE InManage(row, q)
    BY <1>2, <1>5, <2>1 DEF WithChallenge, Rows, SameCredentials, SameStep
  <2>2. CASE ~InManage(row, q)
    BY <1>2, <1>5, <1>6, <2>2 DEF WithChallenge, Rows, SameCredentials, SameStep
  <2> QED BY <2>1, <2>2
<1>8. Verifies(w)
  BY <1>2, <1>7 DEF Verifies, AsksForFactor, HasFactor, SameCredentials, SameStep
<1> HIDE DEF w
<1>9. n \in Requests /\ n.stage = "final" /\ n.op = "enroll" /\ n.auth = row /\ n.next = w /\ ~n.revokes
  BY <1>4, <1>7 DEF Requests
<1>10. Prepared(n)
  BY <1>7, <1>8, <1>9 DEF Prepared
<1> HIDE DEF n
<1>12. n.stage # "session" /\ UNCHANGED <<row, clock, sessions, used, tested>>
  BY <1>9 DEF StartEnrollment
<1> QED BY <1>9, <1>10, <1>11, <1>12, StartKeeps

LEMMA StartChangeKeeps == ASSUME IInv, NEW r \in Request, StartChange(r) PROVE IInv'
<1>1. PICK q \in Revoking : Becomes(r, [q EXCEPT !.stage = "final", !.revokes = TRUE])
  BY DEF StartChange
<1> DEFINE n == [q EXCEPT !.stage = "final", !.revokes = TRUE]
<1>2. row \in Rows /\ clock \in Nat
  BY DEF IInv, TypeOK
<1>3. Cleared(row) \in Rows /\ Cleared(row).login = NoChallenge
  BY <1>2, ClearedKeeps
<1>4. ASSUME NEW op \in {"password", "revoke", "reset"}, NEW a \in Rows, a.login = NoChallenge,
             q = [Ask(op, 0, 0) EXCEPT !.next = a]
      PROVE  n \in Requests /\ n.auth = row /\ n.stage = "final" /\ Prepared(n)
  <2>1. Ask(op, 0, 0) \in Requests /\ Ask(op, 0, 0).op = op /\ Ask(op, 0, 0).auth = row
    BY <1>2, AskTyped DEF Ops
  <2>2. n \in Requests /\ n.auth = row /\ n.stage = "final" /\ n.op = op /\ n.next = a /\ n.revokes
    BY <1>4, <2>1 DEF Requests
  <2> HIDE DEF n
  <2> QED BY <1>4, <2>2 DEF Prepared
<1>5. ASSUME NEW p \in Password, q = [Ask("password", 0, 0) EXCEPT !.next = [Cleared(row) EXCEPT !.password = p]]
      PROVE  n \in Requests /\ n.auth = row /\ n.stage = "final" /\ Prepared(n)
  <2>1. [Cleared(row) EXCEPT !.password = p] \in Rows
        /\ [Cleared(row) EXCEPT !.password = p].login = NoChallenge
    BY <1>3 DEF Rows
  <2> HIDE DEF n
  <2> QED BY <1>4, <1>5, <2>1
<1>6. ASSUME q = [Ask("revoke", 0, 0) EXCEPT !.next = Cleared(row)]
      PROVE  n \in Requests /\ n.auth = row /\ n.stage = "final" /\ Prepared(n)
  <2> DEFINE b == Cleared(row)
  <2>1. b \in Rows /\ b.login = NoChallenge /\ q = [Ask("revoke", 0, 0) EXCEPT !.next = b]
    BY <1>3, <1>6
  <2>2. "revoke" \in {"password", "revoke", "reset"}
    OBVIOUS
  <2> HIDE DEF n, b
  <2> QED BY <1>4, <2>1, <2>2
<1> DEFINE a == [Cleared(row) EXCEPT !.secret = 0, !.last = -1, !.codes = {}, !.reset = TRUE,
                            !.ticket = [id |-> Fresh(row), expires |-> clock + TicketTicks]]
<1>7. ASSUME q = [Ask("reset", 0, 0) EXCEPT !.next = a]
      PROVE  n \in Requests /\ n.auth = row /\ n.stage = "final" /\ Prepared(n)
  <2>1. [id |-> Fresh(row), expires |-> clock + TicketTicks] \in [id: Nat, expires: Nat]
    BY <1>2, NumberTyped, ConstantTypes
  <2>2. a \in Rows /\ a.login = NoChallenge
    BY <1>3, <2>1 DEF Rows
  <2>3. q = [Ask("reset", 0, 0) EXCEPT !.next = a]
    BY <1>7
  <2>4. "reset" \in {"password", "revoke", "reset"}
    OBVIOUS
  <2> HIDE DEF n, a
  <2> QED BY <1>4, <2>2, <2>3, <2>4
<1>8. n \in Requests /\ n.auth = row /\ n.stage = "final" /\ Prepared(n)
  <2>1. \/ \E p \in Password :
             q = [Ask("password", 0, 0) EXCEPT !.next = [Cleared(row) EXCEPT !.password = p]]
        \/ q = [Ask("revoke", 0, 0) EXCEPT !.next = Cleared(row)]
        \/ q = [Ask("reset", 0, 0) EXCEPT !.next = a]
    BY DEF Revoking
  <2> HIDE DEF n, a
  <2> QED BY <1>5, <1>6, <1>7, <2>1
<1>9. Becomes(r, n) /\ UNCHANGED <<row, clock, sessions, used, tested>>
  BY <1>1 DEF StartChange
<1> HIDE DEF n
<1> QED BY <1>8, <1>9, StartKeeps

LEMMA AuthenticateKeeps == ASSUME IInv, NEW r \in Request, Authenticate(r) PROVE IInv'
<1> DEFINE q == request[r]
           n == [q EXCEPT !.stage = "challenge", !.auth = row]
<1>1. q # Idle /\ q.stage = "password" /\ UNCHANGED <<row, clock, sessions, used, tested>>
      /\ (Becomes(r, n) \/ Ends(r))
  BY DEF Authenticate
<1>2. q \in Requests /\ Prepared(q) /\ row \in Rows
  BY <1>1 DEF IInv, TypeOK, Sound
<1>3. q.op = "signin" /\ ~q.revokes
  BY <1>1, <1>2 DEF Prepared
<1> HIDE DEF q
<1>4. n \in Requests /\ n.auth = row /\ n.stage = "challenge" /\ n.op = "signin" /\ ~n.revokes
  BY <1>2, <1>3 DEF Requests
<1> HIDE DEF n
<1>5. Prepared(n)
  BY <1>4 DEF Prepared
<1> QED BY <1>1, <1>4, <1>5, StartKeeps, EndKeeps

LEMMA CompleteLoginKeeps == ASSUME IInv, NEW r \in Request, CompleteLogin(r) PROVE IInv'
<1> DEFINE q == request[r]
           kind == IF row.reset THEN "recover" ELSE IF row.secret # 0 THEN "verify" ELSE "enroll"
           c == NewChallenge(row, kind)
           a == [row EXCEPT !.login = c]
           n == [q EXCEPT !.stage = "final", !.auth = row, !.next = a]
<1>1. q.stage = "challenge" /\ UNCHANGED <<row, clock, sessions, used, tested>>
      /\ (Becomes(r, n) \/ Ends(r))
  BY DEF CompleteLogin
<1>2. q # Idle
  BY <1>1 DEF Idle
<1>3. q \in Requests /\ Prepared(q) /\ row \in Rows /\ clock \in Nat
  BY <1>2 DEF IInv, TypeOK, Sound
<1>4. q.op = "signin" /\ ~q.revokes
  BY <1>1, <1>3 DEF Prepared
<1>5. c \in Challenges /\ c.kind = kind
  BY <1>3, ChallengeTyped
<1>6. kind = "verify" => HasFactor(row)
  BY DEF HasFactor
<1> HIDE DEF q, c, kind
<1>7. a \in Rows /\ SameCredentials(a, row) /\ a.login = c
  BY <1>3, <1>5 DEF Rows, SameCredentials
<1> HIDE DEF a
<1>8. Verifies(a)
  BY <1>5, <1>6, <1>7 DEF Verifies, AsksForFactor, HasFactor, SameCredentials
<1>9. n \in Requests /\ n.auth = row /\ n.stage = "final" /\ n.op = "signin" /\ ~n.revokes /\ n.next = a
  BY <1>3, <1>4, <1>7 DEF Requests
<1> HIDE DEF n
<1>10. Prepared(n)
  BY <1>7, <1>8, <1>9 DEF Prepared
<1> QED BY <1>1, <1>9, <1>10, StartKeeps, EndKeeps

\* A request that gets to save has the row there is.
LEMMA SaverKnows ==
    ASSUME IInv, NEW r \in Request, request[r].stage \in {"count", "final"}, Unchanged(request[r].auth)
    PROVE  /\ request[r] # Idle /\ request[r] \in Requests /\ row \in Rows /\ clock \in Nat
           /\ Stores(request[r]) /\ Prepared(request[r])
<1>1. request[r] # Idle
  BY DEF Idle
<1>2. request[r] \in Requests /\ Sound(request[r]) /\ row \in Rows /\ clock \in Nat
  BY <1>1 DEF IInv, TypeOK
<1>3. request[r].auth = row
  BY <1>2, UnchangedKnown DEF Sound
<1> QED BY <1>1, <1>2, <1>3 DEF Stores, Sound

\* Saving keeps the invariant if the request goes on with the row it saved.
LEMMA SaverKeeps ==
    ASSUME IInv, NEW r \in Request, request[r].stage \in {"count", "final"}, Unchanged(request[r].auth),
           row' = Stored(request[r]), StepOf(r), request'[r] \in {Idle} \cup Requests,
           request'[r] # Idle =>
               /\ request'[r].auth = row' /\ Prepared(request[r])'
               /\ request'[r].stage = "session" => HasFactor(row)',
           UNCHANGED <<clock, sessions>>, used' \subseteq Codes, tested' \subseteq Nat \X Nat \X Nat
    PROVE  IInv'
<1>1. /\ request[r] # Idle /\ request[r] \in Requests /\ row \in Rows
      /\ Stores(request[r]) /\ Prepared(request[r])
  BY SaverKnows
<1>2. row' \in Rows
  BY <1>1, StoredRow
<1>3. Number(row') \in Nat /\ row'.stamp <= Number(row')
  BY <1>2, NumberTyped
<1>4. ASSUME request'[r] # Idle PROVE Sound(request[r])'
  <2>1. Known(request[r])'
    BY <1>3, <1>4 DEF Known
  <2>2. request'[r].stage = "session" =>
          Current(request[r].auth.stamp, request[r].auth.password, request[r].auth.secret)'
    BY <1>3, <1>4 DEF Current, HasFactor
  <2> QED BY <1>4, <2>1, <2>2 DEF Sound
<1>5. Safe'
  BY <1>1, <1>4, SaveSafe
<1>6. TypeOK'
  <2>1. request' \in [Request -> {Idle} \cup Requests]
    BY StepTyped DEF IInv
  <2> QED BY <1>2, <2>1 DEF IInv, TypeOK
<1> QED BY <1>5, <1>6 DEF IInv, Safe

LEMMA CountSignInKeeps == ASSUME IInv, NEW r \in Request, CountSignIn(r) PROVE IInv'
<1> DEFINE q == request[r]
           n == [q EXCEPT !.stage = "password", !.auth = row', !.next = row']
<1>1. /\ q.stage = "count" /\ q.op = "signin" /\ Unchanged(q.auth) /\ row' = Stored(q)
      /\ Becomes(r, n) /\ UNCHANGED <<clock, sessions, used, tested>>
  BY DEF CountSignIn
<1>2. q \in Requests /\ Prepared(q) /\ Stores(q) /\ row \in Rows
  BY <1>1, SaverKnows
<1>3. row' \in Rows
  BY <1>1, <1>2, StoredRow
<1>4. ~q.revokes
  BY <1>1, <1>2 DEF Prepared
<1>5. request'[r] = n /\ StepOf(r)
  BY <1>1 DEF IInv, TypeOK, Becomes, StepOf
<1>6. n \in Requests /\ n.stage = "password" /\ n.op = "signin" /\ n.auth = row' /\ ~n.revokes
  <2> HIDE DEF q
  <2> QED BY <1>1, <1>2, <1>3, <1>4 DEF Requests
<1> HIDE DEF n
<1>7. Prepared(request[r])'
  BY <1>5, <1>6 DEF Prepared
<1>8. used' \subseteq Codes /\ tested' \subseteq Nat \X Nat \X Nat
  BY <1>1 DEF IInv, TypeOK
<1> QED BY <1>1, <1>5, <1>6, <1>7, <1>8, SaverKeeps

LEMMA CountAndTestKeeps == ASSUME IInv, NEW r \in Request, CountAndTest(r) PROVE IInv'
<1> DEFINE q == request[r]
           p == [q EXCEPT !.auth = row', !.next = row']
<1>1. /\ q.stage = "count" /\ Unchanged(q.auth) /\ row' = Stored(q)
      /\ tested' = tested \cup {<<q.token, row'.limits["factor"].expires, row'.rev>>}
      /\ (\E a \in Accepted(p) : Becomes(r, a)) \/ Ends(r)
      /\ UNCHANGED <<clock, sessions, used>>
  BY DEF CountAndTest
<1>2. q \in Requests /\ Prepared(q) /\ Stores(q) /\ row \in Rows /\ clock \in Nat
  BY <1>1, SaverKnows
<1>3. row' \in Rows /\ Verifies(row') /\ (q.op = "verify" => HasFactor(row'))
  BY <1>1, <1>2, StoredRow
<1>4. p \in Requests /\ p.auth = row' /\ p.op = q.op
  <2> HIDE DEF q
  <2> QED BY <1>2, <1>3 DEF Requests
<1>5. used' \subseteq Codes /\ tested' \subseteq Nat \X Nat \X Nat
  <2>1. q.token \in Nat /\ row'.limits["factor"].expires \in Nat /\ row'.rev \in Nat
    BY <1>2, <1>3 DEF Requests, Rows
  <2> QED BY <1>1, <2>1 DEF IInv, TypeOK
<1>6. ASSUME NEW a \in Accepted(p), Becomes(r, a) PROVE IInv'
  <2> HIDE DEF p
  <2>1. a \in Requests /\ a.auth = row' /\ a.stage = "final" /\ Prepared(a)
    BY <1>2, <1>3, <1>4, AcceptedSound
  <2>2. request'[r] = a /\ StepOf(r)
    BY <1>6 DEF IInv, TypeOK, Becomes, StepOf
  <2>3. Prepared(request[r])'
    BY <2>1, <2>2 DEF Prepared
  <2> QED BY <1>1, <1>5, <2>1, <2>2, <2>3, SaverKeeps
<1>7. CASE Ends(r)
  <2>1. request'[r] = Idle /\ StepOf(r)
    BY <1>7 DEF IInv, TypeOK, Ends, Becomes, StepOf
  <2> QED BY <1>1, <1>5, <2>1, SaverKeeps
<1> QED BY <1>1, <1>6, <1>7

LEMMA SaveActionKeeps == ASSUME IInv, NEW r \in Request, Save(r) PROVE IInv'
<1> DEFINE q == request[r]
           n == [q EXCEPT !.stage = "session", !.auth = row', !.next = row']
<1>1. /\ q.stage = "final" /\ Unchanged(q.auth) /\ row' = Stored(q)
      /\ used' = used \cup Spent(q) /\ UNCHANGED <<clock, sessions, tested>>
      /\ (q.op \in {"verify", "confirm"} /\ Becomes(r, n)) \/ Ends(r)
  BY DEF Save
<1>2. q \in Requests /\ Prepared(q) /\ Stores(q) /\ row \in Rows
  BY <1>1, SaverKnows
<1>3. row' \in Rows /\ (q.op \in {"verify", "confirm"} => HasFactor(row'))
  BY <1>1, <1>2, StoredRow
<1>4. used' \subseteq Codes /\ tested' \subseteq Nat \X Nat \X Nat
  <2>1. q.code \in Codes /\ <<"challenge", q.token, 0>> \in Codes
    BY <1>2 DEF Requests, Codes
  <2>2. Spent(q) \subseteq Codes
    BY <2>1 DEF Spent
  <2> QED BY <1>1, <2>2 DEF IInv, TypeOK
<1>5. ASSUME q.op \in {"verify", "confirm"}, Becomes(r, n) PROVE IInv'
  <2>1. request'[r] = n /\ StepOf(r)
    BY <1>5 DEF IInv, TypeOK, Becomes, StepOf
  <2>2. n \in Requests /\ n.stage = "session" /\ n.op = q.op /\ n.auth = row'
    <3> HIDE DEF q
    <3> QED BY <1>2, <1>3 DEF Requests
  <2> HIDE DEF n
  <2>3. Prepared(request[r])'
    BY <1>5, <2>1, <2>2 DEF Prepared
  <2>4. HasFactor(row)'
    BY <1>3, <1>5 DEF HasFactor
  <2> QED BY <1>1, <1>4, <2>1, <2>2, <2>3, <2>4, SaverKeeps
<1>6. CASE Ends(r)
  <2>1. request'[r] = Idle /\ StepOf(r)
    BY <1>6 DEF IInv, TypeOK, Ends, Becomes, StepOf
  <2> QED BY <1>1, <1>4, <2>1, SaverKeeps
<1> QED BY <1>1, <1>5, <1>6

\* A session is only issued while the stamp that was signed in with stays.
LEMMA CreateSessionKeeps == ASSUME IInv, NEW r \in Request, CreateSession(r) PROVE IInv'
<1> DEFINE q == request[r]
           s == [id |-> q.token, stamp |-> q.auth.stamp, time |-> clock,
                 password |-> q.auth.password, secret |-> q.auth.secret]
<1>1. /\ q.stage = "session" /\ Ends(r) /\ UNCHANGED <<row, clock, used, tested>>
      /\ sessions' \subseteq sessions \cup {s}
  BY DEF CreateSession
<1>2. q # Idle
  BY <1>1 DEF Idle
<1>3. q \in Requests /\ Current(q.auth.stamp, q.auth.password, q.auth.secret)
  BY <1>1, <1>2 DEF IInv, TypeOK, Sound
<1>4. s \in [id: Nat, stamp: Nat, time: Nat, password: Password, secret: Nat]
  BY <1>3 DEF Requests, Rows, IInv, TypeOK
<1>5. s.stamp = q.auth.stamp /\ s.password = q.auth.password /\ s.secret = q.auth.secret
  OBVIOUS
<1> HIDE DEF q, s
<1>6. \A t \in sessions' : Current(t.stamp, t.password, t.secret)
  BY <1>1, <1>3, <1>5 DEF IInv
<1>7. request'[r] = Idle /\ StepOf(r)
  BY <1>1 DEF IInv, TypeOK, Ends, Becomes, StepOf
<1>8. \A p \in Request \ {r} : request'[p] = request[p]
  BY <1>7, StepTyped DEF IInv
<1>9. TypeOK'
  <2>1. sessions' \subseteq [id: Nat, stamp: Nat, time: Nat, password: Password, secret: Nat]
    BY <1>1, <1>4 DEF IInv, TypeOK
  <2> QED BY <1>1, <1>7, <2>1, StepTyped DEF IInv, TypeOK
<1>10. ASSUME NEW p \in Request, request'[p] # Idle PROVE Sound(request[p])'
  <2>1. p # r /\ request'[p] = request[p] /\ Sound(request[p])
    BY <1>7, <1>8, <1>10 DEF IInv
  <2> QED BY <1>1, <2>1 DEF Sound, Known, Prepared, Current, HasFactor
<1>11. \A t \in sessions' : Current(t.stamp, t.password, t.secret)'
  BY <1>1, <1>6 DEF Current, HasFactor
<1>12. Verifies(row)'
  BY <1>1 DEF IInv, Verifies, AsksForFactor, HasFactor
<1> QED BY <1>9, <1>10, <1>11, <1>12 DEF IInv

LEMMA NewRowTyped ==
    ASSUME NEW p \in Password
    PROVE  /\ NewRow(p) \in Rows /\ EnrolledRow(p) \in Rows /\ ResetRow(p) \in Rows
           /\ NewRow(p).login = NoChallenge /\ EnrolledRow(p).login = NoChallenge
           /\ ResetRow(p).login = NoChallenge
<1>1. [kind \in {"password", "factor"} |-> NoLimit]
        \in [{"password", "factor"} -> [count: Nat, expires: Nat]]
  BY NoneTyped
<1>2. NewRow(p) \in Rows /\ NewRow(p).login = NoChallenge
  BY <1>1, NoneTyped DEF NewRow, Rows
<1>3. RecoveryCodes(1) \in SUBSET Codes
  BY RecoveryTyped
<1>4. [id |-> 1, expires |-> TicketTicks] \in [id: Nat, expires: Nat]
  BY ConstantTypes
<1> DEFINE a == NewRow(p)
<1> HIDE DEF a
<1>5. EnrolledRow(p) \in Rows /\ EnrolledRow(p).login = NoChallenge
  BY <1>2, <1>3 DEF EnrolledRow, Rows
<1>6. ResetRow(p) \in Rows /\ ResetRow(p).login = NoChallenge
  BY <1>2, <1>4 DEF ResetRow, Rows
<1> QED BY <1>2, <1>5, <1>6

LEMMA InitInvariant == Init => IInv
<1> SUFFICES ASSUME Init PROVE IInv
  OBVIOUS
<1>1. row \in Rows /\ row.login = NoChallenge
  BY NewRowTyped DEF Init
<1>2. Verifies(row)
  BY <1>1 DEF Verifies, AsksForFactor, NoChallenge
<1>3. TypeOK
  BY <1>1 DEF Init, TypeOK
<1> QED BY <1>2, <1>3 DEF IInv, Init

LEMMA NextKeeps == ASSUME IInv, Next PROVE IInv'
<1>1. ASSUME NEW r \in Request, Conflict(r) PROVE IInv'
  BY <1>1, EndKeeps DEF Conflict
<1>2. CASE Tick
  <2>1. TypeOK'
    BY <1>2 DEF IInv, TypeOK, Tick
  <2>2. UNCHANGED <<row, request, sessions>>
    BY <1>2 DEF Tick
  <2> QED BY <2>1, <2>2 DEF IInv, Verifies, AsksForFactor, HasFactor, Sound, Known, Prepared, Current
<1> QED BY <1>1, <1>2, BeginKeeps, StartEnrollmentKeeps, StartChangeKeeps, CountSignInKeeps,
           CountAndTestKeeps, RetryKeeps, AuthenticateKeeps, CompleteLoginKeeps,
           SaveActionKeeps, CreateSessionKeeps DEF Next

-----------------------------------------------------------------------------

\* The inductive invariant holds in every reachable state: a request works on
\* the row there is or its save will be refused, and whoever signed in is
\* current while the stamp stays.
THEOREM Invariance == Spec => []IInv
<1>1. IInv /\ [Next]_vars => IInv'
  <2> SUFFICES ASSUME IInv, [Next]_vars PROVE IInv'
    OBVIOUS
  <2>1. CASE UNCHANGED vars
    BY <2>1 DEF vars, IInv, TypeOK, Verifies, AsksForFactor, HasFactor, Sound, Known, Prepared, Current
  <2> QED BY <2>1, NextKeeps
<1> QED BY <1>1, InitInvariant, PTL DEF Spec

\* Rows, requests and sessions keep their types, whatever is saved.
THEOREM TypeCorrect == Spec => []TypeOK
<1>1. IInv => TypeOK
  BY DEF IInv
<1> QED BY <1>1, Invariance, PTL

\* A session the program accepts was signed in to with the password and the
\* authenticator the account has now, for any number of requests that race.
THEOREM SignedInCurrent == Spec => []SessionsAreCurrent
<1>1. IInv => SessionsAreCurrent
  BY DEF IInv, SessionsAreCurrent, Current, HasFactor
<1> QED BY <1>1, Invariance, PTL

-----------------------------------------------------------------------------
(* The refinement of Credentials. *)

(* What is used up, and what is not. *)

Passed(id) == <<"challenge", id, 0>>

\* Numbers of what was used up; no code is of no authenticator.
Bounded(S, n) == \A u \in S : u[2] <= n /\ (u[1] = "totp" => u[2] # 0)

\* A step of row a that is open was not passed, and its secret is new.
OpenStep(a, c, S) ==
    /\ c.id <= Number(a) /\ c.secret <= Number(a)
    /\ c.kind # "none" => c.id # 0
    /\ c.id # 0 => Passed(c.id) \notin S
    /\ c.secret # 0 => c.secret # a.secret /\ \A u \in S : u[1] = "totp" => u[2] # c.secret

\* Nothing that row a accepts is among the factors used up, S.
Unspent(a, S) ==
    /\ \A f \in a.codes : f[1] = "recovery" /\ f[2] <= Number(a) /\ f \notin S
    /\ a.secret <= Number(a)
    /\ \A u \in S : u[1] = "totp" /\ u[2] = a.secret => u[3] <= a.last
    /\ OpenStep(a, a.login, S) /\ OpenStep(a, a.manage, S)
    /\ a.login.kind # "replace" /\ a.manage.kind \in {"none", "replace"}
    /\ a.login.id = a.manage.id => a.login.id = 0
    /\ a.ticket.id <= Number(a)
    /\ a.ticket.id # 0 => <<"ticket", a.ticket.id, 0>> \notin S

(* What the save of a request means. *)

SameFactors(a, n) == n.secret = a.secret /\ n.codes = a.codes /\ n.last = a.last
Consumes(a, n, f) ==
    /\ n.secret = a.secret
    /\ \/ f \in a.codes /\ n.codes = a.codes \ {f} /\ n.last = a.last
       \/ /\ f = <<"totp", a.secret, n.last>> /\ a.secret # 0
          /\ n.last > a.last /\ n.last \in 0 .. MaxClock + 1 /\ n.codes = a.codes
Opens(a, c, kind) == c.id = Fresh(a) /\ c.kind = kind /\ c.secret = 0
GivesSecret(a, c, d, kind) ==
    /\ c.kind = kind /\ c.secret = 0
    /\ d.id = c.id /\ d.kind = kind /\ d.secret = Fresh(a)
Closed(n) == n.login = NoChallenge /\ n.manage = NoChallenge /\ n.ticket = NoTicket

SignInMeans(a, n) ==
    /\ SameFactors(a, n) /\ n.manage = a.manage /\ n.ticket = a.ticket
    /\ Opens(a, n.login, IF a.reset THEN "recover" ELSE IF a.secret # 0 THEN "verify" ELSE "enroll")
EnrollMeans(a, n) ==
    /\ SameFactors(a, n) /\ n.ticket = a.ticket
    /\ \/ GivesSecret(a, a.login, n.login, "enroll") /\ n.manage = a.manage
       \/ GivesSecret(a, a.manage, n.manage, "replace") /\ n.login = a.login
VerifyMeans(a, n, f) ==
    Consumes(a, n, f) /\ n.login = NoChallenge /\ n.manage = a.manage /\ n.ticket = a.ticket
ConfirmMeans(a, n, c, f) ==
    /\ Closed(n) /\ n.password = a.password
    /\ c.secret # 0 /\ n.secret = c.secret /\ f = <<"totp", c.secret, n.last>>
    /\ n.last \in 0 .. MaxClock + 1
    /\ n.codes = RecoveryCodes(Fresh(a)) /\ ~n.reset
ReplaceMeans(a, n, f) ==
    Consumes(a, n, f) /\ n.login = a.login /\ Opens(a, n.manage, "replace") /\ n.ticket = a.ticket
RegenerateMeans(a, n, f) ==
    /\ Closed(n) /\ n.password = a.password /\ n.reset = a.reset /\ n.secret = a.secret
    /\ \/ f \in a.codes /\ n.last = a.last
       \/ /\ f = <<"totp", a.secret, n.last>> /\ a.secret # 0
          /\ n.last > a.last /\ n.last \in 0 .. MaxClock + 1
    /\ n.codes = RecoveryCodes(Fresh(a))
RedeemMeans(a, n, f) ==
    /\ SameFactors(a, n) /\ n.manage = a.manage /\ n.ticket = NoTicket
    /\ a.reset /\ a.ticket.id # 0 /\ f = <<"ticket", a.ticket.id, 0>>
    /\ Opens(a, n.login, "enroll")
ChangeMeans(a, n) == Closed(n) /\ SameFactors(a, n) /\ n.reset = a.reset
ResetMeans(a, n) ==
    /\ n.password = a.password /\ n.secret = 0 /\ n.codes = {} /\ n.last = -1 /\ n.reset
    /\ n.login = NoChallenge /\ n.manage = NoChallenge /\ n.ticket.id = Fresh(a)

\* The step that the request works on is one of its kind.
OnStep(q) == Challenge(q.auth, q).id = q.token /\ Challenge(q.auth, q).kind \in Kinds(q.op)

Revokers == {"confirm", "regenerate", "password", "revoke", "reset"}

Meant(q) ==
    /\ q.stage \in {"count", "final"} /\ q.op \in ChallengeOps => OnStep(q)
    /\ q.stage \in {"count", "final"} => q.op \in Ops
    /\ q.stage = "count" =>
         /\ q.op \in ChallengeOps \cup ManageOps \cup {"signin"}
         /\ q.next.codes = q.auth.codes /\ q.next.last = q.auth.last /\ q.next.ticket = q.auth.ticket
         /\ Abstract(q.next.login) = Abstract(q.auth.login)
         /\ Abstract(q.next.manage) = Abstract(q.auth.manage)
    /\ q.stage = "final" =>
         /\ q.revokes <=> q.op \in Revokers
         /\ q.op = "signin" => SignInMeans(q.auth, q.next)
         /\ q.op = "enroll" => EnrollMeans(q.auth, q.next)
         /\ q.op = "verify" => VerifyMeans(q.auth, q.next, q.code)
         /\ q.op = "confirm" => ConfirmMeans(q.auth, q.next, Challenge(q.auth, q), q.code)
         /\ q.op = "replace" => ReplaceMeans(q.auth, q.next, q.code)
         /\ q.op = "regenerate" => RegenerateMeans(q.auth, q.next, q.code)
         /\ q.op = "redeem" => RedeemMeans(q.auth, q.next, q.code)
         /\ q.op \in {"password", "revoke"} => ChangeMeans(q.auth, q.next)
         /\ q.op = "reset" => ResetMeans(q.auth, q.next)

Granting(r) == request[r].stage = "session"

RInv == /\ clock <= MaxClock
        /\ Bounded(used, Number(row))
        /\ Unspent(row, used)
        /\ \A r \in Request : request[r] # Idle => Meant(request[r])
        /\ \A r \in Request : Granting(r) => Passed(request[r].token) \in used
        /\ \A r, p \in Request : Granting(r) /\ Granting(p) /\ request[r].token = request[p].token => r = p

-----------------------------------------------------------------------------
(* The steps of Credentials. *)

\* What a save without revoking leaves alone.
Stays == /\ row'.password = row.password /\ row'.reset = row.reset

LEMMA VerifyImplements ==
    ASSUME row \in Rows, row' \in Rows, Unspent(row, used), NEW f,
           VerifyMeans(row, row', f), row.login.kind = "verify", Stays,
           used' = used \cup {f, Passed(row.login.id)},
           Granted' = Granted \cup {row.login.id}, Live' = Live
    PROVE  Promise!Verify
<1>1. Passed(row.login.id) \notin used
  BY DEF Unspent, OpenStep
<1>2. /\ f \in Promise!Factors
      /\ row'.codes = row.codes \ {f}
  <2>1. CASE f \in row.codes /\ row'.codes = row.codes \ {f}
    BY <2>1 DEF Unspent, Promise!Factors
  <2>2. CASE /\ f = <<"totp", row.secret, row'.last>> /\ row.secret # 0
             /\ row'.last > row.last /\ row'.last \in 0 .. MaxClock + 1 /\ row'.codes = row.codes
    <3>1. f \notin row.codes
      BY <2>2 DEF Unspent
    <3>2. f \notin used
      BY <2>2 DEF Unspent, Rows
    <3> QED BY <2>2, <3>1, <3>2 DEF Promise!Factors
  <2> QED BY <2>1, <2>2 DEF VerifyMeans, Consumes
<1>3. Abstract(row'.login) = Promise!NoChallenge /\ row'.manage = row.manage /\ row'.ticket = row.ticket
      /\ row'.secret = row.secret
  BY DEF VerifyMeans, Consumes, NoChallenge, Abstract, Promise!NoChallenge
<1> QED BY <1>1, <1>2, <1>3 DEF Promise!Verify, Promise!Passed, Passed, Stays, Abstract

LEMMA SignInImplements ==
    ASSUME row \in Rows, row' \in Rows, SignInMeans(row, row'), Stays,
           used' = used, Granted' = Granted, Live' = Live
    PROVE  Promise!StartLogin
<1>1. Fresh(row) \in Nat
  BY NumberTyped
<1> QED BY <1>1 DEF SignInMeans, SameFactors, Opens, Stays, Abstract, Promise!StartLogin, Promise!Opened

LEMMA EnrollImplements ==
    ASSUME row \in Rows, row' \in Rows, EnrollMeans(row, row'), Stays,
           used' = used, Granted' = Granted, Live' = Live
    PROVE  Promise!StartEnrollment
<1>1. Fresh(row) \in Nat
  BY NumberTyped
<1> QED BY <1>1 DEF EnrollMeans, SameFactors, GivesSecret, Stays, Abstract, Promise!StartEnrollment

LEMMA ConfirmImplements ==
    ASSUME row \in Rows, row' \in Rows, Unspent(row, used),
           Bounded(used, Number(row)),
           NEW f, NEW c, NEW signsIn \in BOOLEAN,
           OpenStep(row, c, used), c.kind \in {"enroll", "replace"},
           ConfirmMeans(row, row', c, f),
           used' = used \cup {f, Passed(c.id)},
           Live' = {}, Granted' = IF signsIn THEN {c.id} ELSE {}
    PROVE  Promise!Confirm(Abstract(c), signsIn)
<1>1. Passed(c.id) \notin used /\ \A t : <<"totp", c.secret, t>> \notin used
  BY DEF OpenStep, ConfirmMeans
<1>2. row'.codes \cap used' = {}
  <2> SUFFICES ASSUME NEW g \in RecoveryCodes(Fresh(row)), g \in used' PROVE FALSE
    BY DEF ConfirmMeans
  <2>1. g[1] = "recovery" /\ g[2] = Number(row) + 1 /\ Number(row) \in Nat
    BY NumberTyped DEF RecoveryCodes
  <2>2. g \notin used
    BY <2>1 DEF Bounded
  <2> QED BY <2>1, <2>2 DEF ConfirmMeans, Passed
<1>3. /\ Abstract(row'.login) = Promise!NoChallenge /\ Abstract(row'.manage) = Promise!NoChallenge
      /\ row'.ticket.id = 0
  BY DEF ConfirmMeans, Closed, NoChallenge, NoTicket, Abstract, Promise!NoChallenge
<1>4. /\ Abstract(c).id = c.id /\ Abstract(c).kind = c.kind /\ Abstract(c).secret = c.secret
  BY DEF Abstract
<1> QED BY <1>1, <1>2, <1>3, <1>4 DEF ConfirmMeans, Promise!Confirm, Promise!Passed, Promise!NoOpenStep, Passed,
                                     Abstract

\* A factor that a request consumes is one the account accepts.
LEMMA FactorAccepted ==
    ASSUME row \in Rows, Unspent(row, used), NEW f,
           \/ f \in row.codes
           \/ f = <<"totp", row.secret, row'.last>> /\ row.secret # 0
              /\ row'.last > row.last /\ row'.last \in 0 .. MaxClock + 1
    PROVE  f \in Promise!Factors /\ (f \notin row.codes => row.codes \ {f} = row.codes)
<1>1. CASE f \in row.codes
  BY <1>1 DEF Unspent, Promise!Factors
<1>2. CASE f = <<"totp", row.secret, row'.last>> /\ row.secret # 0
           /\ row'.last > row.last /\ row'.last \in 0 .. MaxClock + 1
  <2>1. f \notin used
    BY <1>2 DEF Unspent, Rows
  <2> QED BY <1>2, <2>1 DEF Promise!Factors
<1> QED BY <1>1, <1>2

LEMMA ReplaceImplements ==
    ASSUME row \in Rows, row' \in Rows, Unspent(row, used), NEW f,
           ReplaceMeans(row, row', f), Stays,
           used' = used \cup {f}, Granted' = Granted, Live' = Live
    PROVE  Promise!Replace
<1>1. Fresh(row) \in Nat
  BY NumberTyped
<1>2. f \in Promise!Factors /\ row'.codes = row.codes \ {f}
  <2>1. f \notin row.codes => row'.codes = row.codes
    BY DEF ReplaceMeans, Consumes
  <2>2. f \in row.codes => row'.codes = row.codes \ {f}
    <3>1. \A g \in row.codes : g[1] = "recovery"
      BY DEF Unspent
    <3> QED BY <3>1 DEF ReplaceMeans, Consumes
  <2> QED BY <2>1, <2>2, FactorAccepted DEF ReplaceMeans, Consumes
<1>3. Abstract(row'.manage) \in Promise!Opened({"replace"})
  BY <1>1 DEF ReplaceMeans, Opens, Abstract, Promise!Opened
<1> QED BY <1>2, <1>3 DEF ReplaceMeans, Consumes, Stays, Abstract, Promise!Replace

LEMMA RegenerateImplements ==
    ASSUME row \in Rows, row' \in Rows, Unspent(row, used),
           Bounded(used, Number(row)),
           NEW f, RegenerateMeans(row, row', f),
           used' = used \cup {f}, Granted' = {}, Live' = {}
    PROVE  Promise!Regenerate
<1>1. f \in Promise!Factors
  BY FactorAccepted DEF RegenerateMeans
<1>2. row'.codes \cap used' = {}
  <2> SUFFICES ASSUME NEW g \in RecoveryCodes(Fresh(row)), g \in used' PROVE FALSE
    BY DEF RegenerateMeans
  <2>1. g[1] = "recovery" /\ g[2] = Number(row) + 1 /\ Number(row) \in Nat
    BY NumberTyped DEF RecoveryCodes
  <2>2. g = f
    BY <2>1 DEF Bounded
  <2>3. f \notin row.codes
    <3>1. \A h \in row.codes : h[2] <= Number(row)
      BY DEF Unspent
    <3> QED BY <2>1, <2>2, <3>1
  <2>4. f[1] = "totp"
    BY <2>3 DEF RegenerateMeans
  <2> QED BY <2>1, <2>2, <2>4
<1>3. /\ Abstract(row'.login) = Promise!NoChallenge /\ Abstract(row'.manage) = Promise!NoChallenge
      /\ row'.ticket.id = 0
  BY DEF RegenerateMeans, Closed, NoChallenge, NoTicket, Abstract, Promise!NoChallenge
<1> QED BY <1>1, <1>2, <1>3 DEF RegenerateMeans, Promise!Regenerate, Promise!NoOpenStep, Promise!EndSessions, Abstract

LEMMA RedeemImplements ==
    ASSUME row \in Rows, row' \in Rows, Unspent(row, used), NEW f,
           RedeemMeans(row, row', f), row.login.kind = "recover", Stays,
           used' = used \cup {f, Passed(row.login.id)}, Granted' = Granted, Live' = Live
    PROVE  Promise!Redeem
<1>1. Fresh(row) \in Nat
  BY NumberTyped
<1>2. Passed(row.login.id) \notin used /\ f \notin used /\ f = <<"ticket", row.ticket.id, 0>>
  BY DEF Unspent, OpenStep, RedeemMeans
<1>3. Abstract(row'.login) \in Promise!Opened({"enroll"}) /\ row'.ticket.id = 0
  BY <1>1 DEF RedeemMeans, Opens, NoTicket, Abstract, Promise!Opened
<1> QED BY <1>2, <1>3 DEF RedeemMeans, SameFactors, Stays, Passed, Abstract, Promise!Redeem, Promise!Passed

LEMMA ChangeImplements ==
    ASSUME row \in Rows, row' \in Rows, ChangeMeans(row, row'),
           used' = used, Granted' = {}, Live' = {}
    PROVE  Promise!ChangePassword
<1>1. row'.password \in Password
  BY DEF Rows
<1>2. /\ Abstract(row'.login) = Promise!NoChallenge /\ Abstract(row'.manage) = Promise!NoChallenge
      /\ row'.ticket.id = 0
  BY DEF ChangeMeans, Closed, NoChallenge, NoTicket, Abstract, Promise!NoChallenge
<1> QED BY <1>1, <1>2 DEF ChangeMeans, SameFactors, Promise!ChangePassword, Promise!NoOpenStep,
                          Promise!EndSessions, Abstract

LEMMA ResetImplements ==
    ASSUME row \in Rows, row' \in Rows, ResetMeans(row, row'),
           used' = used, Granted' = {}, Live' = {}
    PROVE  Promise!Reset
<1>1. Fresh(row) \in Nat
  BY NumberTyped
<1>2. Abstract(row'.login) = Promise!NoChallenge /\ Abstract(row'.manage) = Promise!NoChallenge
  BY DEF ResetMeans, NoChallenge, Abstract, Promise!NoChallenge
<1> QED BY <1>1, <1>2 DEF ResetMeans, Promise!Reset, Promise!EndSessions, Abstract

-----------------------------------------------------------------------------
(* Saves leave nothing that is used up. *)

\* What the lemmas below assume of a save, with S used up before it.
LEMMA NextNumber ==
    ASSUME NEW a \in Rows, NEW b \in Rows, Number(b) = Number(a) + 1
    PROVE  /\ Number(a) \in Nat /\ Number(b) \in Nat /\ Fresh(a) = Number(b)
           /\ \A n \in Nat : n <= Number(a) => n <= Number(b) /\ n # Number(b)
BY NumberTyped

LEMMA NoneOpen ==
    ASSUME NEW a \in Rows, NEW S
    PROVE  OpenStep(a, NoChallenge, S)
<1>1. Number(a) \in Nat
  BY NumberTyped
<1> QED BY <1>1 DEF OpenStep, NoChallenge, Passed

\* A step that stays open while other factors are used up.
LEMMA OpenStays ==
    ASSUME NEW a \in Rows, NEW b \in Rows, Number(a) <= Number(b),
           NEW c \in Challenges, NEW d \in Challenges, NEW S, NEW T,
           Abstract(c) = Abstract(d), OpenStep(a, c, S), b.secret = a.secret,
           \A u \in T : /\ u[1] = "challenge" => u[2] # c.id
                        /\ u[1] = "totp" => u[2] = a.secret
    PROVE  OpenStep(b, d, S \cup T)
<1>1. c.id = d.id /\ c.kind = d.kind /\ c.secret = d.secret
  BY DEF Abstract
<1>2. c.id \in Nat /\ c.secret \in Nat /\ Number(a) \in Nat /\ Number(b) \in Nat
  BY NumberTyped DEF Challenges
<1>3. d.id # 0 => Passed(d.id) \notin S \cup T
  <2>1. Passed(c.id)[1] = "challenge" /\ Passed(c.id)[2] = c.id
    BY DEF Passed
  <2>2. c.id # 0 => Passed(c.id) \notin S /\ Passed(c.id) \notin T
    BY <2>1 DEF OpenStep
  <2> QED BY <1>1, <2>2
<1>4. c.secret # 0 => c.secret # a.secret /\ \A u \in S \cup T : u[1] = "totp" => u[2] # c.secret
  BY DEF OpenStep
<1>5. c.id <= Number(a) /\ c.secret <= Number(a) /\ (c.kind # "none" => c.id # 0)
  BY DEF OpenStep
<1>6. d.id <= Number(b) /\ d.secret <= Number(b)
  BY <1>1, <1>2, <1>5
<1> QED BY <1>1, <1>3, <1>4, <1>5, <1>6 DEF OpenStep

\* A step that is opened now.
LEMMA OpenFresh ==
    ASSUME NEW b \in Rows, NEW d \in Challenges, d.id = Number(b), d.id # 0,
           d.secret = 0, NEW S, \A u \in S : u[2] # Number(b)
    PROVE  OpenStep(b, d, S)
<1>1. Number(b) \in Nat
  BY NumberTyped
<1>2. Passed(d.id) \notin S
  BY DEF Passed
<1> QED BY <1>1, <1>2 DEF OpenStep

Frame(a, b, S) ==
    /\ a \in Rows /\ b \in Rows /\ Number(b) = Number(a) + 1
    /\ S \subseteq Codes /\ Bounded(S, Number(a)) /\ Unspent(a, S)

LEMMA FrameFacts ==
    ASSUME NEW a, NEW b, NEW S, Frame(a, b, S)
    PROVE  /\ a \in Rows /\ b \in Rows /\ Number(a) \in Nat /\ Number(b) = Number(a) + 1
           /\ Fresh(a) = Number(b) /\ Number(b) # 0 /\ Number(a) <= Number(b)
           /\ a.login \in Challenges /\ a.manage \in Challenges
           /\ b.login \in Challenges /\ b.manage \in Challenges
           /\ \A u \in S : u[2] # Number(b)
           /\ a.last \in Int /\ b.last \in Int /\ a.secret \in Nat
           /\ a.login.id \in Nat /\ a.manage.id \in Nat /\ a.ticket.id \in Nat
<1>1. a \in Rows /\ b \in Rows /\ Number(b) = Number(a) + 1 /\ Bounded(S, Number(a))
  BY DEF Frame
<1>2. Number(a) \in Nat /\ Fresh(a) = Number(a) + 1
  BY <1>1, NumberTyped
<1>3. \A u \in S : u[2] # Number(b)
  BY <1>1, <1>2 DEF Bounded
<1>4. /\ a.login \in Challenges /\ a.manage \in Challenges
      /\ b.login \in Challenges /\ b.manage \in Challenges
      /\ a.last \in Int /\ b.last \in Int /\ a.secret \in Nat /\ a.ticket.id \in Nat
  BY <1>1 DEF Rows
<1>5. a.login.id \in Nat /\ a.manage.id \in Nat
  BY <1>4 DEF Challenges
<1> QED BY <1>1, <1>2, <1>3, <1>4, <1>5

\* Recovery codes and the ticket of a row whose factors were kept or consumed.
LEMMA CodesStay ==
    ASSUME NEW a, NEW b, NEW S, NEW T, Frame(a, b, S), b.codes \subseteq a.codes \ T
    PROVE  \A f \in b.codes : f[1] = "recovery" /\ f[2] <= Number(b) /\ f \notin S \cup T
<1>1. \A f \in a.codes : f[1] = "recovery" /\ f[2] <= Number(a) /\ f \notin S
  BY DEF Frame, Unspent
<1>2. \A f \in a.codes : f[2] \in Nat
  BY DEF Frame, Rows, Codes
<1> QED BY <1>1, <1>2, FrameFacts

\* A row with its tickets as they were, or with none.
LEMMA TicketStays ==
    ASSUME NEW a, NEW b, NEW S, NEW T, Frame(a, b, S),
           b.ticket = a.ticket \/ b.ticket = NoTicket, \A u \in T : u[1] # "ticket" \/ b.ticket = NoTicket
    PROVE  /\ b.ticket.id <= Number(b)
           /\ b.ticket.id # 0 => <<"ticket", b.ticket.id, 0>> \notin S \cup T
<1>1. CASE b.ticket = NoTicket
  BY <1>1, FrameFacts DEF NoTicket
<1>2. CASE b.ticket # NoTicket
  <2>1. a.ticket.id <= Number(a) /\ (a.ticket.id # 0 => <<"ticket", a.ticket.id, 0>> \notin S)
    BY DEF Frame, Unspent
  <2> QED BY <1>2, <2>1, FrameFacts
<1> QED BY <1>1, <1>2

\* The authenticator's codes, when its secret stays and its last step may rise.
LEMMA TotpStays ==
    ASSUME NEW a, NEW b, NEW S, NEW T, Frame(a, b, S), b.secret = a.secret, b.last >= a.last,
           T \subseteq Codes,
           \A u \in T : u[1] = "totp" => u[3] <= b.last
    PROVE  /\ \A u \in S \cup T : u[1] = "totp" /\ u[2] = b.secret => u[3] <= b.last
           /\ b.secret <= Number(b)
<1>1. \A u \in S : u[1] = "totp" /\ u[2] = a.secret => u[3] <= a.last
  BY DEF Frame, Unspent
<1>2. \A u \in S : u[3] \in Nat
  BY DEF Frame, Codes
<1>3. a.secret <= Number(a)
  BY DEF Frame, Unspent
<1> QED BY <1>1, <1>2, <1>3, FrameFacts

\* What the operations use up, T, and what is open after them.
LEMMA SignInSpends ==
    ASSUME NEW a, NEW b, NEW S, Frame(a, b, S), SignInMeans(a, b)
    PROVE  Unspent(b, S)
<1> DEFINE E == {}
<1>0. E \subseteq Codes /\ (\A u \in E : FALSE) /\ S \cup E = S
  OBVIOUS
<1> HIDE DEF E
<1>1. OpenStep(b, b.login, S)
  BY FrameFacts, OpenFresh DEF SignInMeans, Opens
<1>2. OpenStep(b, b.manage, S)
  <2>1. OpenStep(b, b.manage, S \cup E)
    BY <1>0, FrameFacts, OpenStays DEF SignInMeans, SameFactors, Frame, Unspent
  <2> QED BY <1>0, <2>1
<1>3. /\ b.login.id # b.manage.id /\ b.login.kind # "replace"
      /\ b.manage.kind \in {"none", "replace"}
  BY FrameFacts DEF SignInMeans, Opens, Frame, Unspent, OpenStep
<1>4. b.codes \subseteq a.codes \ E /\ b.secret = a.secret /\ b.last >= a.last /\ b.ticket = a.ticket
  BY <1>0, FrameFacts DEF SignInMeans, SameFactors
<1>5. \A f \in b.codes : f[1] = "recovery" /\ f[2] <= Number(b) /\ f \notin S \cup E
  BY <1>0, <1>4, CodesStay
<1>6. /\ \A u \in S \cup E : u[1] = "totp" /\ u[2] = b.secret => u[3] <= b.last
      /\ b.secret <= Number(b)
  BY <1>0, <1>4, TotpStays
<1>7. /\ b.ticket.id <= Number(b)
      /\ b.ticket.id # 0 => <<"ticket", b.ticket.id, 0>> \notin S \cup E
  BY <1>0, <1>4, TicketStays
<1> QED BY <1>0, <1>1, <1>2, <1>3, <1>5, <1>6, <1>7 DEF Unspent

LEMMA EnrollSpends ==
    ASSUME NEW a, NEW b, NEW S, Frame(a, b, S), EnrollMeans(a, b)
    PROVE  Unspent(b, S)
<1> DEFINE E == {}
<1>0. E \subseteq Codes /\ (\A u \in E : FALSE) /\ S \cup E = S
  OBVIOUS
<1> HIDE DEF E
<1>1. ASSUME NEW c \in Challenges, NEW d \in Challenges, NEW kind, kind # "none", OpenStep(a, c, S),
             GivesSecret(a, c, d, kind)
      PROVE  OpenStep(b, d, S) /\ d.id = c.id
  <2>1. c.id \in Nat /\ c.id <= Number(a) /\ c.id # 0 /\ Passed(c.id) \notin S /\ d.id = c.id
        /\ d.secret = Number(b)
    BY <1>1, FrameFacts DEF OpenStep, GivesSecret, Challenges
  <2>2. b.secret <= Number(a) /\ b.secret \in Nat
    BY FrameFacts DEF EnrollMeans, SameFactors, Frame, Unspent
  <2> QED BY <2>1, <2>2, FrameFacts DEF OpenStep
<1>2. ASSUME NEW c \in Challenges, OpenStep(a, c, S) PROVE OpenStep(b, c, S)
  <2>1. OpenStep(b, c, S \cup E)
    BY <1>0, <1>2, FrameFacts, OpenStays DEF EnrollMeans, SameFactors
  <2> QED BY <1>0, <2>1
<1>3. /\ OpenStep(a, a.login, S) /\ OpenStep(a, a.manage, S)
      /\ a.login.kind # "replace" /\ a.manage.kind \in {"none", "replace"}
      /\ a.login.id = a.manage.id => a.login.id = 0
  BY DEF Frame, Unspent
<1>4. /\ OpenStep(b, b.login, S) /\ OpenStep(b, b.manage, S)
      /\ b.login.id = a.login.id /\ b.manage.id = a.manage.id
      /\ b.login.kind # "replace" /\ b.manage.kind \in {"none", "replace"}
  <2>1. CASE GivesSecret(a, a.login, b.login, "enroll") /\ b.manage = a.manage
    BY <1>1, <1>2, <1>3, <2>1, FrameFacts DEF GivesSecret
  <2>2. CASE GivesSecret(a, a.manage, b.manage, "replace") /\ b.login = a.login
    BY <1>1, <1>2, <1>3, <2>2, FrameFacts DEF GivesSecret
  <2> QED BY <2>1, <2>2 DEF EnrollMeans
<1>5. b.codes \subseteq a.codes \ E /\ b.secret = a.secret /\ b.last >= a.last /\ b.ticket = a.ticket
  BY <1>0, FrameFacts DEF EnrollMeans, SameFactors
<1>6. \A f \in b.codes : f[1] = "recovery" /\ f[2] <= Number(b) /\ f \notin S \cup E
  BY <1>0, <1>5, CodesStay
<1>7. /\ \A u \in S \cup E : u[1] = "totp" /\ u[2] = b.secret => u[3] <= b.last
      /\ b.secret <= Number(b)
  BY <1>0, <1>5, TotpStays
<1>8. /\ b.ticket.id <= Number(b)
      /\ b.ticket.id # 0 => <<"ticket", b.ticket.id, 0>> \notin S \cup E
  BY <1>0, <1>5, TicketStays
<1> QED BY <1>0, <1>3, <1>4, <1>6, <1>7, <1>8 DEF Unspent

\* A factor that is consumed, and what consuming it leaves.
LEMMA ConsumedFactor ==
    ASSUME NEW a, NEW b, NEW S, Frame(a, b, S), NEW f,
           b.secret = a.secret,
           \/ f \in a.codes /\ b.last = a.last
           \/ /\ f = <<"totp", a.secret, b.last>> /\ a.secret # 0
              /\ b.last > a.last /\ b.last \in 0 .. MaxClock + 1
    PROVE  /\ f \in Codes /\ f[1] \in {"totp", "recovery"} /\ f[2] \in Nat
           /\ f[2] <= Number(a) /\ b.last >= a.last
           /\ f[1] = "totp" => f[2] = a.secret /\ a.secret # 0 /\ f[3] <= b.last
           /\ f[1] = "recovery" => f \in a.codes
<1>1. CASE f \in a.codes /\ b.last = a.last
  <2>1. a.codes \subseteq Codes
    BY FrameFacts DEF Rows
  <2>2. f[1] = "recovery" /\ f[2] <= Number(a)
    BY <1>1 DEF Frame, Unspent
  <2>3. f \in Codes /\ f[2] \in Nat
    BY <1>1, <2>1 DEF Codes
  <2> QED BY <1>1, <2>2, <2>3, FrameFacts
<1>2. CASE /\ f = <<"totp", a.secret, b.last>> /\ a.secret # 0
           /\ b.last > a.last /\ b.last \in 0 .. MaxClock + 1
  <2>1. a.secret \in Nat /\ a.secret <= Number(a) /\ b.last \in Nat
    BY <1>2, FrameFacts DEF Frame, Unspent
  <2>2. f \in Codes
    BY <1>2, <2>1 DEF Codes
  <2> QED BY <1>2, <2>1, <2>2, FrameFacts
<1> QED BY <1>1, <1>2

LEMMA BoundedStays ==
    ASSUME NEW a, NEW b, NEW S, NEW T, Frame(a, b, S), T \subseteq Codes, Bounded(T, Number(a))
    PROVE  Bounded(S \cup T, Number(b))
<1>1. Number(a) \in Nat /\ Number(a) <= Number(b) /\ Number(b) \in Nat
  BY FrameFacts
<1>2. Bounded(S, Number(a)) /\ S \cup T \subseteq Codes
  BY DEF Frame
<1> SUFFICES ASSUME NEW u \in S \cup T PROVE u[2] <= Number(b) /\ (u[1] = "totp" => u[2] # 0)
  BY DEF Bounded
<1>3. u[2] \in Nat
  BY <1>2 DEF Codes
<1>4. u[2] <= Number(a) /\ (u[1] = "totp" => u[2] # 0)
  BY <1>2 DEF Bounded
<1> QED BY <1>1, <1>3, <1>4

LEMMA VerifySpends ==
    ASSUME NEW a, NEW b, NEW S, Frame(a, b, S), NEW f, VerifyMeans(a, b, f), a.login.id # 0
    PROVE  /\ Unspent(b, S \cup {f, Passed(a.login.id)})
           /\ Bounded({f, Passed(a.login.id)}, Number(a)) /\ {f, Passed(a.login.id)} \subseteq Codes
<1> DEFINE p == Passed(a.login.id)
           T == {f, p}
<1>1. p \in Codes /\ p[1] = "challenge" /\ p[2] = a.login.id
  BY FrameFacts DEF Codes, Passed
<1>2. /\ f \in Codes /\ f[1] \in {"totp", "recovery"} /\ f[2] <= Number(a) /\ b.last >= a.last
      /\ f[1] = "totp" => f[2] = a.secret /\ a.secret # 0 /\ f[3] <= b.last
  BY ConsumedFactor DEF VerifyMeans, Consumes
<1>3. a.login.id # a.manage.id /\ a.login.id <= Number(a) /\ OpenStep(a, a.manage, S)
      /\ a.manage.kind \in {"none", "replace"}
  BY DEF Frame, Unspent, OpenStep
<1>4. \A g \in a.codes : g[1] = "recovery"
  BY DEF Frame, Unspent
<1>5. /\ b.secret = a.secret /\ b.login = NoChallenge /\ b.manage = a.manage /\ b.ticket = a.ticket
      /\ b.codes \subseteq a.codes \ {f}
  BY <1>4 DEF VerifyMeans, Consumes
<1>6. b.codes \subseteq a.codes \ T
  BY <1>1, <1>4, <1>5
<1>7. Bounded(T, Number(a)) /\ T \subseteq Codes
  BY <1>1, <1>2, <1>3 DEF Bounded
<1>8. \A u \in T : /\ u[1] = "challenge" => u[2] # a.manage.id
                   /\ u[1] = "totp" => u[2] = a.secret /\ u[3] <= b.last
                   /\ u[1] # "ticket"
  BY <1>1, <1>2, <1>3
<1> HIDE DEF T
<1>9. OpenStep(b, b.manage, S \cup T)
  BY <1>3, <1>5, <1>8, FrameFacts, OpenStays
<1>10. OpenStep(b, b.login, S \cup T)
  BY <1>5, FrameFacts, NoneOpen
<1>11. /\ b.login.kind # "replace" /\ b.manage.kind \in {"none", "replace"}
       /\ b.login.id = b.manage.id => b.login.id = 0
  BY <1>3, <1>5 DEF NoChallenge
<1>12. \A g \in b.codes : g[1] = "recovery" /\ g[2] <= Number(b) /\ g \notin S \cup T
  BY <1>6, CodesStay
<1>13. /\ \A u \in S \cup T : u[1] = "totp" /\ u[2] = b.secret => u[3] <= b.last
       /\ b.secret <= Number(b)
  BY <1>2, <1>5, <1>7, <1>8, TotpStays
<1>14. /\ b.ticket.id <= Number(b)
       /\ b.ticket.id # 0 => <<"ticket", b.ticket.id, 0>> \notin S \cup T
  BY <1>5, <1>8, TicketStays
<1>15. Unspent(b, S \cup T)
  BY <1>9, <1>10, <1>11, <1>12, <1>13, <1>14 DEF Unspent
<1> QED BY <1>7, <1>15 DEF T

LEMMA ReplaceSpends ==
    ASSUME NEW a, NEW b, NEW S, Frame(a, b, S), NEW f, ReplaceMeans(a, b, f)
    PROVE  Unspent(b, S \cup {f}) /\ Bounded({f}, Number(a)) /\ {f} \subseteq Codes
<1> DEFINE T == {f}
<1>1. /\ f \in Codes /\ f[1] \in {"totp", "recovery"} /\ f[2] <= Number(a) /\ b.last >= a.last
      /\ f[1] = "totp" => f[2] = a.secret /\ a.secret # 0 /\ f[3] <= b.last
  BY ConsumedFactor DEF ReplaceMeans, Consumes
<1>2. /\ OpenStep(a, a.login, S) /\ a.login.kind # "replace" /\ a.login.id <= Number(a)
      /\ \A g \in a.codes : g[1] = "recovery"
  BY DEF Frame, Unspent, OpenStep
<1>3. /\ b.secret = a.secret /\ b.login = a.login /\ b.ticket = a.ticket
      /\ b.manage.id = Number(b) /\ b.manage.kind = "replace" /\ b.manage.secret = 0
      /\ b.codes \subseteq a.codes \ T
  BY <1>2, FrameFacts DEF ReplaceMeans, Consumes, Opens
<1>4. Bounded(T, Number(a)) /\ T \subseteq Codes
  BY <1>1 DEF Bounded
<1>5. \A u \in T : /\ u[1] # "challenge" /\ u[1] # "ticket" /\ u[2] # Number(b)
                   /\ u[1] = "totp" => u[2] = a.secret /\ u[3] <= b.last
  <2>1. f[2] \in Nat
    BY <1>1 DEF Codes
  <2> QED BY <1>1, <2>1, FrameFacts
<1> HIDE DEF T
<1>6. OpenStep(b, b.login, S \cup T)
  BY <1>2, <1>3, <1>5, FrameFacts, OpenStays
<1>7. OpenStep(b, b.manage, S \cup T)
  BY <1>3, <1>5, FrameFacts, OpenFresh
<1>8. b.login.id # b.manage.id
  BY <1>2, <1>3, FrameFacts
<1>9. \A g \in b.codes : g[1] = "recovery" /\ g[2] <= Number(b) /\ g \notin S \cup T
  BY <1>3, CodesStay
<1>10. /\ \A u \in S \cup T : u[1] = "totp" /\ u[2] = b.secret => u[3] <= b.last
       /\ b.secret <= Number(b)
  BY <1>1, <1>3, <1>4, <1>5, TotpStays
<1>11. /\ b.ticket.id <= Number(b)
       /\ b.ticket.id # 0 => <<"ticket", b.ticket.id, 0>> \notin S \cup T
  BY <1>3, <1>5, TicketStays
<1>12. Unspent(b, S \cup T)
  BY <1>2, <1>3, <1>6, <1>7, <1>8, <1>9, <1>10, <1>11 DEF Unspent
<1> QED BY <1>4, <1>12 DEF T

LEMMA RedeemSpends ==
    ASSUME NEW a, NEW b, NEW S, Frame(a, b, S), NEW f, RedeemMeans(a, b, f), a.login.id # 0
    PROVE  /\ Unspent(b, S \cup {f, Passed(a.login.id)})
           /\ Bounded({f, Passed(a.login.id)}, Number(a)) /\ {f, Passed(a.login.id)} \subseteq Codes
<1> DEFINE p == Passed(a.login.id)
           T == {f, p}
<1>1. /\ p \in Codes /\ p[1] = "challenge" /\ p[2] = a.login.id
      /\ f \in Codes /\ f[1] = "ticket" /\ f[2] = a.ticket.id
  BY FrameFacts DEF Codes, Passed, RedeemMeans
<1>2. /\ OpenStep(a, a.manage, S) /\ a.manage.kind \in {"none", "replace"}
      /\ a.login.id # a.manage.id /\ a.manage.id <= Number(a)
      /\ a.login.id <= Number(a) /\ a.ticket.id <= Number(a)
      /\ \A g \in a.codes : g[1] = "recovery"
  BY DEF Frame, Unspent, OpenStep
<1>3. /\ b.secret = a.secret /\ b.manage = a.manage /\ b.ticket = NoTicket
      /\ b.login.id = Number(b) /\ b.login.kind = "enroll" /\ b.login.secret = 0
      /\ b.codes = a.codes /\ b.last = a.last
  BY FrameFacts DEF RedeemMeans, SameFactors, Opens
<1>4. Bounded(T, Number(a)) /\ T \subseteq Codes /\ b.codes \subseteq a.codes \ T /\ b.last >= a.last
  BY <1>1, <1>2, <1>3, FrameFacts DEF Bounded
<1>5. \A u \in T : /\ u[1] = "challenge" => u[2] # a.manage.id
                   /\ u[1] = "totp" => u[2] = a.secret /\ u[3] <= b.last
                   /\ u[2] # Number(b)
  BY <1>1, <1>2, FrameFacts
<1> HIDE DEF T
<1>6. OpenStep(b, b.manage, S \cup T)
  <2>1. /\ a \in Rows /\ b \in Rows /\ Number(a) <= Number(b) /\ a.manage \in Challenges
        /\ OpenStep(a, a.manage, S) /\ b.secret = a.secret
    BY <1>2, <1>3, FrameFacts
  <2>2. OpenStep(b, a.manage, S \cup T)
    BY <1>5, <2>1, OpenStays
  <2> QED BY <1>3, <2>2
<1>7. OpenStep(b, b.login, S \cup T)
  BY <1>3, <1>5, FrameFacts, OpenFresh
<1>8. b.login.id # b.manage.id
  BY <1>2, <1>3, FrameFacts
<1>9. \A g \in b.codes : g[1] = "recovery" /\ g[2] <= Number(b) /\ g \notin S \cup T
  <2>1. b.codes \subseteq a.codes \ T
    BY <1>4
  <2> QED BY ONLY Frame(a, b, S), <2>1, CodesStay
<1>10. /\ \A u \in S \cup T : u[1] = "totp" /\ u[2] = b.secret => u[3] <= b.last
       /\ b.secret <= Number(b)
  BY <1>3, <1>4, <1>5, TotpStays
<1>11. /\ b.ticket.id <= Number(b)
       /\ b.ticket.id # 0 => <<"ticket", b.ticket.id, 0>> \notin S \cup T
  BY <1>3, TicketStays
<1>12. Unspent(b, S \cup T)
  BY <1>2, <1>3, <1>6, <1>7, <1>8, <1>9, <1>10, <1>11 DEF Unspent
<1> QED BY <1>4, <1>12 DEF T

\* A row after all its steps were closed, with new recovery codes or none.
LEMMA ClosedSpends ==
    ASSUME NEW a, NEW b, NEW S, NEW T, Frame(a, b, S), Bounded(T, Number(a)), T \subseteq Codes,
           b.login = NoChallenge, b.manage = NoChallenge,
           b.ticket = NoTicket \/ b.ticket.id = Number(b),
           \/ b.codes = RecoveryCodes(Number(b))
           \/ b.codes \subseteq a.codes /\ T = {},
           b.secret <= Number(b),
           \A u \in S \cup T : u[1] = "totp" /\ u[2] = b.secret => u[3] <= b.last
    PROVE  Unspent(b, S \cup T)
<1>1. OpenStep(b, b.login, S \cup T) /\ OpenStep(b, b.manage, S \cup T)
  BY FrameFacts, NoneOpen
<1>2. /\ b.login.kind # "replace" /\ b.manage.kind \in {"none", "replace"} /\ b.login.id = 0
  BY DEF NoChallenge
<1>3. \A u \in S \cup T : u[2] # Number(b)
  <2>1. \A u \in S \cup T : u[2] \in Nat /\ u[2] <= Number(a)
    BY DEF Frame, Bounded, Codes
  <2> QED BY <2>1, FrameFacts
<1>4. \A g \in b.codes : g[1] = "recovery" /\ g[2] <= Number(b) /\ g \notin S \cup T
  <2>1. CASE b.codes = RecoveryCodes(Number(b))
    <3> SUFFICES ASSUME NEW g \in RecoveryCodes(Number(b))
                 PROVE  g[1] = "recovery" /\ g[2] <= Number(b) /\ g \notin S \cup T
      BY <2>1
    <3>1. g[1] = "recovery" /\ g[2] = Number(b)
      BY DEF RecoveryCodes
    <3> QED BY <1>3, <3>1, FrameFacts
  <2>2. CASE b.codes \subseteq a.codes /\ T = {}
    <3>1. b.codes \subseteq a.codes \ T
      BY <2>2
    <3> QED BY <3>1, CodesStay
  <2> QED BY <2>1, <2>2
<1>5. /\ b.ticket.id <= Number(b)
      /\ b.ticket.id # 0 => <<"ticket", b.ticket.id, 0>> \notin S \cup T
  BY <1>3, FrameFacts DEF NoTicket
<1> QED BY <1>1, <1>2, <1>4, <1>5 DEF Unspent

LEMMA ConfirmSpends ==
    ASSUME NEW a, NEW b, NEW S, Frame(a, b, S), NEW f, NEW c \in Challenges, OpenStep(a, c, S),
           ConfirmMeans(a, b, c, f)
    PROVE  /\ Unspent(b, S \cup {f, Passed(c.id)})
           /\ Bounded({f, Passed(c.id)}, Number(a)) /\ {f, Passed(c.id)} \subseteq Codes
<1> DEFINE p == Passed(c.id)
           T == {f, p}
<1>1. /\ c.id \in Nat /\ c.secret \in Nat /\ c.id <= Number(a) /\ c.secret <= Number(a) /\ c.secret # 0
      /\ f = <<"totp", c.secret, b.last>> /\ b.last \in Nat /\ b.secret = c.secret
      /\ \A u \in S : u[1] = "totp" => u[2] # c.secret
  BY DEF Challenges, OpenStep, ConfirmMeans
<1>2. p \in Codes /\ p[1] = "challenge" /\ p[2] = c.id /\ f \in Codes
  BY <1>1 DEF Codes, Passed
<1>3. Bounded(T, Number(a)) /\ T \subseteq Codes
  BY <1>1, <1>2 DEF Bounded
<1>4. \A u \in S \cup T : u[1] = "totp" /\ u[2] = b.secret => u[3] <= b.last
  BY <1>1, <1>2
<1>5. b.login = NoChallenge /\ b.manage = NoChallenge /\ b.ticket = NoTicket
      /\ b.codes = RecoveryCodes(Number(b)) /\ b.secret <= Number(b)
  BY <1>1, FrameFacts DEF ConfirmMeans, Closed
<1> HIDE DEF T
<1>6. Unspent(b, S \cup T)
  BY <1>3, <1>4, <1>5, ClosedSpends
<1> QED BY <1>3, <1>6 DEF T

LEMMA RegenerateSpends ==
    ASSUME NEW a, NEW b, NEW S, Frame(a, b, S), NEW f, RegenerateMeans(a, b, f)
    PROVE  Unspent(b, S \cup {f}) /\ Bounded({f}, Number(a)) /\ {f} \subseteq Codes
<1> DEFINE T == {f}
<1>1. /\ f \in Codes /\ f[1] \in {"totp", "recovery"} /\ f[2] <= Number(a) /\ b.last >= a.last
      /\ f[1] = "totp" => f[2] = a.secret /\ a.secret # 0 /\ f[3] <= b.last
  BY ConsumedFactor DEF RegenerateMeans
<1>2. Bounded(T, Number(a)) /\ T \subseteq Codes /\ \A u \in T : u[1] = "totp" => u[3] <= b.last
  BY <1>1 DEF Bounded
<1>3. b.login = NoChallenge /\ b.manage = NoChallenge /\ b.ticket = NoTicket
      /\ b.codes = RecoveryCodes(Number(b)) /\ b.secret = a.secret
  BY FrameFacts DEF RegenerateMeans, Closed
<1> HIDE DEF T
<1>4. /\ \A u \in S \cup T : u[1] = "totp" /\ u[2] = b.secret => u[3] <= b.last
      /\ b.secret <= Number(b)
  BY <1>1, <1>2, <1>3, TotpStays
<1>5. Unspent(b, S \cup T)
  BY <1>2, <1>3, <1>4, ClosedSpends
<1> QED BY <1>2, <1>5 DEF T

LEMMA ChangeSpends ==
    ASSUME NEW a, NEW b, NEW S, Frame(a, b, S), ChangeMeans(a, b)
    PROVE  Unspent(b, S)
<1> DEFINE T == {}
<1>1. T \subseteq Codes /\ (\A u \in T : FALSE) /\ S \cup T = S /\ Bounded(T, Number(a)) /\ T = {}
  BY DEF Bounded
<1> HIDE DEF T
<1>2. b.login = NoChallenge /\ b.manage = NoChallenge /\ b.ticket = NoTicket
      /\ b.codes = a.codes /\ b.secret = a.secret /\ b.last >= a.last
  BY FrameFacts DEF ChangeMeans, Closed, SameFactors
<1>3. /\ \A u \in S \cup T : u[1] = "totp" /\ u[2] = b.secret => u[3] <= b.last
      /\ b.secret <= Number(b)
  BY <1>1, <1>2, TotpStays
<1>4. Unspent(b, S \cup T)
  BY <1>1, <1>2, <1>3, ClosedSpends
<1> QED BY <1>1, <1>4

LEMMA ResetSpends ==
    ASSUME NEW a, NEW b, NEW S, Frame(a, b, S), ResetMeans(a, b)
    PROVE  Unspent(b, S)
<1> DEFINE T == {}
<1>1. T \subseteq Codes /\ S \cup T = S /\ Bounded(T, Number(a)) /\ T = {}
  BY DEF Bounded
<1> HIDE DEF T
<1>2. b.login = NoChallenge /\ b.manage = NoChallenge /\ b.ticket.id = Number(b)
      /\ b.codes = {} /\ b.secret = 0 /\ b.secret <= Number(b)
  BY FrameFacts DEF ResetMeans
<1>3. \A u \in S \cup T : u[1] = "totp" => u[2] # 0
  BY <1>1 DEF Frame, Bounded
<1>4. b.codes \subseteq a.codes /\ \A u \in S \cup T : u[1] = "totp" /\ u[2] = b.secret => u[3] <= b.last
  BY <1>2, <1>3
<1>5. Unspent(b, S \cup T)
  BY <1>1, <1>2, <1>4, ClosedSpends
<1> QED BY <1>1, <1>5

-----------------------------------------------------------------------------
(* Saves, as steps of Credentials. *)

LEMMA StoredFields ==
    ASSUME row \in Rows, NEW q \in Requests, Stores(q), Prepared(q)
    PROVE  LET b == Stored(q) n == q.next IN
           /\ b \in Rows /\ Number(b) = Number(row) + 1
           /\ b.password = n.password /\ b.secret = n.secret /\ b.last = n.last /\ b.codes = n.codes
           /\ b.login = n.login /\ b.manage = n.manage /\ b.reset = n.reset /\ b.ticket = n.ticket
           /\ b.stamp = IF q.stage = "final" /\ q.revokes THEN Number(row) + 1 ELSE row.stamp
           /\ ~(q.stage = "final" /\ q.revokes) => SameCredentials(b, row)
<1> DEFINE f == Fresh(q.auth)
           rev == IF q.op = "revoke" /\ q.auth.rev = 0 THEN 0 ELSE f
           stamp == IF q.stage = "final" /\ q.revokes THEN f ELSE q.next.stamp
           b == Stored(q)
           n == q.next
<1>1. b \in Rows /\ Number(b) = Number(row) + 1 /\ f = Number(row) + 1
  BY StoredRow, NumberTyped DEF Stores
<1>2. n \in Rows
  BY DEF Requests
<1>3. b = [n EXCEPT !.rev = rev, !.stamp = stamp]
  BY <1>2 DEF Stored, Rows
<1>4. /\ b.password = n.password /\ b.secret = n.secret /\ b.last = n.last /\ b.codes = n.codes
      /\ b.login = n.login /\ b.manage = n.manage /\ b.reset = n.reset /\ b.ticket = n.ticket
      /\ b.stamp = stamp
  <2> HIDE DEF b, n, rev, stamp
  <2> QED BY <1>2, <1>3 DEF Rows
<1>5. ~(q.stage = "final" /\ q.revokes) => SameCredentials(n, row)
  BY DEF Prepared, Stores
<1> HIDE DEF b, n, f
<1>6. b.stamp = IF q.stage = "final" /\ q.revokes THEN Number(row) + 1 ELSE row.stamp
  BY <1>1, <1>4, <1>5 DEF SameCredentials, n
<1>7. ~(q.stage = "final" /\ q.revokes) => SameCredentials(b, row)
  BY <1>4, <1>5, <1>6 DEF SameCredentials
<1> QED BY <1>1, <1>4, <1>6, <1>7 DEF b, n

\* Sessions and passed sign-ins while the stamp stays, and when it is new.
LEMMA StampStays ==
    ASSUME NEW r \in Request, row'.stamp = row.stamp, sessions' = sessions,
           \A p \in Request \ {r} : request'[p] = request[p],
           ~Granting(r), Granting(r)' => request'[r].auth = row'
    PROVE  /\ Live' = Live
           /\ Granted' = IF Granting(r)' THEN Granted \cup {request'[r].token} ELSE Granted
<1>1. Live' = Live
  BY DEF Live
<1>2. ASSUME NEW t PROVE t \in Granted' <=> t \in Granted \/ (Granting(r)' /\ t = request'[r].token)
  BY DEF Granted, Granting
<1>3. CASE Granting(r)'
  <2>1. \A t : t \in Granted' <=> t \in Granted \cup {request'[r].token}
    BY <1>2, <1>3
  <2> QED BY <1>1, <1>3, <2>1
<1>4. CASE ~Granting(r)'
  <2>1. \A t : t \in Granted' <=> t \in Granted
    BY <1>2, <1>4
  <2> QED BY <1>1, <1>4, <2>1
<1> QED BY <1>3, <1>4

LEMMA StampNew ==
    ASSUME IInv, NEW r \in Request, row'.stamp = Number(row) + 1, sessions' = sessions,
           \A p \in Request \ {r} : request'[p] = request[p],
           ~Granting(r), Granting(r)' => request'[r].auth = row'
    PROVE  /\ Live' = {}
           /\ Granted' = IF Granting(r)' THEN {request'[r].token} ELSE {}
<1>1. Number(row) \in Nat
  BY NumberTyped DEF IInv, TypeOK
<1>2. \A s \in sessions : s.stamp \in Nat /\ s.stamp <= Number(row)
  BY DEF IInv, TypeOK, Current
<1>3. Live' = {}
  BY <1>1, <1>2 DEF Live
<1>4. ASSUME NEW p \in Request \ {r}, request'[p].stage = "session" PROVE request'[p].auth.stamp # row'.stamp
  <2>1. request[p].stage = "session" /\ request[p] # Idle
    BY <1>4 DEF Idle
  <2>2. request[p] \in Requests /\ Current(request[p].auth.stamp, request[p].auth.password, request[p].auth.secret)
    BY <2>1 DEF IInv, TypeOK, Sound
  <2>3. request[p].auth \in Rows
    BY <2>2 DEF Requests
  <2>4. request[p].auth.stamp \in Nat /\ request[p].auth.stamp <= Number(row)
    BY <2>2, <2>3, NumberTyped DEF Current
  <2> QED BY <1>1, <1>4, <2>4
<1>5. ASSUME NEW t PROVE t \in Granted' <=> Granting(r)' /\ t = request'[r].token
  BY <1>4 DEF Granted, Granting
<1> QED BY <1>3, <1>5

\* A save means the same to the row it leaves as to the one it was given.
LEMMA StoredMeans ==
    ASSUME NEW a, NEW n, NEW b, NEW c, NEW f,
           b.password = n.password, b.secret = n.secret, b.last = n.last, b.codes = n.codes,
           b.login = n.login, b.manage = n.manage, b.reset = n.reset, b.ticket = n.ticket
    PROVE  /\ SignInMeans(a, n) => SignInMeans(a, b)
           /\ EnrollMeans(a, n) => EnrollMeans(a, b)
           /\ VerifyMeans(a, n, f) => VerifyMeans(a, b, f)
           /\ ConfirmMeans(a, n, c, f) => ConfirmMeans(a, b, c, f)
           /\ ReplaceMeans(a, n, f) => ReplaceMeans(a, b, f)
           /\ RegenerateMeans(a, n, f) => RegenerateMeans(a, b, f)
           /\ RedeemMeans(a, n, f) => RedeemMeans(a, b, f)
           /\ ChangeMeans(a, n) => ChangeMeans(a, b)
           /\ ResetMeans(a, n) => ResetMeans(a, b)
<1>1. SameFactors(a, n) <=> SameFactors(a, b)
  BY DEF SameFactors
<1>2. Consumes(a, n, f) <=> Consumes(a, b, f)
  BY DEF Consumes
<1>3. Closed(n) <=> Closed(b)
  BY DEF Closed
<1>4. SignInMeans(a, n) => SignInMeans(a, b)
  BY <1>1 DEF SignInMeans
<1>5. EnrollMeans(a, n) => EnrollMeans(a, b)
  BY <1>1 DEF EnrollMeans
<1>6. VerifyMeans(a, n, f) => VerifyMeans(a, b, f)
  BY <1>2 DEF VerifyMeans
<1>7. ConfirmMeans(a, n, c, f) => ConfirmMeans(a, b, c, f)
  BY <1>3 DEF ConfirmMeans
<1>8. ReplaceMeans(a, n, f) => ReplaceMeans(a, b, f)
  BY <1>2 DEF ReplaceMeans
<1>9. RegenerateMeans(a, n, f) => RegenerateMeans(a, b, f)
  BY <1>3 DEF RegenerateMeans
<1>10. RedeemMeans(a, n, f) => RedeemMeans(a, b, f)
  BY <1>1 DEF RedeemMeans
<1>11. ChangeMeans(a, n) => ChangeMeans(a, b)
  BY <1>1, <1>3 DEF ChangeMeans
<1>12. ResetMeans(a, n) => ResetMeans(a, b)
  BY DEF ResetMeans
<1> QED BY <1>4, <1>5, <1>6, <1>7, <1>8, <1>9, <1>10, <1>11, <1>12

\* What a save leaves unused, whatever it was for.
Keeps == Unspent(row, used)' /\ Bounded(used, Number(row))'

\* A save is the operation it is for.
LEMMA SaveImplements ==
    ASSUME IInv, RInv, NEW r \in Request, Save(r)
    PROVE  /\ Promise!Next /\ Keeps
           /\ Granting(r)' => /\ request'[r].token = request[r].token
                              /\ Passed(request[r].token) \in used' \ used
<1> DEFINE q == request[r]
           n == [q EXCEPT !.stage = "session", !.auth = row', !.next = row']
           c == Challenge(row, q)
           goes == q.op = "verify" \/ (q.op = "confirm" /\ ~InManage(row, q))
<1>1. q.stage = "final" /\ Unchanged(q.auth) /\ row' = Stored(q)
      /\ used' = used \cup Spent(q) /\ sessions' = sessions
  BY DEF Save
<1>2. q # Idle /\ q \in Requests /\ Prepared(q) /\ Stores(q) /\ row \in Rows /\ q.auth = row
  BY <1>1, SaverKnows DEF Stores
<1>3. /\ q.op \in Ops /\ (q.op \in ChallengeOps => c.id = q.token /\ c.kind \in Kinds(q.op))
      /\ q.revokes <=> q.op \in Revokers
      /\ q.op = "signin" => SignInMeans(row, q.next)
      /\ q.op = "enroll" => EnrollMeans(row, q.next)
      /\ q.op = "verify" => VerifyMeans(row, q.next, q.code)
      /\ q.op = "confirm" => ConfirmMeans(row, q.next, c, q.code)
      /\ q.op = "replace" => ReplaceMeans(row, q.next, q.code)
      /\ q.op = "regenerate" => RegenerateMeans(row, q.next, q.code)
      /\ q.op = "redeem" => RedeemMeans(row, q.next, q.code)
      /\ q.op \in {"password", "revoke"} => ChangeMeans(row, q.next)
      /\ q.op = "reset" => ResetMeans(row, q.next)
  <2>1. Meant(q)
    BY <1>2 DEF RInv
  <2> HIDE DEF q
  <2> QED BY <1>1, <1>2, <2>1 DEF Meant, OnStep, c
<1>4. /\ row' \in Rows /\ Number(row') = Number(row) + 1
      /\ row'.password = q.next.password /\ row'.secret = q.next.secret
      /\ row'.last = q.next.last /\ row'.codes = q.next.codes
      /\ row'.login = q.next.login /\ row'.manage = q.next.manage
      /\ row'.reset = q.next.reset /\ row'.ticket = q.next.ticket
      /\ row'.stamp = IF q.op \in Revokers THEN Number(row) + 1 ELSE row.stamp
      /\ q.op \notin Revokers => Stays
  BY <1>1, <1>2, <1>3, StoredFields DEF Stays, SameCredentials
<1>5. Frame(row, row', used) /\ Unspent(row, used) /\ Bounded(used, Number(row)) /\ used \subseteq Codes
  BY <1>2, <1>4 DEF Frame, IInv, TypeOK, RInv
<1>6. /\ q.op = "signin" => SignInMeans(row, row')
      /\ q.op = "enroll" => EnrollMeans(row, row')
      /\ q.op = "verify" => VerifyMeans(row, row', q.code)
      /\ q.op = "confirm" => ConfirmMeans(row, row', c, q.code)
      /\ q.op = "replace" => ReplaceMeans(row, row', q.code)
      /\ q.op = "regenerate" => RegenerateMeans(row, row', q.code)
      /\ q.op = "redeem" => RedeemMeans(row, row', q.code)
      /\ q.op \in {"password", "revoke"} => ChangeMeans(row, row')
      /\ q.op = "reset" => ResetMeans(row, row')
  <2> HIDE DEF q, c
  <2> QED BY <1>3, <1>4, StoredMeans
<1>7. /\ \A p \in Request \ {r} : request'[p] = request[p]
      /\ IF goes THEN request'[r] = n ELSE request'[r] = Idle
  <2>1. IF goes THEN Becomes(r, n) ELSE Ends(r)
    BY <1>2 DEF Save
  <2> HIDE DEF goes, n
  <2> QED BY <2>1 DEF Becomes, Ends, IInv, TypeOK
<1>8. n.stage = "session" /\ n.token = q.token /\ n.auth = row'
  <2> HIDE DEF q
  <2> QED BY <1>2 DEF Requests
<1>9. /\ ~Granting(r)
      /\ Granting(r)' <=> goes
      /\ goes => request'[r].token = q.token /\ request'[r].auth = row'
  <2> HIDE DEF n, goes
  <2> QED BY <1>1, <1>7, <1>8 DEF Granting, Idle
<1>10. q.op \notin Revokers => /\ Live' = Live
                               /\ Granted' = IF goes THEN Granted \cup {q.token} ELSE Granted
  <2> HIDE DEF goes
  <2> QED BY <1>1, <1>4, <1>7, <1>9, StampStays
<1>11. q.op \in Revokers => /\ Live' = {}
                            /\ Granted' = IF goes THEN {q.token} ELSE {}
  <2> HIDE DEF goes
  <2> QED BY <1>1, <1>4, <1>7, <1>9, StampNew
<1>12. /\ q.op \in {"signin", "enroll", "password", "revoke", "reset"} => Spent(q) = {}
       /\ q.op \in {"verify", "confirm", "redeem"} => Spent(q) = {q.code, Passed(q.token)}
       /\ q.op \in {"replace", "regenerate"} => Spent(q) = {q.code}
  BY DEF Spent, ChallengeOps, ManageOps, Passed
<1> HIDE DEF q, n, c
<1>13. ASSUME NEW T, used' = used \cup T, T \subseteq Codes, Bounded(T, Number(row)),
              Unspent(row', used \cup T)
       PROVE  Keeps
  BY <1>5, <1>13, BoundedStays DEF Keeps
<1>14. ASSUME used' = used, Unspent(row', used) PROVE Keeps
  <2> DEFINE T == {}
  <2>1. T \subseteq Codes /\ Bounded(T, Number(row)) /\ used \cup T = used
    BY DEF Bounded
  <2> HIDE DEF T
  <2> QED BY <1>13, <1>14, <2>1
<1>15. ASSUME q.op \in {"signin", "enroll"}
       PROVE  Promise!Next /\ Keeps /\ ~goes
  <2>1. ~goes /\ q.op \notin Revokers /\ used' = used
    BY <1>1, <1>12, <1>15 DEF Revokers
  <2>2. Promise!StartLogin \/ Promise!StartEnrollment
    BY <1>2, <1>4, <1>6, <1>10, <1>15, <2>1, SignInImplements, EnrollImplements
  <2>3. Unspent(row', used)
    BY <1>5, <1>6, <1>15, SignInSpends, EnrollSpends
  <2>4. Keeps
    BY <1>14, <2>1, <2>3
  <2> QED BY <2>1, <2>2, <2>4 DEF Promise!Next
<1>16. ASSUME q.op \in {"password", "revoke", "reset"}
       PROVE  Promise!Next /\ Keeps /\ ~goes
  <2>1. ~goes /\ q.op \in Revokers /\ used' = used
    BY <1>1, <1>12, <1>16 DEF Revokers
  <2>2. Promise!ChangePassword \/ Promise!Reset
    BY <1>2, <1>4, <1>6, <1>11, <1>16, <2>1, ChangeImplements, ResetImplements
  <2>3. Unspent(row', used)
    BY <1>5, <1>6, <1>16, ChangeSpends, ResetSpends
  <2>4. Keeps
    BY <1>14, <2>1, <2>3
  <2> QED BY <2>1, <2>2, <2>4 DEF Promise!Next
<1>17. ASSUME q.op = "replace" PROVE Promise!Next /\ Keeps /\ ~goes
  <2>1. ~goes /\ q.op \notin Revokers /\ used' = used \cup {q.code}
    BY <1>1, <1>12, <1>17 DEF Revokers
  <2>2. Promise!Replace
    BY <1>2, <1>4, <1>5, <1>6, <1>10, <1>17, <2>1, ReplaceImplements
  <2>3. Keeps
    <3> DEFINE T == {q.code}
    <3>1. used' = used \cup T /\ T \subseteq Codes /\ Bounded(T, Number(row)) /\ Unspent(row', used \cup T)
      BY <1>5, <1>6, <1>17, <2>1, ReplaceSpends
    <3> HIDE DEF T
    <3> QED BY <1>13, <3>1
  <2> QED BY <2>1, <2>2, <2>3 DEF Promise!Next
<1>18. ASSUME q.op = "regenerate" PROVE Promise!Next /\ Keeps /\ ~goes
  <2>1. ~goes /\ q.op \in Revokers /\ used' = used \cup {q.code}
    BY <1>1, <1>12, <1>18 DEF Revokers
  <2>2. Promise!Regenerate
    BY <1>2, <1>4, <1>5, <1>6, <1>11, <1>18, <2>1, RegenerateImplements
  <2>3. Keeps
    <3> DEFINE T == {q.code}
    <3>1. used' = used \cup T /\ T \subseteq Codes /\ Bounded(T, Number(row)) /\ Unspent(row', used \cup T)
      BY <1>5, <1>6, <1>18, <2>1, RegenerateSpends
    <3> HIDE DEF T
    <3> QED BY <1>13, <3>1
  <2> QED BY <2>1, <2>2, <2>3 DEF Promise!Next
\* The sign-in step that a verification or a redemption works on.
<1>19. ASSUME q.op \in {"verify", "redeem"}
       PROVE  /\ row.login.id = q.token /\ row.login.id # 0 /\ Passed(q.token) \notin used
              /\ q.op = "verify" => row.login.kind = "verify"
              /\ q.op = "redeem" => row.login.kind = "recover"
  <2>1. c = row.login /\ q.op \in ChallengeOps
    BY <1>19 DEF c, Challenge, InManage, ChallengeOps
  <2>2. row.login.id = q.token /\ row.login.kind \in Kinds(q.op)
    BY <1>3, <2>1
  <2>3. /\ q.op = "verify" => row.login.kind = "verify"
        /\ q.op = "redeem" => row.login.kind = "recover"
    BY <2>2 DEF Kinds
  <2>4. OpenStep(row, row.login, used)
    BY <1>5 DEF Unspent
  <2> QED BY <1>19, <2>2, <2>3, <2>4 DEF OpenStep
<1>20. ASSUME q.op = "verify" PROVE Promise!Next /\ Keeps /\ Passed(q.token) \in used' \ used
  <2>1. goes /\ q.op \notin Revokers /\ used' = used \cup {q.code, Passed(row.login.id)}
    BY <1>1, <1>12, <1>19, <1>20 DEF Revokers
  <2>2. Granted' = Granted \cup {row.login.id} /\ Live' = Live
    BY <1>10, <1>19, <1>20, <2>1
  <2>3. Promise!Verify
    BY <1>2, <1>4, <1>5, <1>6, <1>19, <1>20, <2>1, <2>2, VerifyImplements
  <2>4. Keeps
    <3> DEFINE T == {q.code, Passed(row.login.id)}
    <3>1. used' = used \cup T /\ T \subseteq Codes /\ Bounded(T, Number(row)) /\ Unspent(row', used \cup T)
      BY <1>5, <1>6, <1>19, <1>20, <2>1, VerifySpends
    <3> HIDE DEF T
    <3> QED BY <1>13, <3>1
  <2> QED BY <1>19, <1>20, <2>1, <2>3, <2>4 DEF Promise!Next
<1>21. ASSUME q.op = "redeem" PROVE Promise!Next /\ Keeps /\ ~goes
  <2>1. ~goes /\ q.op \notin Revokers /\ used' = used \cup {q.code, Passed(row.login.id)}
    BY <1>1, <1>12, <1>19, <1>21 DEF Revokers
  <2>2. Promise!Redeem
    BY <1>2, <1>4, <1>5, <1>6, <1>10, <1>19, <1>21, <2>1, RedeemImplements
  <2>3. Keeps
    <3> DEFINE T == {q.code, Passed(row.login.id)}
    <3>1. used' = used \cup T /\ T \subseteq Codes /\ Bounded(T, Number(row)) /\ Unspent(row', used \cup T)
      BY <1>5, <1>6, <1>19, <1>21, <2>1, RedeemSpends
    <3> HIDE DEF T
    <3> QED BY <1>13, <3>1
  <2> QED BY <2>1, <2>2, <2>3 DEF Promise!Next
<1>22. ASSUME q.op = "confirm" PROVE Promise!Next /\ Keeps /\ Passed(q.token) \in used' \ used
  <2>1. /\ c.id = q.token /\ c.kind \in {"enroll", "replace"} /\ OpenStep(row, c, used) /\ c \in Challenges
        /\ c = IF InManage(row, q) THEN row.manage ELSE row.login
    <3>1. OpenStep(row, row.login, used) /\ OpenStep(row, row.manage, used)
      BY <1>5 DEF Unspent
    <3>2. row.login \in Challenges /\ row.manage \in Challenges
      BY <1>2 DEF Rows
    <3>3. c = IF InManage(row, q) THEN row.manage ELSE row.login
      BY DEF c, Challenge
    <3>4. c.id = q.token /\ c.kind \in {"enroll", "replace"}
      BY <1>3, <1>22 DEF ChallengeOps, Kinds
    <3> QED BY <3>1, <3>2, <3>3, <3>4
  <2>2. /\ goes <=> ~InManage(row, q)
        /\ q.op \in Revokers /\ used' = used \cup {q.code, Passed(c.id)}
        /\ Passed(q.token) \in used' \ used
    <3>1. Passed(c.id) \notin used
      BY <2>1 DEF OpenStep
    <3>2. used' = used \cup {q.code, Passed(c.id)}
      BY <1>1, <1>12, <1>22, <2>1
    <3> QED BY <1>22, <2>1, <3>1, <3>2 DEF Revokers
  <2>3. ConfirmMeans(row, row', c, q.code)
    BY <1>6, <1>22
  <2> DEFINE signsIn == ~InManage(row, q)
  <2>4. signsIn \in BOOLEAN /\ Live' = {} /\ Granted' = IF signsIn THEN {c.id} ELSE {}
    BY <1>11, <2>1, <2>2 DEF InManage
  <2> HIDE DEF signsIn, goes
  <2>5. Promise!Confirm(Abstract(c), signsIn)
    BY <1>2, <1>4, <1>5, <2>1, <2>2, <2>3, <2>4, ConfirmImplements
  <2>6. Promise!Next
    <3>1. CASE signsIn
      <4>1. Promise!Confirm(Abstract(row.login), TRUE)
        <5>1. signsIn = TRUE /\ c = row.login
          BY <2>1, <2>4, <3>1 DEF signsIn
        <5> QED BY <2>5, <5>1
      <4> QED BY <4>1 DEF Promise!Next
    <3>2. CASE ~signsIn
      <4>1. Promise!Confirm(Abstract(row.manage), FALSE)
        <5>1. signsIn = FALSE /\ c = row.manage
          BY <2>1, <2>4, <3>2 DEF signsIn
        <5> QED BY <2>5, <5>1
      <4> QED BY <4>1 DEF Promise!Next
    <3> QED BY <3>1, <3>2
  <2>7. Keeps
    <3> DEFINE T == {q.code, Passed(c.id)}
    <3>1. used' = used \cup T /\ T \subseteq Codes /\ Bounded(T, Number(row)) /\ Unspent(row', used \cup T)
      <4>1. Frame(row, row', used) /\ c \in Challenges /\ OpenStep(row, c, used)
            /\ ConfirmMeans(row, row', c, q.code)
        BY <1>5, <2>1, <2>3
      <4> DEFINE code == q.code
      <4>2. ConfirmMeans(row, row', c, code) /\ T = {code, Passed(c.id)}
        BY <4>1
      <4> HIDE DEF code, T
      <4>3. T \subseteq Codes /\ Bounded(T, Number(row)) /\ Unspent(row', used \cup T)
        BY <4>1, <4>2, ConfirmSpends
      <4> QED BY <2>2, <4>3 DEF T
    <3> HIDE DEF T
    <3> QED BY <1>13, <3>1
  <2> QED BY <2>2, <2>6, <2>7
<1>23. q.op \in {"signin", "enroll", "password", "revoke", "reset", "replace", "regenerate",
                 "verify", "redeem", "confirm"}
  BY <1>3 DEF Ops, ChallengeOps, ManageOps
<1> HIDE DEF goes
<1>24. Promise!Next /\ Keeps /\ (goes => Passed(q.token) \in used' \ used)
  BY <1>15, <1>16, <1>17, <1>18, <1>20, <1>21, <1>22, <1>23
<1> QED BY <1>9, <1>24 DEF q

-----------------------------------------------------------------------------
(* The other steps, none of which Credentials sees but the last. *)

\* What holds of the row, the factors used up and the requests after a step of
\* request r.
LEMMA StepRelates ==
    ASSUME IInv, RInv, NEW r \in Request, Keeps, clock' <= MaxClock, used \subseteq used',
           \A p \in Request \ {r} : request'[p] = request[p],
           request'[r] # Idle => Meant(request[r])',
           Granting(r)' => Passed(request'[r].token) \in used' \ used
    PROVE  RInv'
<1>1. \A p \in Request : request'[p] # Idle => Meant(request'[p])
  <2> SUFFICES ASSUME NEW p \in Request, request'[p] # Idle PROVE Meant(request'[p])
    OBVIOUS
  <2>1. CASE p = r
    BY <2>1
  <2>2. CASE p # r
    BY <2>2 DEF RInv
  <2> QED BY <2>1, <2>2
<1>2. \A p \in Request \ {r} : Granting(p)' => Passed(request'[p].token) \in used
  BY DEF RInv, Granting
<1>3. \A p \in Request : Granting(p)' => Passed(request'[p].token) \in used'
  BY <1>2
<1>4. ASSUME NEW p \in Request, NEW s \in Request, Granting(p)', Granting(s)',
             request'[p].token = request'[s].token
      PROVE  p = s
  <2>1. CASE p # r /\ s # r
    BY <1>4, <2>1 DEF RInv, Granting
  <2>2. CASE p = r \/ s = r
    BY <1>2, <1>4, <2>2
  <2> QED BY <2>1, <2>2
<1>5. \A p \in Request : request'[p] # Idle => Meant(request[p])'
  BY <1>1
<1> QED BY <1>3, <1>4, <1>5 DEF RInv, Keeps

\* The variables of Credentials.
Stuttered == <<row.password, row.secret, row.codes, Abstract(row.login), Abstract(row.manage),
               row.reset, row.ticket.id, Granted, Live, used>>
Stutters == UNCHANGED Stuttered

LEMMA QuietStutters ==
    ASSUME IInv, RInv, NEW r \in Request, NEW n, Becomes(r, n),
           n # Idle => n.stage # "session" /\ Meant(n),
           ~Granting(r), UNCHANGED <<row, clock, sessions, used>>
    PROVE  Stutters /\ RInv'
<1>1. (\A p \in Request \ {r} : request'[p] = request[p]) /\ request'[r] = n
  BY DEF Becomes, IInv, TypeOK
<1>2. ~Granting(r)'
  BY <1>1 DEF Granting, Idle
<1>3. Granted' = Granted /\ Live' = Live
  BY <1>1, <1>2, StampStays
<1>4. Keeps /\ clock' <= MaxClock
  BY DEF Keeps, RInv, Unspent, Bounded, OpenStep, Number
<1>5. Stutters
  BY <1>3 DEF Stutters, Stuttered, Abstract
<1>6. request'[r] # Idle => Meant(request[r])'
  BY <1>1
<1> QED BY <1>1, <1>2, <1>4, <1>5, <1>6, StepRelates

\* Counting leaves everything else in the row.
LEMMA CountedMeans ==
    ASSUME NEW a \in Rows, NEW q \in Requests
    PROVE  LET n == Counted(a, q) IN
           /\ n.codes = a.codes /\ n.last = a.last /\ n.ticket = a.ticket
           /\ Abstract(n.login) = Abstract(a.login) /\ Abstract(n.manage) = Abstract(a.manage)
<1> DEFINE k == LimitKind(q)
           b == [a EXCEPT !.limits[k] = [LimitOf(a, k) EXCEPT !.count = @ + 1]]
           c == Challenge(a, q)
           d == [c EXCEPT !.attempts = @ + 1]
           n == Counted(a, q)
<1>1. /\ b.codes = a.codes /\ b.last = a.last /\ b.ticket = a.ticket
      /\ b.login = a.login /\ b.manage = a.manage
      /\ DOMAIN b = DOMAIN a
  BY DEF Rows
<1>2. n = IF q.op \in ChallengeOps THEN WithChallenge(b, q, d) ELSE b
  BY DEF Counted
<1>3. c \in Challenges
  BY DEF Challenge, Rows
<1>4. Abstract(d) = Abstract(c)
  BY <1>3 DEF Abstract, Challenges
<1>5. InManage(b, q) <=> InManage(a, q)
  BY <1>1 DEF InManage
<1>6. "login" \in DOMAIN b /\ "manage" \in DOMAIN b
  BY <1>1 DEF Rows
<1> HIDE DEF b, d, c, n
<1>7. CASE q.op \in ChallengeOps /\ InManage(a, q)
  <2>1. n = [b EXCEPT !.manage = d] /\ c = a.manage
    BY <1>2, <1>5, <1>7 DEF WithChallenge, c, Challenge
  <2> QED BY <1>1, <1>4, <1>6, <2>1 DEF n
<1>8. CASE q.op \in ChallengeOps /\ ~InManage(a, q)
  <2>1. n = [b EXCEPT !.login = d] /\ c = a.login
    BY <1>2, <1>5, <1>8 DEF WithChallenge, c, Challenge
  <2> QED BY <1>1, <1>4, <1>6, <2>1 DEF n
<1>9. CASE q.op \notin ChallengeOps
  BY <1>1, <1>2, <1>9 DEF n
<1> QED BY <1>7, <1>8, <1>9

\* A request that is about to count an attempt is on its step.
LEMMA CountMeant ==
    ASSUME row \in Rows, NEW q \in Requests, MayCount(row, q),
           q.op \in ChallengeOps \cup ManageOps \cup {"signin"},
           NEW n \in Requests, n.stage = "count", n.auth = row, n.op = q.op, n.token = q.token,
           n.next = Counted(row, q)
    PROVE  Meant(n)
<1>1. q.op \in ChallengeOps => OnStep(n)
  BY DEF MayCount, Open, OnStep, Challenge, InManage, Kinds
<1>2. q.op \in Ops
  BY DEF Requests
<1>3. /\ n.next.codes = row.codes /\ n.next.last = row.last /\ n.next.ticket = row.ticket
      /\ Abstract(n.next.login) = Abstract(row.login) /\ Abstract(n.next.manage) = Abstract(row.manage)
  BY CountedMeans
<1> QED BY <1>1, <1>2, <1>3 DEF Meant

LEMMA BeginImplements == ASSUME IInv, RInv, NEW r \in Request, Begin(r) PROVE Stutters /\ RInv'
<1>1. PICK q \in Questions : MayCount(row, q) /\ Becomes(r, [q EXCEPT !.next = Counted(row, q)])
  BY DEF Begin
<1> DEFINE n == [q EXCEPT !.next = Counted(row, q)]
<1>2. row \in Rows /\ clock \in Nat
  BY DEF IInv, TypeOK
<1>3. q \in Requests /\ q.auth = row /\ q.stage = "count"
  BY QuestionTyped
<1>4. q.op \in ChallengeOps \cup ManageOps \cup {"signin"}
  BY DEF Questions, Ask
<1>5. Counted(row, q) \in Rows
  BY <1>2, <1>3, CountedKeeps
<1>6. /\ n \in Requests /\ n.stage = "count" /\ n.auth = row
      /\ n.op = q.op /\ n.token = q.token /\ n.next = Counted(row, q)
  BY <1>3, <1>5 DEF Requests
<1>7. Becomes(r, n) /\ ~Granting(r) /\ UNCHANGED <<row, clock, sessions, used>>
  BY <1>1 DEF Begin, Starts, Granting, Idle
<1> HIDE DEF n
<1>8. Meant(n)
  BY <1>1, <1>2, <1>3, <1>4, <1>6, CountMeant
<1> QED BY <1>6, <1>7, <1>8, QuietStutters

LEMMA RetryImplements == ASSUME IInv, RInv, NEW r \in Request, Retry(r) PROVE Stutters /\ RInv'
<1> DEFINE q == request[r]
           n == [q EXCEPT !.auth = row, !.next = Counted(row, q), !.tries = @ - 1]
<1>1. q.stage = "count" /\ q.tries > 1 /\ MayCount(row, q) /\ Becomes(r, n)
      /\ UNCHANGED <<row, clock, sessions, used>>
  BY DEF Retry
<1>2. row \in Rows /\ clock \in Nat
  BY DEF IInv, TypeOK
<1>3. q # Idle /\ ~Granting(r)
  BY <1>1 DEF Idle, Granting
<1>4. q \in Requests /\ Meant(q)
  BY <1>3 DEF IInv, TypeOK, RInv
<1>5. q.op \in ChallengeOps \cup ManageOps \cup {"signin"}
  <2> HIDE DEF q
  <2> QED BY <1>1, <1>4 DEF Meant
<1>6. Counted(row, q) \in Rows /\ q.tries - 1 \in Nat
  BY <1>1, <1>2, <1>4, CountedKeeps DEF Requests
<1> HIDE DEF q
<1>7. /\ n \in Requests /\ n.stage = "count" /\ n.auth = row
      /\ n.op = q.op /\ n.token = q.token /\ n.next = Counted(row, q)
  BY <1>1, <1>2, <1>4, <1>6 DEF Requests
<1> HIDE DEF n
<1>8. Meant(n)
  BY <1>1, <1>2, <1>4, <1>5, <1>7, CountMeant
<1> QED BY <1>1, <1>3, <1>7, <1>8, QuietStutters

LEMMA StartEnrollmentImplements ==
    ASSUME IInv, RInv, NEW r \in Request, StartEnrollment(r) PROVE Stutters /\ RInv'
<1>1. PICK c \in {row.login, row.manage} \ {NoChallenge} :
        LET q == Ask("enroll", c.id, 0) IN
        /\ Open(row, q) /\ c.secret = 0
        /\ Becomes(r, [q EXCEPT !.stage = "final",
                                !.next = WithChallenge(row, q, [c EXCEPT !.secret = Fresh(row)])])
  BY DEF StartEnrollment
<1> DEFINE q == Ask("enroll", c.id, 0)
           d == [c EXCEPT !.secret = Fresh(row)]
           w == WithChallenge(row, q, d)
           n == [q EXCEPT !.stage = "final", !.next = w]
<1>2. row \in Rows /\ c \in Challenges /\ Unspent(row, used)
  BY DEF IInv, TypeOK, Rows, RInv
<1>3. q.op = "enroll" /\ q.token = c.id /\ q.auth = row /\ ~q.revokes
  BY DEF Ask
<1>4. d.id = c.id /\ d.kind = c.kind /\ d.secret = Fresh(row)
  BY <1>2 DEF Challenges
<1>5. Open(row, q) /\ Becomes(r, n) /\ c.secret = 0
  BY <1>1
<1>6. ~Granting(r) /\ UNCHANGED <<row, clock, sessions, used>>
  BY DEF StartEnrollment, Starts, Granting, Idle
<1>7. n.op = "enroll" /\ n.auth = row /\ n.stage = "final" /\ n.next = w /\ ~n.revokes
  BY DEF Ask
<1> HIDE DEF q, d, n
<1>8. /\ row.login.kind # "replace" /\ row.manage.kind \in {"none", "replace"}
      /\ row.login.id = row.manage.id => row.login.id = 0
      /\ row.login.kind # "none" => row.login.id # 0
      /\ row.manage.kind # "none" => row.manage.id # 0
  BY <1>2 DEF Unspent, OpenStep
<1>9. EnrollMeans(row, w)
  <2>1. CASE row.manage.id = c.id
    <3>1. InManage(row, q) /\ row.manage.kind \in {"enroll", "replace"}
      BY <1>3, <1>5, <2>1 DEF InManage, Open, Challenge, Kinds
    <3>2. row.manage.kind = "replace" /\ c = row.manage
      BY <1>8, <2>1, <3>1
    <3>3. w = [row EXCEPT !.manage = d]
      BY <3>1 DEF WithChallenge
    <3> QED BY <1>2, <1>4, <1>5, <3>2, <3>3 DEF EnrollMeans, GivesSecret, SameFactors, Rows
  <2>2. CASE row.manage.id # c.id
    <3>1. ~InManage(row, q) /\ row.login.kind \in {"enroll", "replace"} /\ c = row.login
      BY <1>3, <1>5, <2>2 DEF InManage, Open, Challenge, Kinds
    <3>2. row.login.kind = "enroll"
      BY <1>8, <3>1
    <3>3. w = [row EXCEPT !.login = d]
      BY <3>1 DEF WithChallenge
    <3> QED BY <1>2, <1>4, <1>5, <3>1, <3>2, <3>3 DEF EnrollMeans, GivesSecret, SameFactors, Rows
  <2> QED BY <2>1, <2>2
<1> HIDE DEF w
<1>10. Meant(n)
  BY <1>7, <1>9 DEF Meant, ChallengeOps, ManageOps, Revokers, Ops
<1> QED BY <1>5, <1>6, <1>7, <1>10, QuietStutters

LEMMA StartChangeImplements ==
    ASSUME IInv, RInv, NEW r \in Request, StartChange(r) PROVE Stutters /\ RInv'
<1>1. PICK q \in Revoking : Becomes(r, [q EXCEPT !.stage = "final", !.revokes = TRUE])
  BY DEF StartChange
<1> DEFINE n == [q EXCEPT !.stage = "final", !.revokes = TRUE]
           reset == [Cleared(row) EXCEPT !.secret = 0, !.last = -1, !.codes = {}, !.reset = TRUE,
                                !.ticket = [id |-> Fresh(row), expires |-> clock + TicketTicks]]
<1>2. row \in Rows /\ Cleared(row) \in Rows
  BY ClearedKeeps DEF IInv, TypeOK
<1>3. Closed(Cleared(row)) /\ SameFactors(row, Cleared(row)) /\ Cleared(row).reset = row.reset
      /\ Cleared(row).password = row.password
  BY <1>2 DEF Cleared, Closed, SameFactors, Rows
<1>4. \A p \in Password : ChangeMeans(row, [Cleared(row) EXCEPT !.password = p])
  BY <1>2, <1>3 DEF ChangeMeans, Closed, SameFactors, Rows
<1>5. ChangeMeans(row, Cleared(row))
  BY <1>3 DEF ChangeMeans
<1>6. ResetMeans(row, reset)
  BY <1>2, <1>3 DEF ResetMeans, Closed, Rows
<1>7. /\ n.stage = "final" /\ n.revokes /\ n.auth = row
      /\ \/ n.op = "password" /\ \E p \in Password : n.next = [Cleared(row) EXCEPT !.password = p]
         \/ n.op = "revoke" /\ n.next = Cleared(row)
         \/ n.op = "reset" /\ n.next = reset
  <2> HIDE DEF reset
  <2>1. \/ \E p \in Password :
             q = [Ask("password", 0, 0) EXCEPT !.next = [Cleared(row) EXCEPT !.password = p]]
        \/ q = [Ask("revoke", 0, 0) EXCEPT !.next = Cleared(row)]
        \/ q = [Ask("reset", 0, 0) EXCEPT !.next = reset]
    BY DEF Revoking, reset
  <2> QED BY <2>1 DEF Ask
<1>8. Becomes(r, n) /\ ~Granting(r) /\ UNCHANGED <<row, clock, sessions, used>>
  BY <1>1 DEF StartChange, Starts, Granting, Idle
<1> HIDE DEF n, reset
<1>9. Meant(n)
  <2>1. /\ n.op \in {"password", "revoke"} => ChangeMeans(row, n.next)
        /\ n.op = "reset" => ResetMeans(row, n.next)
        /\ n.op \in {"password", "revoke", "reset"}
    BY <1>4, <1>5, <1>6, <1>7
  <2> QED BY <1>7, <2>1 DEF Meant, ChallengeOps, ManageOps, Revokers, Ops
<1> QED BY <1>7, <1>8, <1>9, QuietStutters

LEMMA ConflictImplements ==
    ASSUME IInv, RInv, NEW r \in Request, Conflict(r) PROVE Stutters /\ RInv'
<1>1. Becomes(r, Idle) /\ ~Granting(r) /\ UNCHANGED <<row, clock, sessions, used>>
  BY DEF Conflict, Ends, Granting
<1> QED BY <1>1, QuietStutters

LEMMA AuthenticateImplements ==
    ASSUME IInv, RInv, NEW r \in Request, Authenticate(r) PROVE Stutters /\ RInv'
<1> DEFINE q == request[r]
           n == [q EXCEPT !.stage = "challenge", !.auth = row]
<1>1. q # Idle /\ q.stage = "password" /\ UNCHANGED <<row, clock, sessions, used>>
      /\ (Becomes(r, n) \/ Becomes(r, Idle))
  BY DEF Authenticate, Ends
<1>2. q \in Requests /\ ~Granting(r)
  BY <1>1 DEF IInv, TypeOK, Granting
<1> HIDE DEF q
<1>3. n.stage = "challenge"
  BY <1>2 DEF Requests
<1>4. Meant(n)
  BY <1>3 DEF Meant
<1> HIDE DEF n
<1> QED BY <1>1, <1>2, <1>3, <1>4, QuietStutters

LEMMA CompleteLoginImplements ==
    ASSUME IInv, RInv, NEW r \in Request, CompleteLogin(r) PROVE Stutters /\ RInv'
<1> DEFINE q == request[r]
           kind == IF row.reset THEN "recover" ELSE IF row.secret # 0 THEN "verify" ELSE "enroll"
           a == [row EXCEPT !.login = NewChallenge(row, kind)]
           n == [q EXCEPT !.stage = "final", !.auth = row, !.next = a]
<1>1. q.stage = "challenge" /\ UNCHANGED <<row, clock, sessions, used>>
      /\ (Becomes(r, n) \/ Becomes(r, Idle))
  BY DEF CompleteLogin, Ends
<1>2. q # Idle /\ ~Granting(r)
  BY <1>1 DEF Idle, Granting
<1>3. q \in Requests /\ Prepared(q) /\ row \in Rows
  BY <1>2 DEF IInv, TypeOK, Sound
<1>4. q.op = "signin" /\ ~q.revokes
  BY <1>1, <1>3 DEF Prepared
<1> HIDE DEF q
<1>5. SignInMeans(row, a)
  BY <1>3 DEF SignInMeans, SameFactors, Opens, NewChallenge, Rows
<1> HIDE DEF a
<1>6. n.auth = row /\ n.stage = "final" /\ n.op = "signin" /\ ~n.revokes /\ n.next = a
  BY <1>3, <1>4 DEF Requests
<1> HIDE DEF n
<1>7. Meant(n)
  BY <1>5, <1>6 DEF Meant, ChallengeOps, ManageOps, Revokers, Ops
<1> QED BY <1>1, <1>2, <1>6, <1>7, QuietStutters

\* A row that was saved with another count.
SameButCounts(a, b) ==
    /\ SameCredentials(b, a)
    /\ b.codes = a.codes /\ b.last = a.last /\ b.ticket = a.ticket
    /\ Abstract(b.login) = Abstract(a.login) /\ Abstract(b.manage) = Abstract(a.manage)

LEMMA CountKeeps ==
    ASSUME NEW a, NEW b, NEW S, Frame(a, b, S), SameButCounts(a, b)
    PROVE  Unspent(b, S) /\ Bounded(S, Number(b))
<1> DEFINE T == {}
<1>1. T \subseteq Codes /\ (\A u \in T : FALSE) /\ S \cup T = S /\ Bounded(T, Number(a))
  BY DEF Bounded
<1> HIDE DEF T
<1>2. b.codes \subseteq a.codes \ T /\ b.secret = a.secret /\ b.last >= a.last /\ b.ticket = a.ticket
  BY <1>1, FrameFacts DEF SameButCounts, SameCredentials
<1>3. \A f \in b.codes : f[1] = "recovery" /\ f[2] <= Number(b) /\ f \notin S \cup T
  <2>1. b.codes \subseteq a.codes \ T
    BY <1>2
  <2> QED BY ONLY Frame(a, b, S), <2>1, CodesStay
<1>4. /\ \A u \in S \cup T : u[1] = "totp" /\ u[2] = b.secret => u[3] <= b.last
      /\ b.secret <= Number(b)
  BY <1>1, <1>2, TotpStays
<1>5. /\ b.ticket.id <= Number(b)
      /\ b.ticket.id # 0 => <<"ticket", b.ticket.id, 0>> \notin S \cup T
  BY <1>1, <1>2, TicketStays
<1>6. /\ OpenStep(a, a.login, S) /\ OpenStep(a, a.manage, S)
      /\ a.login.kind # "replace" /\ a.manage.kind \in {"none", "replace"}
      /\ a.login.id = a.manage.id => a.login.id = 0
  BY DEF Frame, Unspent
<1>7. /\ b.login.id = a.login.id /\ b.login.kind = a.login.kind
      /\ b.manage.id = a.manage.id /\ b.manage.kind = a.manage.kind
  BY DEF SameButCounts, Abstract
<1>8. OpenStep(b, b.login, S \cup T)
  BY <1>1, <1>2, <1>6, FrameFacts, OpenStays DEF SameButCounts
<1>9. OpenStep(b, b.manage, S \cup T)
  BY <1>1, <1>2, <1>6, FrameFacts, OpenStays DEF SameButCounts
<1>10. Unspent(b, S \cup T)
  BY <1>3, <1>4, <1>5, <1>6, <1>7, <1>8, <1>9 DEF Unspent
<1>11. Bounded(S \cup T, Number(b))
  BY <1>1, BoundedStays
<1> QED BY <1>1, <1>10, <1>11

\* The save of a count.
LEMMA CountStutters ==
    ASSUME IInv, RInv, NEW r \in Request, request[r].stage = "count", Unchanged(request[r].auth),
           row' = Stored(request[r]), NEW n, Becomes(r, n), n # Idle => n.stage # "session" /\ Meant(n),
           UNCHANGED <<clock, sessions, used>>
    PROVE  Stutters /\ RInv'
<1> DEFINE q == request[r]
<1>1. q # Idle /\ q \in Requests /\ Stores(q) /\ Prepared(q) /\ row \in Rows /\ q.auth = row
  BY SaverKnows DEF Stores
<1>2. Meant(q) /\ q.stage = "count"
  BY <1>1 DEF RInv
<1>3. row' = Stored(q)
  OBVIOUS
<1> HIDE DEF q
<1>4. /\ q.next.codes = row.codes /\ q.next.last = row.last /\ q.next.ticket = row.ticket
      /\ Abstract(q.next.login) = Abstract(row.login) /\ Abstract(q.next.manage) = Abstract(row.manage)
  BY <1>1, <1>2 DEF Meant
<1>5. /\ row' \in Rows /\ Number(row') = Number(row) + 1 /\ SameCredentials(row', row)
      /\ row'.last = q.next.last /\ row'.codes = q.next.codes /\ row'.ticket = q.next.ticket
      /\ row'.login = q.next.login /\ row'.manage = q.next.manage
  BY <1>1, <1>2, <1>3, StoredFields
<1>6. SameButCounts(row, row')
  BY <1>4, <1>5 DEF SameButCounts
<1>7. Frame(row, row', used)
  BY <1>1, <1>5 DEF Frame, IInv, TypeOK, RInv
<1>8. Keeps /\ clock' <= MaxClock
  BY <1>6, <1>7, CountKeeps DEF Keeps, RInv
<1>9. (\A p \in Request \ {r} : request'[p] = request[p]) /\ request'[r] = n
  BY DEF Becomes, IInv, TypeOK
<1>10. ~Granting(r) /\ ~Granting(r)'
  BY <1>9 DEF Granting, Idle
<1>11. Granted' = Granted /\ Live' = Live
  <2>1. row'.stamp = row.stamp
    BY <1>5 DEF SameCredentials
  <2> QED BY <1>9, <1>10, <2>1, StampStays
<1>12. Stutters
  BY <1>6, <1>11 DEF Stutters, Stuttered, SameButCounts, SameCredentials, Abstract
<1>13. request'[r] # Idle => Meant(request[r])'
  BY <1>9
<1> QED BY <1>8, <1>9, <1>10, <1>12, <1>13, StepRelates

LEMMA CountSignInImplements ==
    ASSUME IInv, RInv, NEW r \in Request, CountSignIn(r) PROVE Stutters /\ RInv'
<1> DEFINE q == request[r]
           n == [q EXCEPT !.stage = "password", !.auth = row', !.next = row']
<1>1. /\ q.stage = "count" /\ Unchanged(q.auth) /\ row' = Stored(q)
      /\ Becomes(r, n) /\ UNCHANGED <<clock, sessions, used>>
  BY DEF CountSignIn
<1>2. q \in Requests
  BY <1>1, SaverKnows
<1>3. n.stage = "password"
  <2> HIDE DEF q
  <2> QED BY <1>2 DEF Requests
<1> HIDE DEF n
<1>4. Meant(n)
  BY <1>3 DEF Meant
<1> QED BY <1>1, <1>3, <1>4, CountStutters

\* A code of an authenticator near the clock.
LEMMA TotpFacts ==
    ASSUME clock \in Nat, clock <= MaxClock, NEW S, S \subseteq Nat, NEW f \in TotpCodes(S)
    PROVE  f = <<"totp", f[2], f[3]>> /\ f[2] \in S /\ f[3] \in 0 .. MaxClock + 1
<1>1. MaxClock \in Nat
  BY ConstantsAssumption
<1>2. PICK s \in S, t \in (clock - 1 .. clock + 1) \cap Nat : f = <<"totp", s, t>>
  BY DEF TotpCodes
<1>3. t \in 0 .. MaxClock + 1
  BY <1>1
<1> QED BY <1>2, <1>3

\* A factor that is accepted is one to consume.
LEMMA FactorConsumed ==
    ASSUME clock \in Nat, clock <= MaxClock, NEW a \in Rows, \A g \in a.codes : g[1] = "recovery",
           NEW f \in {g \in a.codes \cup TotpCodes({a.secret}) : Consumable(a, g)}
    PROVE  /\ Consumed(a, f) \in Rows
           /\ Consumes(a, Consumed(a, f), f)
           /\ Consumed(a, f).login = a.login /\ Consumed(a, f).manage = a.manage
           /\ Consumed(a, f).ticket = a.ticket /\ Consumed(a, f).password = a.password
           /\ Consumed(a, f).reset = a.reset
<1>1. f \in Codes
  BY FactorTyped
<1>2. Consumed(a, f) \in Rows
  BY <1>1, ConsumedKeeps
<1>3. CASE f \in a.codes
  <2>1. f[1] = "recovery"
    BY <1>3
  <2> QED BY <1>2, <1>3, <2>1 DEF Consumed, Consumes, Rows
<1>4. CASE f \notin a.codes
  <2>1. f \in TotpCodes({a.secret}) /\ a.secret # 0 /\ f[3] > a.last
    BY <1>4 DEF Consumable, Matches
  <2>2. {a.secret} \subseteq Nat
    BY DEF Rows
  <2>3. f = <<"totp", f[2], f[3]>> /\ f[2] \in {a.secret} /\ f[3] \in 0 .. MaxClock + 1
    <3> DEFINE S == {a.secret}
    <3>1. S \subseteq Nat /\ f \in TotpCodes(S)
      BY <2>1, <2>2
    <3> HIDE DEF S
    <3>2. f = <<"totp", f[2], f[3]>> /\ f[2] \in S /\ f[3] \in 0 .. MaxClock + 1
      BY <3>1, TotpFacts
    <3> QED BY <3>2 DEF S
  <2>4. f[1] # "recovery" /\ f[2] = a.secret
    BY <2>3
  <2>5. Consumed(a, f) = [a EXCEPT !.last = f[3]]
    BY <2>4 DEF Consumed
  <2> QED BY <1>2, <2>1, <2>3, <2>4, <2>5 DEF Consumes, Rows
<1> QED BY <1>3, <1>4

\* Whatever code is accepted, its request saves what it is for.
LEMMA AcceptedMeant ==
    ASSUME clock \in Nat, clock <= MaxClock, NEW x \in Rows, \A g \in x.codes : g[1] = "recovery",
           NEW q \in Requests, q.auth = x, q.op \in ChallengeOps => OnStep(q), NEW f \in Accepted(q)
    PROVE  f.stage = "final" /\ Meant(f)
<1> DEFINE Factors == {g \in x.codes \cup TotpCodes({x.secret}) : Consumable(x, g)}
           c == Challenge(x, q)
<1>1. Fresh(x) \in Nat
  BY NumberTyped
<1>2. c \in Challenges /\ c.secret \in Nat
  BY DEF Challenge, Rows, Challenges
<1>3. ASSUME NEW code, NEW n, NEW b \in BOOLEAN, f = Final(q, code, n, b)
      PROVE  /\ f.stage = "final" /\ f.op = q.op /\ f.auth = x /\ f.next = n /\ f.code = code
             /\ f.token = q.token /\ f.revokes = b
             /\ Challenge(f.auth, f) = c
             /\ q.op \in ChallengeOps => OnStep(f)
  <2>1. /\ f.stage = "final" /\ f.op = q.op /\ f.auth = x /\ f.next = n /\ f.code = code
        /\ f.token = q.token /\ f.revokes = b
    BY <1>3 DEF Final, Requests
  <2>2. Challenge(f.auth, f) = c
    BY <2>1 DEF Challenge, InManage
  <2> QED BY <2>1, <2>2 DEF OnStep, Kinds
<1>4. CASE q.op = "verify"
  <2>1. PICK code \in Factors : f = Final(q, code, [Consumed(x, code) EXCEPT !.login = NoChallenge], FALSE)
    BY <1>4 DEF Accepted
  <2> DEFINE n == [Consumed(x, code) EXCEPT !.login = NoChallenge]
  <2>2. /\ Consumed(x, code) \in Rows /\ Consumes(x, Consumed(x, code), code)
        /\ Consumed(x, code).manage = x.manage /\ Consumed(x, code).ticket = x.ticket
    BY FactorConsumed
  <2>3. VerifyMeans(x, n, code)
    BY <2>2 DEF VerifyMeans, Consumes, Rows
  <2>4. f = Final(q, code, n, FALSE)
    BY <2>1
  <2> HIDE DEF n, c
  <2>5. /\ f.stage = "final" /\ f.op = "verify" /\ f.auth = x /\ f.next = n /\ f.code = code
        /\ f.revokes = FALSE /\ OnStep(f)
    BY <1>3, <1>4, <2>4 DEF ChallengeOps
  <2> QED BY <2>3, <2>5 DEF Meant, ChallengeOps, ManageOps, Revokers, Ops
<1>5. CASE q.op = "confirm"
  <2>1. PICK code \in {g \in TotpCodes({c.secret} \ {0}) : Matches(g, c.secret, -1)} :
          f = Final(q, code, [Cleared(x) EXCEPT !.secret = c.secret, !.last = code[3],
                                     !.codes = RecoveryCodes(Fresh(x)), !.reset = FALSE], TRUE)
    BY <1>5 DEF Accepted
  <2> DEFINE n == [Cleared(x) EXCEPT !.secret = c.secret, !.last = code[3],
                                     !.codes = RecoveryCodes(Fresh(x)), !.reset = FALSE]
             S == {c.secret} \ {0}
  <2>2. code = <<"totp", code[2], code[3]>> /\ code[2] \in S /\ code[3] \in 0 .. MaxClock + 1
    <3>1. S \subseteq Nat /\ code \in TotpCodes(S)
      BY <1>2
    <3> HIDE DEF S
    <3> QED BY <3>1, TotpFacts
  <2>3. c.secret # 0 /\ code = <<"totp", c.secret, code[3]>>
    BY <2>2
  <2> HIDE DEF c
  <2>4. ConfirmMeans(x, n, c, code)
    BY <2>2, <2>3 DEF ConfirmMeans, Cleared, Closed, Rows
  <2>5. f = Final(q, code, n, TRUE)
    BY <2>1
  <2> HIDE DEF n
  <2>6. /\ f.stage = "final" /\ f.op = "confirm" /\ f.auth = x /\ f.next = n /\ f.code = code
        /\ f.revokes = TRUE /\ OnStep(f) /\ Challenge(f.auth, f) = c
    BY <1>3, <1>5, <2>5 DEF ChallengeOps
  <2>7. ConfirmMeans(x, n, Challenge(f.auth, f), code)
    BY <2>4, <2>6
  <2> QED BY <2>6, <2>7 DEF Meant, ChallengeOps, ManageOps, Revokers, Ops
<1>6. CASE q.op = "replace"
  <2>1. PICK code \in Factors :
          f = Final(q, code, [Consumed(x, code) EXCEPT !.manage = NewChallenge(x, "replace")], FALSE)
    BY <1>6 DEF Accepted
  <2> DEFINE n == [Consumed(x, code) EXCEPT !.manage = NewChallenge(x, "replace")]
  <2>2. /\ Consumed(x, code) \in Rows /\ Consumes(x, Consumed(x, code), code)
        /\ Consumed(x, code).login = x.login /\ Consumed(x, code).ticket = x.ticket
    BY FactorConsumed
  <2>3. ReplaceMeans(x, n, code)
    BY <2>2 DEF ReplaceMeans, Consumes, Opens, NewChallenge, Rows
  <2>4. f = Final(q, code, n, FALSE)
    BY <2>1
  <2> HIDE DEF n, c
  <2>5. /\ f.stage = "final" /\ f.op = "replace" /\ f.auth = x /\ f.next = n /\ f.code = code
        /\ f.revokes = FALSE
    BY <1>3, <1>6, <2>4
  <2> QED BY <2>3, <2>5 DEF Meant, ChallengeOps, ManageOps, Revokers, Ops
<1>7. CASE q.op = "regenerate"
  <2>1. PICK code \in Factors :
          f = Final(q, code, [Cleared(Consumed(x, code)) EXCEPT !.codes = RecoveryCodes(Fresh(x))], TRUE)
    BY <1>7 DEF Accepted
  <2> DEFINE n == [Cleared(Consumed(x, code)) EXCEPT !.codes = RecoveryCodes(Fresh(x))]
  <2>2. /\ Consumed(x, code) \in Rows /\ Consumes(x, Consumed(x, code), code)
        /\ Consumed(x, code).password = x.password /\ Consumed(x, code).reset = x.reset
    BY FactorConsumed
  <2>3. RegenerateMeans(x, n, code)
    BY <2>2 DEF RegenerateMeans, Consumes, Cleared, Closed, Rows
  <2>4. f = Final(q, code, n, TRUE)
    BY <2>1
  <2> HIDE DEF n, c
  <2>5. /\ f.stage = "final" /\ f.op = "regenerate" /\ f.auth = x /\ f.next = n /\ f.code = code
        /\ f.revokes = TRUE
    BY <1>3, <1>7, <2>4
  <2> QED BY <2>3, <2>5 DEF Meant, ChallengeOps, ManageOps, Revokers, Ops
<1>8. CASE q.op = "redeem"
  <2> DEFINE n == [x EXCEPT !.ticket = NoTicket, !.login = NewChallenge(x, "enroll")]
             code == TicketOf(x)
  <2>1. f = Final(q, code, n, FALSE) /\ x.reset /\ x.ticket.id # 0
    BY <1>8 DEF Accepted
  <2>2. RedeemMeans(x, n, code)
    BY <2>1 DEF RedeemMeans, SameFactors, Opens, NewChallenge, TicketOf, Rows
  <2> HIDE DEF n, c, code
  <2>3. /\ f.stage = "final" /\ f.op = "redeem" /\ f.auth = x /\ f.next = n /\ f.code = code
        /\ f.revokes = FALSE /\ OnStep(f)
    BY <1>3, <1>8, <2>1 DEF ChallengeOps
  <2> QED BY <2>2, <2>3 DEF Meant, ChallengeOps, ManageOps, Revokers, Ops
<1>9. CASE q.op \notin {"verify", "confirm", "replace", "regenerate", "redeem"}
  BY <1>9 DEF Accepted
<1> QED BY <1>4, <1>5, <1>6, <1>7, <1>8, <1>9

LEMMA CountAndTestImplements ==
    ASSUME IInv, RInv, NEW r \in Request, CountAndTest(r) PROVE Stutters /\ RInv'
<1> DEFINE q == request[r]
           p == [q EXCEPT !.auth = row', !.next = row']
<1>1. /\ q.stage = "count" /\ Unchanged(q.auth) /\ row' = Stored(q)
      /\ (\E a \in Accepted(p) : Becomes(r, a)) \/ Becomes(r, Idle)
      /\ UNCHANGED <<clock, sessions, used>>
  BY DEF CountAndTest, Ends
<1>2. /\ q # Idle /\ q \in Requests /\ Prepared(q) /\ Stores(q) /\ row \in Rows /\ clock \in Nat
      /\ q.auth = row
  BY <1>1, SaverKnows DEF Stores
<1>3. Meant(q) /\ clock <= MaxClock /\ \A g \in row.codes : g[1] = "recovery"
  BY <1>2 DEF RInv, Unspent
<1>4. CASE Becomes(r, Idle)
  BY <1>1, <1>4, CountStutters
<1>5. ASSUME NEW a \in Accepted(p), Becomes(r, a) PROVE Stutters /\ RInv'
  <2>1. a.stage = "final" /\ Meant(a)
    <3> HIDE DEF q
    <3>1. /\ row' \in Rows /\ row'.codes = q.next.codes
          /\ row'.login = q.next.login /\ row'.manage = q.next.manage
      BY <1>1, <1>2, StoredFields
    <3>2. /\ row'.codes = row.codes /\ Abstract(row'.login) = Abstract(row.login)
          /\ Abstract(row'.manage) = Abstract(row.manage)
          /\ q.op \in ChallengeOps => OnStep(q)
      BY <1>1, <1>2, <1>3, <3>1 DEF Meant
    <3>3. p \in Requests /\ p.auth = row' /\ p.op = q.op /\ p.token = q.token
      BY <1>2, <3>1 DEF Requests
    <3> HIDE DEF p
    <3>4. q.op \in ChallengeOps => OnStep(p)
      BY <1>2, <3>2, <3>3 DEF OnStep, Challenge, InManage, Kinds, Abstract
    <3> QED BY <1>2, <1>3, <3>1, <3>2, <3>3, <3>4, AcceptedMeant
  <2> QED BY <1>1, <1>5, <2>1, CountStutters
<1> QED BY <1>1, <1>4, <1>5

LEMMA SaveActionImplements ==
    ASSUME IInv, RInv, NEW r \in Request, Save(r) PROVE Promise!Next /\ RInv'
<1> DEFINE q == request[r]
           n == [q EXCEPT !.stage = "session", !.auth = row', !.next = row']
<1>1. q.stage = "final" /\ Unchanged(q.auth) /\ used' = used \cup Spent(q)
      /\ clock' = clock /\ (Becomes(r, n) \/ Becomes(r, Idle))
  BY DEF Save, Ends
<1>2. q \in Requests
  BY <1>1, SaverKnows
<1>3. n.stage = "session"
  <2> HIDE DEF q
  <2> QED BY <1>2 DEF Requests
<1>4. Meant(n)
  <2> HIDE DEF n
  <2> QED BY <1>3 DEF Meant
<1> HIDE DEF n
<1>5. /\ \A p \in Request \ {r} : request'[p] = request[p]
      /\ request'[r] = n \/ request'[r] = Idle
  BY <1>1 DEF Becomes, IInv, TypeOK
<1>6. request'[r] # Idle => Meant(request[r])'
  BY <1>4, <1>5
<1>7. Promise!Next /\ Keeps /\ (Granting(r)' => Passed(request'[r].token) \in used' \ used)
  BY SaveImplements
<1>8. clock' <= MaxClock /\ used \subseteq used'
  BY <1>1 DEF RInv
<1> QED BY <1>5, <1>6, <1>7, <1>8, StepRelates

\* A session is issued for a sign-in that passed, unless the stamp is new.
LEMMA CreateSessionImplements ==
    ASSUME IInv, RInv, NEW r \in Request, CreateSession(r) PROVE (Promise!Next \/ Stutters) /\ RInv'
<1> DEFINE q == request[r]
           s == [id |-> q.token, stamp |-> q.auth.stamp, time |-> clock,
                 password |-> q.auth.password, secret |-> q.auth.secret]
<1>1. /\ q.stage = "session" /\ Becomes(r, Idle) /\ UNCHANGED <<row, clock, used>>
      /\ sessions' = IF row.stamp = q.auth.stamp THEN sessions \cup {s} ELSE sessions
  BY DEF CreateSession, Ends
<1>2. (\A p \in Request \ {r} : request'[p] = request[p]) /\ request'[r] = Idle
  BY <1>1 DEF Becomes, IInv, TypeOK
<1>3. s.id = q.token /\ s.stamp = q.auth.stamp
  OBVIOUS
<1>4. ~Granting(r)' /\ Granting(r)
  BY <1>1, <1>2 DEF Granting, Idle
<1>5. RInv'
  <2>1. Keeps /\ clock' <= MaxClock
    BY <1>1 DEF Keeps, RInv, Unspent, Bounded, OpenStep, Number
  <2> QED BY <1>1, <1>2, <1>4, <2>1, StepRelates
<1>6. \A p \in Request \ {r} : Granting(p) => request[p].token # q.token
  BY <1>4 DEF RInv
<1>7. ASSUME NEW t PROVE t \in Granted' <=> t \in Granted /\ (row.stamp = q.auth.stamp => t # q.token)
  BY <1>1, <1>2, <1>4, <1>6 DEF Granted, Granting
<1> HIDE DEF s
<1>8. CASE row.stamp = q.auth.stamp
  <2>1. q.token \in Granted
    BY <1>1, <1>8 DEF Granted
  <2>2. \A t : t \in Granted' <=> t \in Granted \ {q.token}
    BY <1>7, <1>8
  <2>3. Granted' = Granted \ {q.token}
    BY <2>2
  <2>4. Live' = Live \cup {q.token}
    BY <1>1, <1>3, <1>8 DEF Live
  <2>5. Promise!IssueSession
    BY <1>1, <2>1, <2>3, <2>4 DEF Promise!IssueSession, Abstract
  <2> QED BY <1>5, <2>5 DEF Promise!Next
<1>9. CASE row.stamp # q.auth.stamp
  <2>1. \A t : t \in Granted' <=> t \in Granted
    BY <1>7, <1>9
  <2>2. Granted' = Granted /\ Live' = Live
    BY <1>1, <1>9, <2>1 DEF Live
  <2> QED BY <1>1, <1>5, <2>2 DEF Stutters, Stuttered, Abstract
<1> QED BY <1>8, <1>9

-----------------------------------------------------------------------------

LEMMA InitRelates == Init => Promise!Init /\ RInv
<1> SUFFICES ASSUME Init PROVE Promise!Init /\ RInv
  OBVIOUS
<1>1. PICK p \in Password : row \in {NewRow(p), EnrolledRow(p), ResetRow(p)}
  BY DEF Init
<1>2. row \in Rows
  BY NewRowTyped DEF Init
<1>3. /\ row.login = NoChallenge /\ row.manage = NoChallenge /\ row.rev \in {0, 1} /\ row.stamp = 1
      /\ row.secret \in {0, 1} /\ row.last \in {-1, 0} /\ row.ticket.id \in {0, 1}
      /\ row.codes = {} \/ row.codes = RecoveryCodes(1)
  <2>1. CASE row = NewRow(p)
    BY <2>1 DEF NewRow, NoTicket
  <2>2. CASE row = EnrolledRow(p)
    BY <2>2 DEF EnrolledRow, NewRow, NoTicket
  <2>3. CASE row = ResetRow(p)
    BY <2>3 DEF ResetRow, NewRow
  <2> QED BY <1>1, <2>1, <2>2, <2>3
<1>4. Number(row) = 1
  BY <1>3 DEF Number, Later
<1>5. \A f \in row.codes : f[1] = "recovery" /\ f[2] = 1
  BY <1>3 DEF RecoveryCodes
<1>6. row.codes \subseteq {"recovery"} \X Nat \X Nat
  BY <1>3, ConstantTypes DEF RecoveryCodes
<1>7. used = {} /\ sessions = {} /\ clock = 0 /\ \A r \in Request : request[r] = Idle
  BY DEF Init
<1>8. Granted = {} /\ Live = {}
  BY <1>7 DEF Granted, Live, Idle
<1>9. OpenStep(row, row.login, used) /\ OpenStep(row, row.manage, used)
  BY <1>2, <1>3, NoneOpen
<1>10. Unspent(row, used)
  BY <1>3, <1>4, <1>5, <1>7, <1>9 DEF Unspent, NoChallenge
<1>11. RInv
  <2>1. \A r \in Request : ~Granting(r)
    BY <1>7 DEF Granting, Idle
  <2>2. clock <= MaxClock
    BY <1>7, ConstantsAssumption
  <2> QED BY <1>7, <1>10, <2>1, <2>2 DEF RInv, Bounded
<1>12. Abstract(row.login) = Promise!NoChallenge /\ Abstract(row.manage) = Promise!NoChallenge
  BY <1>3 DEF Abstract, NoChallenge, Promise!NoChallenge
<1> QED BY <1>2, <1>6, <1>7, <1>8, <1>11, <1>12 DEF Promise!Init, Rows

LEMMA NextImplements == ASSUME IInv, RInv, Next PROVE (Promise!Next \/ Stutters) /\ RInv'
<1>1. CASE Tick
  <2>1. clock' <= MaxClock /\ UNCHANGED <<row, request, sessions, used>>
    <3>1. clock \in Nat /\ MaxClock \in Nat
      BY ConstantsAssumption DEF IInv, TypeOK
    <3> QED BY <1>1, <3>1 DEF Tick
  <2>2. Stutters
    BY <2>1 DEF Stutters, Stuttered, Abstract, Granted, Live
  <2> QED BY <2>1, <2>2 DEF RInv, Unspent, Bounded, OpenStep, Number, Granting
<1> QED BY <1>1, BeginImplements, StartEnrollmentImplements, StartChangeImplements,
           CountSignInImplements, CountAndTestImplements, RetryImplements, ConflictImplements,
           AuthenticateImplements, CompleteLoginImplements, SaveActionImplements,
           CreateSessionImplements DEF Next

\* Every request that races with others behaves as if its operation happened
\* at once on the credentials there are: what it uses up was not used before,
\* and what it changes ends every session, for any number of requests.
THEOREM ImplementsPromise == Spec => ImplementsCredentials
<1>1. Init => Promise!Init /\ RInv
  BY InitRelates
<1>2. IInv /\ RInv /\ [Next]_vars => [Promise!Next]_Stuttered /\ RInv'
  <2> SUFFICES ASSUME IInv, RInv, [Next]_vars PROVE [Promise!Next]_Stuttered /\ RInv'
    OBVIOUS
  <2>1. CASE UNCHANGED vars
    BY <2>1 DEF vars, Stuttered, Abstract, Granted, Live, RInv, Unspent, Bounded, OpenStep, Number, Granting
  <2>2. CASE Next
    BY <2>2, NextImplements DEF Stutters
  <2> QED BY <2>1, <2>2
<1> QED BY <1>1, <1>2, Invariance, PTL DEF Spec, ImplementsCredentials, Promise!Spec, Promise!vars, Stuttered

-----------------------------------------------------------------------------
(* No more codes are compared than the limits allow.  The counters of a    *)
(* row bound the comparisons: a request that is about to compare a code    *)
(* has added to both counters of the row that it saves.                    *)

Of(id) == {t \in tested : t[1] = id}
In(w) == {t \in tested : t[2] = w}
Window(a) == a.limits["factor"]

\* The steps of a sign-in and of a replacement are not mistaken for each other.
Apart(a) == a.login.id = a.manage.id => a.login.id = 0

\* A step with the same counter, with one attempt more, or another one.
Kept(c, d) == c.id = d.id /\ c.attempts = d.attempts
Raised(c, d) == c.id = d.id /\ c.attempts = d.attempts + 1 /\ c.attempts <= MaxAttempts
Turned(c, d, n) == Kept(c, d) \/ c.id = 0 \/ (c.id = n /\ c.attempts = 0)

\* What a save does to the counters.
CountsNone(q) ==
    /\ Window(q.next) = Window(q.auth)
    /\ Turned(q.next.login, q.auth.login, Fresh(q.auth))
    /\ Turned(q.next.manage, q.auth.manage, Fresh(q.auth))
    /\ Apart(q.next)
CountsLimit(l, k) ==
    /\ l.count <= MaxLimit
    /\ \/ l.expires = k.expires /\ l.count = k.count + 1
       \/ l.expires > k.expires /\ l.count = 1
CountsStep(q) ==
    \/ q.token = 0 /\ Kept(q.next.login, q.auth.login) /\ Kept(q.next.manage, q.auth.manage)
    \/ /\ q.token = q.auth.login.id
       /\ Raised(q.next.login, q.auth.login) /\ Kept(q.next.manage, q.auth.manage)
    \/ /\ q.token = q.auth.manage.id
       /\ Raised(q.next.manage, q.auth.manage) /\ Kept(q.next.login, q.auth.login)

Counting(q) ==
    /\ q.stage = "count" /\ q.op \notin ChallengeOps => q.token = 0
    /\ q.stage = "count" /\ q.op # "signin" =>
         CountsLimit(Window(q.next), Window(q.auth)) /\ CountsStep(q)
    /\ q.stage = "count" /\ q.op = "signin" =>
         /\ Window(q.next) = Window(q.auth)
         /\ Kept(q.next.login, q.auth.login) /\ Kept(q.next.manage, q.auth.manage)
    /\ q.stage = "final" => CountsNone(q)

Guesses ==
    /\ IsFiniteSet(tested)
    /\ row.login.id <= Number(row) /\ row.manage.id <= Number(row) /\ Apart(row)
    /\ \A t \in tested : t[1] <= Number(row) /\ t[2] <= Window(row).expires
    /\ \A id \in Nat \ {0} : Cardinality(Of(id)) <= MaxAttempts
    /\ row.login.id # 0 => Cardinality(Of(row.login.id)) <= row.login.attempts
    /\ row.manage.id # 0 => Cardinality(Of(row.manage.id)) <= row.manage.attempts
    /\ \A w \in Nat : Cardinality(In(w)) <= MaxLimit
    /\ Cardinality(In(Window(row).expires)) <= Window(row).count

GInv == IInv /\ Guesses /\ \A r \in Request : request[r] # Idle => Counting(request[r])

LEMMA RowCounters ==
    ASSUME NEW a \in Rows
    PROVE  /\ a.login \in Challenges /\ a.manage \in Challenges
           /\ a.login.id \in Nat /\ a.login.attempts \in Nat
           /\ a.manage.id \in Nat /\ a.manage.attempts \in Nat
           /\ Window(a) \in [count: Nat, expires: Nat]
           /\ Window(a).count \in Nat /\ Window(a).expires \in Nat
<1>1. /\ a.login \in Challenges /\ a.manage \in Challenges
      /\ a.limits \in [{"password", "factor"} -> [count: Nat, expires: Nat]]
  BY DEF Rows
<1>2. Window(a) \in [count: Nat, expires: Nat]
  BY <1>1 DEF Window
<1> QED BY <1>1, <1>2 DEF Challenges

LEMMA OneMore ==
    ASSUME NEW S, IsFiniteSet(S), NEW x, NEW T, T \subseteq S \cup {x}
    PROVE  /\ IsFiniteSet(T) /\ Cardinality(T) \in Nat /\ Cardinality(S) \in Nat
           /\ Cardinality(T) <= Cardinality(S) + 1
<1>1. IsFiniteSet(S \cup {x}) /\ Cardinality(S \cup {x}) <= Cardinality(S) + 1
  <2>1. Cardinality(S) \in Nat
    BY FS_CardinalityType
  <2>2. /\ IsFiniteSet(S \cup {x})
        /\ Cardinality(S \cup {x}) = Cardinality(S) \/ Cardinality(S \cup {x}) = Cardinality(S) + 1
    BY FS_AddElement
  <2> QED BY <2>1, <2>2
<1>2. IsFiniteSet(T) /\ Cardinality(T) <= Cardinality(S \cup {x})
  BY <1>1, FS_Subset
<1>3. Cardinality(T) \in Nat /\ Cardinality(S) \in Nat /\ Cardinality(S \cup {x}) \in Nat
  BY <1>1, <1>2, FS_CardinalityType
<1> QED BY <1>1, <1>2, <1>3

LEMMA PartsFinite ==
    ASSUME IsFiniteSet(tested), NEW n
    PROVE  /\ IsFiniteSet(Of(n)) /\ Cardinality(Of(n)) \in Nat
           /\ IsFiniteSet(In(n)) /\ Cardinality(In(n)) \in Nat
<1>1. Of(n) \in SUBSET tested /\ In(n) \in SUBSET tested
  BY DEF Of, In
<1>2. IsFiniteSet(Of(n)) /\ IsFiniteSet(In(n))
  BY <1>1, FS_Subset
<1> QED BY <1>2, FS_CardinalityType

\* Counting raises the counters it checked.
LEMMA CountedCounts ==
    ASSUME row \in Rows, clock \in Nat, NEW q \in Requests, MayCount(row, q),
           q.op \notin ChallengeOps => q.token = 0,
           NEW n \in Requests, n.stage = "count", n.auth = row, n.op = q.op, n.token = q.token,
           n.next = Counted(row, q)
    PROVE  Counting(n)
<1> DEFINE k == LimitKind(q)
           limit == LimitOf(row, k)
           counted == [limit EXCEPT !.count = @ + 1]
           b == [row EXCEPT !.limits[k] = counted]
           c == Challenge(row, q)
           d == [c EXCEPT !.attempts = @ + 1]
<1>1. k \in {"password", "factor"} /\ (k = "factor" <=> q.op # "signin")
  BY DEF LimitKind
<1>2. limit \in [count: Nat, expires: Nat] /\ limit.count < MaxLimit
  BY <1>1, ConstantTypes DEF LimitOf, Rows, MayCount
<1>3. counted \in [count: Nat, expires: Nat] /\ counted.count = limit.count + 1
      /\ counted.expires = limit.expires
  BY <1>2
<1>4. k = "factor" => CountsLimit(counted, Window(row))
  <2>1. MaxLimit \in Nat /\ LimitTicks \in Nat /\ LimitTicks > 0
    BY ConstantsAssumption
  <2>2. Window(row).count \in Nat /\ Window(row).expires \in Nat
    BY RowCounters
  <2>3. counted.count <= MaxLimit
    <3> HIDE DEF limit
    <3> QED BY <1>2, <1>3, <2>1
  <2>4. k = "factor" => limit = IF Window(row).expires <= clock
                                  THEN [count |-> 0, expires |-> clock + LimitTicks] ELSE Window(row)
    BY DEF LimitOf, Window
  <2> HIDE DEF limit, counted, k
  <2>5. ASSUME k = "factor", Window(row).expires <= clock
        PROVE  counted.expires > Window(row).expires /\ counted.count = 1
    <3>1. limit.count = 0 /\ limit.expires = clock + LimitTicks
      BY <2>4, <2>5
    <3> QED BY <1>3, <2>1, <2>2, <2>5, <3>1
  <2>6. ASSUME k = "factor", ~(Window(row).expires <= clock)
        PROVE  counted.expires = Window(row).expires /\ counted.count = Window(row).count + 1
    BY <1>3, <2>4, <2>6
  <2> QED BY <2>3, <2>5, <2>6 DEF CountsLimit
<1>5. /\ b.login = row.login /\ b.manage = row.manage /\ DOMAIN b = DOMAIN row
      /\ k = "factor" => Window(b) = counted
      /\ k # "factor" => Window(b) = Window(row)
  <2> HIDE DEF counted, k
  <2> QED BY <1>1 DEF Rows, Window
<1>6. n.next = IF q.op \in ChallengeOps THEN WithChallenge(b, q, d) ELSE b
  BY DEF Counted
<1>7. InManage(b, q) <=> InManage(row, q)
  BY <1>5 DEF InManage
<1>8. q.op \in ChallengeOps => /\ c.id = q.token /\ c.attempts < MaxAttempts
  BY DEF MayCount, Open
<1>9. c \in Challenges /\ c.attempts \in Nat /\ MaxAttempts \in Nat
  <2>1. c \in Challenges
    BY DEF Challenge, Rows
  <2> QED BY <2>1, ConstantsAssumption DEF Challenges
<1>10. d.id = c.id /\ d.attempts = c.attempts + 1
  BY <1>9 DEF Challenges
<1>11. q.op \in ChallengeOps => Raised(d, c)
  <2> HIDE DEF c, d
  <2> QED BY <1>8, <1>9, <1>10 DEF Raised
<1> HIDE DEF b, d, c, limit, counted
<1>12. "login" \in DOMAIN b /\ "manage" \in DOMAIN b
  BY <1>5 DEF Rows
<1>13. /\ Window(n.next) = Window(b)
       /\ q.op \notin ChallengeOps => Kept(n.next.login, row.login) /\ Kept(n.next.manage, row.manage)
       /\ q.op \in ChallengeOps => CountsStep(n)
  <2>1. CASE q.op \in ChallengeOps /\ InManage(row, q)
    <3>1. n.next = [b EXCEPT !.manage = d] /\ c = row.manage
      BY <1>6, <1>7, <2>1 DEF WithChallenge, c, Challenge
    <3>2. n.next.manage = d /\ n.next.login = row.login /\ Window(n.next) = Window(b)
      BY <1>5, <1>12, <3>1 DEF Window
    <3> QED BY <1>8, <1>11, <2>1, <3>1, <3>2 DEF CountsStep, Kept
  <2>2. CASE q.op \in ChallengeOps /\ ~InManage(row, q)
    <3>1. n.next = [b EXCEPT !.login = d] /\ c = row.login
      BY <1>6, <1>7, <2>2 DEF WithChallenge, c, Challenge
    <3>2. n.next.login = d /\ n.next.manage = row.manage /\ Window(n.next) = Window(b)
      BY <1>5, <1>12, <3>1 DEF Window
    <3> QED BY <1>8, <1>11, <2>2, <3>1, <3>2 DEF CountsStep, Kept
  <2>3. CASE q.op \notin ChallengeOps
    <3>1. n.next = b
      BY <1>6, <2>3
    <3> QED BY <1>5, <2>3, <3>1 DEF Kept
  <2> QED BY <2>1, <2>2, <2>3
<1>14. q.op = "signin" => q.op \notin ChallengeOps
  BY DEF ChallengeOps
<1>15. q.op \notin ChallengeOps => CountsStep(n)
  BY <1>13 DEF CountsStep
<1> HIDE DEF k
<1> QED BY <1>1, <1>4, <1>5, <1>13, <1>14, <1>15 DEF Counting


-----------------------------------------------------------------------------
(* Saves and the counters. *)

LEMMA WindowStored ==
    ASSUME NEW q \in Requests
    PROVE  Window(Stored(q)) = Window(q.next)
<1> DEFINE n == q.next
           f == IF q.op = "revoke" /\ q.auth.rev = 0 THEN 0 ELSE Fresh(q.auth)
           s == IF q.stage = "final" /\ q.revokes THEN Fresh(q.auth) ELSE n.stamp
<1>1. n \in Rows
  BY DEF Requests
<1>2. Stored(q) = [n EXCEPT !.rev = f, !.stamp = s]
  BY <1>1 DEF Stored, Rows
<1> HIDE DEF n, f, s
<1>3. [n EXCEPT !.rev = f, !.stamp = s].limits = n.limits
  BY <1>1 DEF Rows
<1> QED BY <1>2, <1>3 DEF Window, n

\* A step that was turned has been asked no more codes than it counts.
LEMMA TurnedCounts ==
    ASSUME row \in Rows, tested \subseteq Nat \X Nat \X Nat, Guesses, NEW c \in Challenges, NEW d \in Challenges,
           Turned(c, d, Number(row) + 1), d.id <= Number(row),
           d.id # 0 => Cardinality(Of(d.id)) <= d.attempts
    PROVE  /\ c.id <= Number(row) + 1
           /\ c.id # 0 => Cardinality(Of(c.id)) <= c.attempts
<1>1. Number(row) \in Nat
  BY NumberTyped
<1>2. c.id \in Nat /\ d.id \in Nat
  BY DEF Challenges
<1>3. CASE Kept(c, d)
  BY <1>1, <1>2, <1>3 DEF Kept
<1>4. CASE c.id = 0
  BY <1>1, <1>4
<1>5. CASE c.id = Number(row) + 1 /\ c.attempts = 0
  <2>1. \A t \in tested : t[1] \in Nat /\ t[1] <= Number(row)
    BY DEF Guesses
  <2>2. Of(c.id) = {}
    BY <1>1, <1>5, <2>1 DEF Of
  <2>3. Cardinality(Of(c.id)) = 0
    BY <2>2, FS_EmptySet
  <2> QED BY <1>1, <1>5, <2>3
<1> QED BY <1>3, <1>4, <1>5 DEF Turned

\* A save that compares nothing.
LEMMA SaveCountsNone ==
    ASSUME row \in Rows, tested \subseteq Nat \X Nat \X Nat, Guesses,
           NEW q \in Requests, Stores(q), Prepared(q), CountsNone(q),
           row' = Stored(q), tested' = tested
    PROVE  Guesses'
<1> DEFINE N == Number(row)
<1>1. /\ row' \in Rows /\ Number(row') = N + 1 /\ N \in Nat
      /\ row'.login = q.next.login /\ row'.manage = q.next.manage
  BY StoredFields, NumberTyped
<1>2. Fresh(q.auth) = N + 1 /\ q.auth = row
  BY NumberTyped DEF Stores
<1>3. Window(row') = Window(row)
  BY <1>2, WindowStored DEF CountsNone
<1>4. row.login \in Challenges /\ row.manage \in Challenges /\ row'.login \in Challenges /\ row'.manage \in Challenges
  BY <1>1, RowCounters
<1>5. Turned(row'.login, row.login, N + 1) /\ Turned(row'.manage, row.manage, N + 1) /\ Apart(row')
  BY <1>1, <1>2 DEF CountsNone, Apart
<1>6. /\ row'.login.id <= N + 1
      /\ row'.login.id # 0 => Cardinality(Of(row'.login.id)) <= row'.login.attempts
  BY <1>4, <1>5, TurnedCounts DEF Guesses
<1>7. /\ row'.manage.id <= N + 1
      /\ row'.manage.id # 0 => Cardinality(Of(row'.manage.id)) <= row'.manage.attempts
  BY <1>4, <1>5, TurnedCounts DEF Guesses
<1>8. \A t \in tested : t[1] <= N + 1 /\ t[2] <= Window(row').expires
  <2> SUFFICES ASSUME NEW t \in tested PROVE t[1] <= N + 1 /\ t[2] <= Window(row').expires
    OBVIOUS
  <2>1. t[1] \in Nat /\ t[1] <= N /\ t[2] <= Window(row).expires
    BY DEF Guesses
  <2> QED BY <1>1, <1>3, <2>1
<1>9. \A n : Of(n)' = Of(n) /\ In(n)' = In(n)
  BY DEF Of, In
<1> HIDE DEF N
<1>10. Apart(row)'
  BY <1>5 DEF Apart
<1>11. Window(row)' = Window(row)
  BY <1>3 DEF Window
<1>12. Number(row)' = N + 1
  BY <1>1 DEF Number
<1>13. /\ row'.login.id # 0 => Cardinality(Of(row.login.id)') <= row'.login.attempts
       /\ row'.manage.id # 0 => Cardinality(Of(row.manage.id)') <= row'.manage.attempts
  BY <1>6, <1>7 DEF Of
<1>14. /\ \A id \in Nat \ {0} : Cardinality(Of(id)') <= MaxAttempts
       /\ \A w \in Nat : Cardinality(In(w)') <= MaxLimit
  BY <1>9 DEF Guesses
<1>15. Cardinality(In(Window(row).expires)') <= Window(row)'.count
  BY <1>11 DEF Guesses, In
<1>16. IsFiniteSet(tested')
  BY DEF Guesses
<1>17. \A t \in tested' : t[1] <= Number(row)' /\ t[2] <= Window(row)'.expires
  BY <1>3, <1>8, <1>11, <1>12
<1> QED BY <1>6, <1>7, <1>10, <1>12, <1>13, <1>14, <1>15, <1>16, <1>17 DEF Guesses

\* One comparison adds to the counter of its step, and to no other.
LEMMA ComparedOnce ==
    ASSUME IsFiniteSet(tested), NEW x, tested' = tested \cup {x}
    PROVE  /\ IsFiniteSet(tested')
           /\ \A n : n # x[1] => Of(n)' = Of(n)
           /\ \A n : n # x[2] => In(n)' = In(n)
           /\ \A n : /\ Cardinality(Of(n)') <= Cardinality(Of(n)) + 1
                     /\ Cardinality(In(n)') <= Cardinality(In(n)) + 1
<1>1. IsFiniteSet(tested')
  BY FS_AddElement
<1>2. ASSUME NEW n PROVE /\ n # x[1] => Of(n)' = Of(n)
                         /\ n # x[2] => In(n)' = In(n)
  BY DEF Of, In
<1>3. ASSUME NEW n
      PROVE  /\ Cardinality(Of(n)') <= Cardinality(Of(n)) + 1
             /\ Cardinality(In(n)') <= Cardinality(In(n)) + 1
  <2>1. Of(n)' \subseteq Of(n) \cup {x} /\ In(n)' \subseteq In(n) \cup {x}
    BY DEF Of, In
  <2>2. IsFiniteSet(Of(n)) /\ IsFiniteSet(In(n))
    BY PartsFinite
  <2> HIDE DEF Of, In
  <2>3. Cardinality(Of(n)') <= Cardinality(Of(n)) + 1
    BY <2>1, <2>2, OneMore
  <2>4. Cardinality(In(n)') <= Cardinality(In(n)) + 1
    BY <2>1, <2>2, OneMore
  <2> QED BY <2>3, <2>4
<1> QED BY <1>1, <1>2, <1>3

\* The window a comparison falls into has counted it.
LEMMA WindowCounts ==
    ASSUME row \in Rows, tested \subseteq Nat \X Nat \X Nat, Guesses, NEW l \in [count: Nat, expires: Nat],
           CountsLimit(l, Window(row)),
           NEW x, x[2] = l.expires, tested' = tested \cup {x}
    PROVE  /\ \A w \in Nat : Cardinality(In(w)') <= MaxLimit
           /\ Cardinality(In(l.expires)') <= l.count
           /\ Window(row).expires <= l.expires
<1> DEFINE k == Window(row)
<1>1. k.count \in Nat /\ k.expires \in Nat
  BY RowCounters
<1>2. l.count \in Nat /\ l.expires \in Nat /\ MaxLimit \in Nat
  BY ConstantsAssumption
<1>3. k.expires <= l.expires
  BY <1>1, <1>2 DEF CountsLimit
<1>4. IsFiniteSet(tested)
  BY DEF Guesses
<1> DEFINE before == Cardinality(In(l.expires))
           after == Cardinality(In(l.expires)')
<1>5. after <= before + 1 /\ before \in Nat
  BY <1>4, ComparedOnce, PartsFinite
<1>6. after \in Nat
  <2>1. IsFiniteSet(tested')
    BY <1>4, ComparedOnce
  <2>2. In(l.expires)' \in SUBSET tested'
    BY DEF In
  <2> QED BY <2>1, <2>2, FS_Subset, FS_CardinalityType
<1>7. after <= l.count
  <2>1. CASE l.expires = k.expires /\ l.count = k.count + 1
    <3>1. before <= k.count
      BY <2>1 DEF Guesses
    <3> HIDE DEF before, after
    <3> QED BY <1>1, <1>2, <1>5, <1>6, <2>1, <3>1
  <2>2. CASE l.expires > k.expires /\ l.count = 1
    <3>1. \A t \in tested : t[2] \in Nat /\ t[2] <= k.expires
      BY DEF Guesses
    <3>2. In(l.expires) = {}
      <4> HIDE DEF k
      <4> QED BY <1>1, <1>2, <2>2, <3>1 DEF In
    <3>3. before = 0
      BY <3>2, FS_EmptySet
    <3> HIDE DEF before, after
    <3> QED BY <1>5, <1>6, <2>2, <3>3
  <2> QED BY <2>1, <2>2 DEF CountsLimit
<1>8. l.count <= MaxLimit
  BY DEF CountsLimit
<1>9. ASSUME NEW w \in Nat PROVE Cardinality(In(w)') <= MaxLimit
  <2>1. CASE w = l.expires
    <3> HIDE DEF before
    <3>1. Cardinality(In(w)') = after
      BY <2>1
    <3> HIDE DEF after
    <3> QED BY <1>2, <1>6, <1>7, <1>8, <3>1
  <2>2. CASE w # l.expires
    <3>1. In(w)' = In(w)
      BY <1>4, <2>2, ComparedOnce
    <3> QED BY <3>1 DEF Guesses
  <2> QED BY <2>1, <2>2
<1> QED BY <1>3, <1>7, <1>9

\* The step a code was typed for has counted the comparison.
LEMMA StepCounts ==
    ASSUME row \in Rows, Guesses, NEW c \in Challenges, NEW d \in Challenges, d.id # 0,
           Cardinality(Of(d.id)) <= d.attempts, Raised(c, d), NEW x, tested' = tested \cup {x}
    PROVE  Cardinality(Of(c.id)') <= c.attempts /\ Cardinality(Of(d.id)') <= MaxAttempts
<1>1. c.id = d.id /\ c.attempts = d.attempts + 1 /\ c.attempts <= MaxAttempts
  BY DEF Raised
<1>2. d.attempts \in Nat /\ c.attempts \in Nat /\ MaxAttempts \in Nat
  BY ConstantsAssumption DEF Challenges
<1>3. IsFiniteSet(tested)
  BY DEF Guesses
<1> DEFINE before == Cardinality(Of(d.id))
           after == Cardinality(Of(d.id)')
<1>4. after <= before + 1 /\ before \in Nat
  BY <1>3, ComparedOnce, PartsFinite
<1>5. after \in Nat
  <2>1. IsFiniteSet(tested')
    BY <1>3, ComparedOnce
  <2>2. Of(d.id)' \in SUBSET tested'
    BY DEF Of
  <2> QED BY <2>1, <2>2, FS_Subset, FS_CardinalityType
<1>6. before <= d.attempts
  OBVIOUS
<1>7. Cardinality(Of(c.id)') = after
  BY <1>1
<1> HIDE DEF before
<1>8. after = Cardinality(Of(d.id)')
  OBVIOUS
<1> HIDE DEF after
<1> QED BY <1>1, <1>2, <1>4, <1>5, <1>6, <1>7, <1>8

\* A save after which a code is compared.
LEMMA SaveCountsOne ==
    ASSUME row \in Rows, tested \subseteq Nat \X Nat \X Nat, Guesses,
           NEW q \in Requests, Stores(q), Prepared(q),
           CountsLimit(Window(q.next), Window(q.auth)), CountsStep(q),
           row' = Stored(q), tested' = tested \cup {<<q.token, row'.limits["factor"].expires, row'.rev>>}
    PROVE  Guesses'
<1>1. /\ row' \in Rows /\ Number(row') = Number(row) + 1 /\ Number(row) \in Nat
      /\ row'.login = q.next.login /\ row'.manage = q.next.manage /\ q.auth = row
  BY StoredFields, NumberTyped DEF Stores
<1>2. PICK l : l = Window(row')
  OBVIOUS
<1>3. PICK x : x = <<q.token, row'.limits["factor"].expires, row'.rev>>
  OBVIOUS
<1>4. PICK a : a = row
  OBVIOUS
<1>5. PICK b : b = row'
  OBVIOUS
<1>6. x[1] = q.token /\ x[2] = l.expires /\ tested' = tested \cup {x}
  BY <1>2, <1>3 DEF Window
<1>7. a \in Rows /\ b \in Rows /\ l \in [count: Nat, expires: Nat] /\ l = Window(q.next)
  <2>1. Window(row') \in [count: Nat, expires: Nat]
    BY <1>1, RowCounters
  <2> QED BY <1>1, <1>2, <1>4, <1>5, <2>1, WindowStored
<1>8. a.login \in Challenges /\ a.manage \in Challenges /\ b.login \in Challenges /\ b.manage \in Challenges
  BY <1>7, RowCounters
<1>9. CountsLimit(l, Window(row))
  BY <1>1, <1>7
<1>10. IsFiniteSet(tested)
  BY DEF Guesses
<1>11. /\ \A w \in Nat : Cardinality(In(w)') <= MaxLimit
       /\ Cardinality(In(l.expires)') <= l.count
       /\ Window(row).expires <= l.expires
  BY <1>6, <1>7, <1>9, WindowCounts
<1>12. /\ IsFiniteSet(tested')
       /\ \A n : n # q.token => Of(n)' = Of(n)
  BY <1>6, <1>10, ComparedOnce
<1>13. \/ q.token = 0 /\ Kept(b.login, a.login) /\ Kept(b.manage, a.manage)
       \/ q.token = a.login.id /\ Raised(b.login, a.login) /\ Kept(b.manage, a.manage)
       \/ q.token = a.manage.id /\ Raised(b.manage, a.manage) /\ Kept(b.login, a.login)
  BY <1>1, <1>4, <1>5 DEF CountsStep
<1>14. b.login.id = a.login.id /\ b.manage.id = a.manage.id
  BY <1>13 DEF Kept, Raised
<1>15. /\ a.login.id # 0 => Cardinality(Of(a.login.id)) <= a.login.attempts
       /\ a.manage.id # 0 => Cardinality(Of(a.manage.id)) <= a.manage.attempts
       /\ a.login.id <= Number(row) /\ a.manage.id <= Number(row) /\ Apart(a)
       /\ \A id \in Nat \ {0} : Cardinality(Of(id)) <= MaxAttempts
  BY <1>4 DEF Guesses
<1>16. Apart(b)
  BY <1>14, <1>15 DEF Apart
<1>17. /\ \A id \in Nat \ {0} : Cardinality(Of(id)') <= MaxAttempts
       /\ b.login.id # 0 => Cardinality(Of(b.login.id)') <= b.login.attempts
       /\ b.manage.id # 0 => Cardinality(Of(b.manage.id)') <= b.manage.attempts
       /\ q.token <= Number(row)
  <2>1. CASE q.token = 0 /\ Kept(b.login, a.login) /\ Kept(b.manage, a.manage)
    <3>1. \A n : n # 0 => Of(n)' = Of(n)
      BY <1>12, <2>1
    <3> HIDE DEF Of
    <3> QED BY <1>1, <1>14, <1>15, <2>1, <3>1 DEF Kept
  <2>2. ASSUME NEW c \in Challenges, NEW d \in Challenges, NEW e \in Challenges, NEW f \in Challenges,
               q.token = d.id, Raised(c, d), Kept(e, f), f.id = d.id => f.id = 0,
               d.id # 0 => Cardinality(Of(d.id)) <= d.attempts,
               f.id # 0 => Cardinality(Of(f.id)) <= f.attempts
        PROVE  /\ \A id \in Nat \ {0} : Cardinality(Of(id)') <= MaxAttempts
               /\ c.id # 0 => Cardinality(Of(c.id)') <= c.attempts
               /\ e.id # 0 => Cardinality(Of(e.id)') <= e.attempts
    <3>1. d.id # 0 => Cardinality(Of(c.id)') <= c.attempts /\ Cardinality(Of(d.id)') <= MaxAttempts
      BY <1>6, <2>2, StepCounts
    <3>2. c.id = d.id /\ e.id = f.id /\ e.attempts = f.attempts
      BY <2>2 DEF Kept, Raised
    <3>3. \A n : n # d.id => Of(n)' = Of(n)
      BY <1>12, <2>2
    <3> HIDE DEF Of
    <3>4. ASSUME NEW id \in Nat \ {0} PROVE Cardinality(Of(id)') <= MaxAttempts
      <4>1. CASE id = d.id
        BY <3>1, <4>1
      <4>2. CASE id # d.id
        BY <1>15, <3>3, <4>2
      <4> QED BY <4>1, <4>2
    <3>5. e.id # 0 => Cardinality(Of(e.id)') <= e.attempts
      BY <2>2, <3>2, <3>3
    <3>6. c.id # 0 => Cardinality(Of(c.id)') <= c.attempts
      BY <3>1, <3>2
    <3> QED BY <3>4, <3>5, <3>6
  <2>3. CASE q.token = a.login.id /\ Raised(b.login, a.login) /\ Kept(b.manage, a.manage)
    <3>1. a.manage.id = a.login.id => a.manage.id = 0
      BY <1>15 DEF Apart
    <3> QED BY <1>8, <1>15, <2>2, <2>3, <3>1
  <2>4. CASE q.token = a.manage.id /\ Raised(b.manage, a.manage) /\ Kept(b.login, a.login)
    <3>1. a.login.id = a.manage.id => a.login.id = 0
      BY <1>15 DEF Apart
    <3> QED BY <1>8, <1>15, <2>2, <2>4, <3>1
  <2> QED BY <1>13, <2>1, <2>3, <2>4
<1>18. Number(row)' = Number(row) + 1 /\ Window(row)' = l
  BY <1>1, <1>2 DEF Number, Window
<1>19. \A t \in tested' : t[1] <= Number(row)' /\ t[2] <= Window(row)'.expires
  <2> SUFFICES ASSUME NEW t \in tested' PROVE t[1] <= Number(row)' /\ t[2] <= Window(row)'.expires
    OBVIOUS
  <2>1. CASE t = x
    <3>1. t[1] = q.token /\ t[2] = l.expires /\ q.token \in Nat /\ l.expires \in Nat
      BY <1>6, <1>7, <2>1 DEF Requests
    <3> QED BY <1>1, <1>17, <1>18, <3>1
  <2>2. CASE t \in tested
    <3>1. t[1] \in Nat /\ t[2] \in Nat /\ t[1] <= Number(row) /\ t[2] <= Window(row).expires
      BY <2>2 DEF Guesses
    <3>2. Window(row).expires \in Nat /\ l.expires \in Nat
      BY <1>7, RowCounters
    <3> QED BY <1>1, <1>11, <1>18, <3>1, <3>2
  <2> QED BY <1>6, <2>1, <2>2
<1>20. row'.login.id <= Number(row)' /\ row'.manage.id <= Number(row)'
  <2>1. b.login.id \in Nat /\ b.manage.id \in Nat
    BY <1>7, RowCounters
  <2> QED BY <1>1, <1>5, <1>14, <1>15, <1>18, <2>1
<1>21. Apart(row)'
  BY <1>5, <1>16 DEF Apart
<1>22. /\ row'.login.id # 0 => Cardinality(Of(row.login.id)') <= row'.login.attempts
       /\ row'.manage.id # 0 => Cardinality(Of(row.manage.id)') <= row'.manage.attempts
  BY <1>5, <1>17 DEF Of
<1>23. Cardinality(In(Window(row).expires)') <= Window(row)'.count
  BY <1>11, <1>18 DEF In
<1> QED BY <1>11, <1>12, <1>17, <1>19, <1>20, <1>21, <1>22, <1>23 DEF Guesses

-----------------------------------------------------------------------------
(* Requests and the counters. *)

\* A request that will save without comparing a code: it may close its step
\* or open one, under the number the save gives it.
LEMMA FinalCounts ==
    ASSUME NEW x \in Rows, NEW n, NEW q, q.stage = "final", q.auth = x, q.next = n,
           n.limits = x.limits, x.login.id <= Number(x), x.manage.id <= Number(x), Apart(x),
           Turned(n.login, x.login, Fresh(x)), Turned(n.manage, x.manage, Fresh(x)),
           \/ Kept(n.login, x.login) \/ n.login.id = 0
           \/ Kept(n.manage, x.manage) \/ n.manage.id = 0
    PROVE  Counting(q)
<1>1. x.login.id \in Nat /\ x.manage.id \in Nat /\ Number(x) \in Nat /\ Fresh(x) = Number(x) + 1
  BY RowCounters, NumberTyped
<1>2. x.login.id # Fresh(x) /\ x.manage.id # Fresh(x) /\ Fresh(x) # 0
  BY <1>1
<1>3. Apart(n)
  BY <1>2 DEF Apart, Turned, Kept
<1>4. Window(n) = Window(x)
  BY DEF Window
<1> QED BY <1>3, <1>4 DEF Counting, CountsNone

LEMMA ConsumedCounts ==
    ASSUME NEW a \in Rows, NEW code \in Codes
    PROVE  /\ Consumed(a, code) \in Rows
           /\ Consumed(a, code).limits = a.limits
           /\ Consumed(a, code).login = a.login /\ Consumed(a, code).manage = a.manage
<1>1. code[3] \in Nat /\ a.codes \ {code} \in SUBSET Codes
  BY DEF Codes, Rows
<1>2. CASE code[1] = "recovery"
  BY <1>1, <1>2 DEF Consumed, Rows
<1>3. CASE code[1] # "recovery"
  BY <1>1, <1>3 DEF Consumed, Rows
<1> QED BY <1>2, <1>3

LEMMA ClearedCounts ==
    ASSUME NEW a \in Rows
    PROVE  /\ Cleared(a) \in Rows
           /\ Cleared(a).limits = a.limits
           /\ Cleared(a).login.id = 0 /\ Cleared(a).manage.id = 0
<1>1. /\ Cleared(a) \in Rows /\ Cleared(a).limits = a.limits
      /\ Cleared(a).login = NoChallenge /\ Cleared(a).manage = NoChallenge
  BY NoneTyped DEF Cleared, Rows
<1> QED BY <1>1 DEF NoChallenge

\* Whatever an accepted code is for, its save compares nothing more.
LEMMA AcceptedCounts ==
    ASSUME clock \in Nat, NEW x \in Rows, NEW q \in Requests, q.auth = x,
           x.login.id <= Number(x), x.manage.id <= Number(x), Apart(x), NEW f \in Accepted(q)
    PROVE  Counting(f)
<1> DEFINE Factors == x.codes \cup TotpCodes({x.secret})
           c == Challenge(x, q)
<1>1. Factors \subseteq Codes
  BY FactorTyped
<1>2. NoChallenge.id = 0
  BY DEF NoChallenge
<1>3. ASSUME NEW code, NEW n, NEW b, f = Final(q, code, n, b), n.limits = x.limits,
             Turned(n.login, x.login, Fresh(x)), Turned(n.manage, x.manage, Fresh(x)),
             \/ Kept(n.login, x.login) \/ n.login.id = 0
             \/ Kept(n.manage, x.manage) \/ n.manage.id = 0
      PROVE  Counting(f)
  <2>1. f.stage = "final" /\ f.auth = x /\ f.next = n
    BY <1>3 DEF Final, Requests
  <2> QED BY <1>3, <2>1, FinalCounts
<1>4. ASSUME NEW kind
      PROVE  NewChallenge(x, kind).id = Fresh(x) /\ NewChallenge(x, kind).attempts = 0
  BY DEF NewChallenge
<1>5. CASE q.op = "verify"
  <2>1. PICK code \in Factors : f = Final(q, code, [Consumed(x, code) EXCEPT !.login = NoChallenge], FALSE)
    BY <1>5 DEF Accepted
  <2> DEFINE a == Consumed(x, code)
             n == [a EXCEPT !.login = NoChallenge]
  <2>2. a \in Rows /\ a.limits = x.limits /\ a.manage = x.manage
    BY <1>1, <2>1, ConsumedCounts
  <2>3. f = Final(q, code, n, FALSE)
    BY <2>1
  <2> HIDE DEF a
  <2>4. n.limits = x.limits /\ n.manage = x.manage /\ n.login.id = 0
    BY <1>2, <2>2 DEF Rows
  <2> HIDE DEF n
  <2> QED BY <1>3, <2>3, <2>4 DEF Turned, Kept
<1>6. CASE q.op = "confirm"
  <2>1. PICK code : f = Final(q, code, [Cleared(x) EXCEPT !.secret = c.secret, !.last = code[3],
                                             !.codes = RecoveryCodes(Fresh(x)), !.reset = FALSE], TRUE)
    BY <1>6 DEF Accepted
  <2> DEFINE a == Cleared(x)
             n == [a EXCEPT !.secret = c.secret, !.last = code[3],
                            !.codes = RecoveryCodes(Fresh(x)), !.reset = FALSE]
  <2>2. a \in Rows /\ a.limits = x.limits /\ a.login.id = 0 /\ a.manage.id = 0
    BY ClearedCounts
  <2>3. f = Final(q, code, n, TRUE)
    BY <2>1
  <2> HIDE DEF a, c
  <2>4. n.limits = x.limits /\ n.login.id = 0 /\ n.manage.id = 0
    BY <2>2 DEF Rows
  <2> HIDE DEF n
  <2> QED BY <1>3, <2>3, <2>4 DEF Turned
<1>7. CASE q.op = "replace"
  <2>1. PICK code \in Factors : f = Final(q, code, [Consumed(x, code) EXCEPT !.manage = NewChallenge(x, "replace")], FALSE)
    BY <1>7 DEF Accepted
  <2> DEFINE a == Consumed(x, code)
             e == NewChallenge(x, "replace")
             n == [a EXCEPT !.manage = e]
  <2>2. a \in Rows /\ a.limits = x.limits /\ a.login = x.login
    BY <1>1, <2>1, ConsumedCounts
  <2>3. f = Final(q, code, n, FALSE) /\ e.id = Fresh(x) /\ e.attempts = 0
    BY <1>4, <2>1
  <2> HIDE DEF a, e
  <2>4. n.limits = x.limits /\ n.login = x.login /\ n.manage = e
    BY <2>2 DEF Rows
  <2> HIDE DEF n
  <2> QED BY <1>3, <2>3, <2>4 DEF Turned, Kept
<1>8. CASE q.op = "regenerate"
  <2>1. PICK code \in Factors : f = Final(q, code, [Cleared(Consumed(x, code)) EXCEPT !.codes = RecoveryCodes(Fresh(x))], TRUE)
    BY <1>8 DEF Accepted
  <2> DEFINE a == Consumed(x, code)
             b == Cleared(a)
             n == [b EXCEPT !.codes = RecoveryCodes(Fresh(x))]
  <2>2. a \in Rows /\ a.limits = x.limits
    BY <1>1, <2>1, ConsumedCounts
  <2>3. b \in Rows /\ b.limits = x.limits /\ b.login.id = 0 /\ b.manage.id = 0
    <3> HIDE DEF a
    <3> QED BY <2>2, ClearedCounts
  <2>4. f = Final(q, code, n, TRUE)
    BY <2>1
  <2> HIDE DEF b
  <2>5. n.limits = x.limits /\ n.login.id = 0 /\ n.manage.id = 0
    BY <2>3 DEF Rows
  <2> HIDE DEF n
  <2> QED BY <1>3, <2>4, <2>5 DEF Turned
<1>9. CASE q.op = "redeem"
  <2>1. PICK code : f = Final(q, code, [x EXCEPT !.ticket = NoTicket, !.login = NewChallenge(x, "enroll")], FALSE)
    BY <1>9 DEF Accepted
  <2> DEFINE e == NewChallenge(x, "enroll")
             n == [x EXCEPT !.ticket = NoTicket, !.login = e]
  <2>2. f = Final(q, code, n, FALSE) /\ e.id = Fresh(x) /\ e.attempts = 0
    BY <1>4, <2>1
  <2> HIDE DEF e
  <2>3. n.limits = x.limits /\ n.manage = x.manage /\ n.login = e
    BY DEF Rows
  <2> HIDE DEF n
  <2> QED BY <1>3, <2>2, <2>3 DEF Turned, Kept
<1>10. CASE q.op \notin {"verify", "confirm", "replace", "regenerate", "redeem"}
  BY <1>10 DEF Accepted
<1> QED BY <1>5, <1>6, <1>7, <1>8, <1>9, <1>10

-----------------------------------------------------------------------------
(* The actions keep the counters. *)

LEMMA StepCounting ==
    ASSUME GInv, NEW r \in Request, StepOf(r), IInv', Guesses', request'[r] # Idle => Counting(request'[r])
    PROVE  GInv'
<1>1. \A p \in Request \ {r} : request'[p] = request[p]
  BY DEF GInv, IInv, TypeOK, StepOf
<1>2. ASSUME NEW p \in Request, request'[p] # Idle PROVE Counting(request'[p])
  <2>1. CASE p = r
    BY <1>2, <2>1
  <2>2. CASE p # r
    BY <1>1, <1>2, <2>2 DEF GInv
  <2> QED BY <2>1, <2>2
<1>3. ASSUME NEW p \in Request, Counting(request'[p]) PROVE Counting(request[p])'
  BY <1>3 DEF Counting, CountsNone, CountsLimit, CountsStep, Turned, Kept, Raised, Window, Apart, Fresh, Later
<1> QED BY <1>2, <1>3 DEF GInv

LEMMA GuessesStay ==
    ASSUME Guesses, row' = row, tested' = tested
    PROVE  Guesses'
<1>1. \A n : Of(n)' = Of(n) /\ In(n)' = In(n)
  BY DEF Of, In
<1>2. Number(row)' = Number(row) /\ Window(row)' = Window(row) /\ Apart(row)' = Apart(row)
  BY DEF Number, Window, Apart
<1>3. Of(row.login.id)' = Of(row.login.id) /\ Of(row.manage.id)' = Of(row.manage.id)
      /\ In(Window(row).expires)' = In(Window(row).expires)
  BY DEF Of, In, Window
<1> QED BY <1>1, <1>2, <1>3 DEF Guesses

\* A request that starts, or goes on, without a save.
LEMMA QuietCounts ==
    ASSUME GInv, NEW r \in Request, StepOf(r), IInv', row' = row, tested' = tested,
           request'[r] # Idle => Counting(request'[r])
    PROVE  GInv'
<1>1. Guesses'
  BY GuessesStay DEF GInv
<1> QED BY <1>1, StepCounting

LEMMA EndCounts ==
    ASSUME GInv, NEW r \in Request, Ends(r), row' = row, tested' = tested, IInv'
    PROVE  GInv'
<1>1. StepOf(r) /\ request'[r] = Idle
  BY DEF Ends, Becomes, StepOf, GInv, IInv, TypeOK
<1> QED BY <1>1, QuietCounts

LEMMA BecomesStep ==
    ASSUME GInv, NEW r \in Request, NEW n, Becomes(r, n)
    PROVE  StepOf(r) /\ request'[r] = n
BY DEF Becomes, StepOf, GInv, IInv, TypeOK

LEMMA QuestionToken ==
    ASSUME IInv, NEW q \in Questions
    PROVE  q.op \notin ChallengeOps => q.token = 0
<1>1. CASE q = Ask("signin", 0, 0)
  BY <1>1 DEF Ask
<1>2. ASSUME NEW op \in ChallengeOps, NEW c, q = Ask(op, c, 0) PROVE q.op \in ChallengeOps
  BY <1>2 DEF Ask
<1>3. ASSUME NEW op \in ManageOps, NEW s, q = Ask(op, 0, s) PROVE q.token = 0
  BY <1>3 DEF Ask
<1> QED BY <1>1, <1>2, <1>3 DEF Questions

LEMMA BeginCounts == ASSUME GInv, NEW r \in Request, Begin(r) PROVE GInv'
<1>1. PICK q \in Questions : MayCount(row, q) /\ Becomes(r, [q EXCEPT !.next = Counted(row, q)])
  BY DEF Begin
<1> DEFINE n == [q EXCEPT !.next = Counted(row, q)]
<1>2. IInv /\ IInv' /\ row \in Rows /\ clock \in Nat
  BY BeginKeeps DEF GInv, IInv, TypeOK
<1>3. q \in Requests /\ q.auth = row /\ q.stage = "count" /\ (q.op \notin ChallengeOps => q.token = 0)
  BY <1>2, QuestionTyped, QuestionToken
<1>4. Counted(row, q) \in Rows
  BY <1>2, <1>3, CountedKeeps
<1>5. /\ n \in Requests /\ n.stage = "count" /\ n.auth = row /\ n.op = q.op /\ n.token = q.token
      /\ n.next = Counted(row, q)
  BY <1>3, <1>4 DEF Requests
<1>6. Becomes(r, n)
  BY <1>1
<1> HIDE DEF n
<1>7. Counting(n)
  BY <1>1, <1>2, <1>3, <1>5, CountedCounts
<1>8. StepOf(r) /\ request'[r] = n
  BY <1>6, BecomesStep
<1>9. row' = row /\ tested' = tested
  BY DEF Begin
<1> QED BY <1>2, <1>7, <1>8, <1>9, QuietCounts

LEMMA RetryCounts == ASSUME GInv, NEW r \in Request, Retry(r) PROVE GInv'
<1> DEFINE q == request[r]
           n == [q EXCEPT !.auth = row, !.next = Counted(row, q), !.tries = @ - 1]
<1>1. q.stage = "count" /\ q.tries > 1 /\ MayCount(row, q) /\ Becomes(r, n) /\ row' = row /\ tested' = tested
  BY DEF Retry
<1>2. IInv /\ IInv' /\ row \in Rows /\ clock \in Nat
  BY RetryKeeps DEF GInv, IInv, TypeOK
<1>3. q # Idle
  BY <1>1 DEF Idle
<1>4. q \in Requests /\ Counting(q)
  BY <1>2, <1>3 DEF GInv, IInv, TypeOK
<1>5. Counted(row, q) \in Rows /\ q.tries - 1 \in Nat
  BY <1>1, <1>2, <1>4, CountedKeeps DEF Requests
<1>6. q.op \notin ChallengeOps => q.token = 0
  BY <1>1, <1>4 DEF Counting
<1>7. StepOf(r) /\ request'[r] = n
  BY <1>1, BecomesStep
<1> HIDE DEF q
<1>8. /\ n \in Requests /\ n.stage = "count" /\ n.auth = row /\ n.op = q.op /\ n.token = q.token
      /\ n.next = Counted(row, q)
  BY <1>1, <1>2, <1>4, <1>5 DEF Requests
<1> HIDE DEF n
<1>9. Counting(n)
  BY <1>1, <1>2, <1>4, <1>6, <1>8, CountedCounts
<1> QED BY <1>1, <1>2, <1>7, <1>9, QuietCounts

LEMMA StartEnrollmentCounts == ASSUME GInv, NEW r \in Request, StartEnrollment(r) PROVE GInv'
<1>1. PICK c \in {row.login, row.manage} \ {NoChallenge} :
        /\ Open(row, Ask("enroll", c.id, 0))
        /\ Becomes(r, [Ask("enroll", c.id, 0) EXCEPT
                      !.stage = "final",
                      !.next = WithChallenge(row, Ask("enroll", c.id, 0), [c EXCEPT !.secret = Fresh(row)])])
  BY DEF StartEnrollment
<1> DEFINE q == Ask("enroll", c.id, 0)
           d == [c EXCEPT !.secret = Fresh(row)]
           w == WithChallenge(row, q, d)
           n == [q EXCEPT !.stage = "final", !.next = w]
<1>2. row \in Rows /\ c \in Challenges /\ IInv' /\ c.id \in Nat
  BY StartEnrollmentKeeps DEF GInv, IInv, TypeOK, Rows, Challenges
<1>3. row.login.id <= Number(row) /\ row.manage.id <= Number(row) /\ Apart(row)
  BY DEF GInv, Guesses
<1>4. q \in Requests /\ q.op = "enroll" /\ q.auth = row /\ q.token = c.id
  BY <1>2, AskTyped DEF Ops
<1>5. d.id = c.id /\ d.attempts = c.attempts
  BY <1>2 DEF Challenges
<1>6. Becomes(r, n) /\ row' = row /\ tested' = tested
  BY <1>1 DEF StartEnrollment
<1>7. n.stage = "final" /\ n.auth = row /\ n.next = w
  <2> HIDE DEF q, w
  <2> QED BY <1>4 DEF Requests
<1>8. StepOf(r) /\ request'[r] = n
  BY <1>6, BecomesStep
<1> HIDE DEF q, d, n
<1>9. CASE InManage(row, q)
  <2>1. w = [row EXCEPT !.manage = d] /\ row.manage.id = c.id
    BY <1>4, <1>9 DEF WithChallenge, InManage
  <2>2. w.limits = row.limits /\ w.login = row.login /\ w.manage = d
    BY <1>2, <2>1 DEF Rows
  <2>3. Kept(d, row.manage) \/ d.id = 0
    BY <1>1, <1>3, <1>5, <2>1 DEF Kept, Apart
  <2> HIDE DEF w
  <2>4. Counting(n)
    BY <1>2, <1>3, <1>7, <2>2, <2>3, FinalCounts DEF Turned, Kept
  <2> QED BY <1>2, <1>6, <1>8, <2>4, QuietCounts
<1>10. CASE ~InManage(row, q)
  <2>1. w = [row EXCEPT !.login = d] /\ row.manage.id # c.id
    BY <1>4, <1>10 DEF WithChallenge, InManage
  <2>2. w.limits = row.limits /\ w.manage = row.manage /\ w.login = d
    BY <1>2, <2>1 DEF Rows
  <2>3. Kept(d, row.login)
    BY <1>1, <1>5, <2>1 DEF Kept
  <2> HIDE DEF w
  <2>4. Counting(n)
    BY <1>2, <1>3, <1>7, <2>2, <2>3, FinalCounts DEF Turned, Kept
  <2> QED BY <1>2, <1>6, <1>8, <2>4, QuietCounts
<1> QED BY <1>9, <1>10

LEMMA StartChangeCounts == ASSUME GInv, NEW r \in Request, StartChange(r) PROVE GInv'
<1>1. PICK q \in Revoking : Becomes(r, [q EXCEPT !.stage = "final", !.revokes = TRUE])
  BY DEF StartChange
<1> DEFINE n == [q EXCEPT !.stage = "final", !.revokes = TRUE]
           a == Cleared(row)
           e == [a EXCEPT !.secret = 0, !.last = -1, !.codes = {}, !.reset = TRUE,
                          !.ticket = [id |-> Fresh(row), expires |-> clock + TicketTicks]]
<1>2. row \in Rows /\ IInv' /\ row' = row /\ tested' = tested
  BY StartChangeKeeps DEF GInv, IInv, TypeOK, StartChange
<1>3. row.login.id <= Number(row) /\ row.manage.id <= Number(row) /\ Apart(row)
  BY DEF GInv, Guesses
<1>4. a \in Rows /\ a.limits = row.limits /\ a.login.id = 0 /\ a.manage.id = 0
  BY <1>2, ClearedCounts
<1>5. \/ \E p \in Password : q = [Ask("password", 0, 0) EXCEPT !.next = [a EXCEPT !.password = p]]
      \/ q = [Ask("revoke", 0, 0) EXCEPT !.next = a]
      \/ q = [Ask("reset", 0, 0) EXCEPT !.next = e]
  BY DEF Revoking
<1>6. StepOf(r) /\ request'[r] = n
  BY <1>1, BecomesStep
<1>7. ASSUME NEW op \in {"password", "revoke", "reset"}, NEW b, q = [Ask(op, 0, 0) EXCEPT !.next = b],
             b.limits = row.limits, b.login.id = 0, b.manage.id = 0
      PROVE  Counting(n)
  <2>1. n.stage = "final" /\ n.auth = row /\ n.next = b
    BY <1>7 DEF Ask
  <2> HIDE DEF n
  <2> QED BY <1>2, <1>3, <1>7, <2>1, FinalCounts DEF Turned
<1> HIDE DEF a, n
<1>8. Counting(n)
  <2>1. ASSUME NEW p \in Password, q = [Ask("password", 0, 0) EXCEPT !.next = [a EXCEPT !.password = p]]
        PROVE  Counting(n)
    <3>1. /\ [a EXCEPT !.password = p].limits = row.limits
          /\ [a EXCEPT !.password = p].login.id = 0 /\ [a EXCEPT !.password = p].manage.id = 0
      BY <1>4 DEF Rows
    <3> QED BY <1>7, <2>1, <3>1
  <2>2. ASSUME q = [Ask("revoke", 0, 0) EXCEPT !.next = a] PROVE Counting(n)
    BY <1>4, <1>7, <2>2
  <2>3. ASSUME q = [Ask("reset", 0, 0) EXCEPT !.next = e] PROVE Counting(n)
    <3>1. e.limits = row.limits /\ e.login.id = 0 /\ e.manage.id = 0
      BY <1>4 DEF Rows
    <3> HIDE DEF e
    <3> QED BY <1>7, <2>3, <3>1
  <2> HIDE DEF e
  <2> QED BY <1>5, <2>1, <2>2, <2>3
<1> QED BY <1>2, <1>6, <1>8, QuietCounts

\* A sign-in counts its attempt against the limit of passwords.
LEMMA CountSignInCounts == ASSUME GInv, NEW r \in Request, CountSignIn(r) PROVE GInv'
<1> DEFINE q == request[r]
           n == [q EXCEPT !.stage = "password", !.auth = row', !.next = row']
<1>1. /\ q.stage = "count" /\ q.op = "signin" /\ Unchanged(q.auth) /\ row' = Stored(q)
      /\ Becomes(r, n) /\ tested' = tested
  BY DEF CountSignIn
<1>2. IInv /\ IInv' /\ Guesses
  BY CountSignInKeeps DEF GInv
<1>3. q # Idle /\ q \in Requests /\ Prepared(q) /\ Stores(q) /\ row \in Rows
  BY <1>1, <1>2, SaverKnows
<1>4. Counting(q) /\ tested \subseteq Nat \X Nat \X Nat
  BY <1>3 DEF GInv, IInv, TypeOK
<1>5. /\ Window(q.next) = Window(q.auth)
      /\ Kept(q.next.login, q.auth.login) /\ Kept(q.next.manage, q.auth.manage)
  BY <1>1, <1>4 DEF Counting
<1>6. Apart(q.auth)
  BY <1>2, <1>3 DEF Stores, Guesses
<1>7. CountsNone(q)
  BY <1>5, <1>6 DEF CountsNone, Turned, Apart, Kept
<1>8. StepOf(r) /\ request'[r] = n
  BY <1>1, BecomesStep
<1> HIDE DEF q
<1>9. Guesses'
  BY <1>1, <1>2, <1>3, <1>4, <1>7, SaveCountsNone
<1>10. n.stage = "password"
  BY <1>3 DEF Requests
<1> HIDE DEF n
<1>11. Counting(n)
  BY <1>10 DEF Counting
<1> QED BY <1>2, <1>8, <1>9, <1>11, StepCounting

LEMMA CountAndTestCounts == ASSUME GInv, NEW r \in Request, CountAndTest(r) PROVE GInv'
<1> DEFINE q == request[r]
           p == [q EXCEPT !.auth = row', !.next = row']
<1>1. /\ q.stage = "count" /\ q.op # "signin" /\ Unchanged(q.auth) /\ row' = Stored(q)
      /\ tested' = tested \cup {<<q.token, row'.limits["factor"].expires, row'.rev>>}
      /\ (\E a \in Accepted(p) : Becomes(r, a)) \/ Ends(r)
  BY DEF CountAndTest
<1>2. IInv /\ IInv' /\ Guesses
  BY CountAndTestKeeps DEF GInv
<1>3. q # Idle /\ q \in Requests /\ Prepared(q) /\ Stores(q) /\ row \in Rows /\ clock \in Nat
  BY <1>1, <1>2, SaverKnows
<1>4. Counting(q) /\ tested \subseteq Nat \X Nat \X Nat
  BY <1>3 DEF GInv, IInv, TypeOK
<1>5. CountsLimit(Window(q.next), Window(q.auth)) /\ CountsStep(q)
  BY <1>1, <1>4 DEF Counting
<1> HIDE DEF q
<1>6. Guesses'
  BY <1>1, <1>2, <1>3, <1>4, <1>5, SaveCountsOne
<1>7. row' \in Rows
  BY <1>2 DEF IInv, TypeOK
<1>8. p \in Requests /\ p.auth = row'
  BY <1>3, <1>7 DEF Requests
<1> HIDE DEF p
<1>9. row'.login.id <= Number(row') /\ row'.manage.id <= Number(row') /\ Apart(row')
  BY <1>6 DEF Guesses, Number, Apart
<1>10. ASSUME NEW a \in Accepted(p), Becomes(r, a) PROVE GInv'
  <2>1. Counting(a)
    BY <1>3, <1>7, <1>8, <1>9, AcceptedCounts
  <2>2. StepOf(r) /\ request'[r] = a
    BY <1>10, BecomesStep
  <2> QED BY <1>2, <1>6, <2>1, <2>2, StepCounting
<1>11. CASE Ends(r)
  <2>1. StepOf(r) /\ request'[r] = Idle
    BY <1>11, BecomesStep DEF Ends
  <2> QED BY <1>2, <1>6, <2>1, StepCounting
<1> QED BY <1>1, <1>10, <1>11

LEMMA AuthenticateCounts == ASSUME GInv, NEW r \in Request, Authenticate(r) PROVE GInv'
<1> DEFINE q == request[r]
           n == [q EXCEPT !.stage = "challenge", !.auth = row]
<1>1. q # Idle /\ row' = row /\ tested' = tested /\ (Becomes(r, n) \/ Ends(r))
  BY DEF Authenticate
<1>2. q \in Requests /\ IInv'
  BY <1>1, AuthenticateKeeps DEF GInv, IInv, TypeOK
<1>3. CASE Becomes(r, n)
  <2>1. StepOf(r) /\ request'[r] = n
    BY <1>3, BecomesStep
  <2> HIDE DEF q
  <2>2. n.stage = "challenge"
    BY <1>2 DEF Requests
  <2> HIDE DEF n
  <2>3. Counting(n)
    BY <2>2 DEF Counting
  <2> QED BY <1>1, <1>2, <2>1, <2>3, QuietCounts
<1> QED BY <1>1, <1>2, <1>3, EndCounts

LEMMA CompleteLoginCounts == ASSUME GInv, NEW r \in Request, CompleteLogin(r) PROVE GInv'
<1> DEFINE q == request[r]
           kind == IF row.reset THEN "recover" ELSE IF row.secret # 0 THEN "verify" ELSE "enroll"
           c == NewChallenge(row, kind)
           a == [row EXCEPT !.login = c]
           n == [q EXCEPT !.stage = "final", !.auth = row, !.next = a]
<1>1. q.stage = "challenge" /\ row' = row /\ tested' = tested /\ (Becomes(r, n) \/ Ends(r))
  BY DEF CompleteLogin
<1>2. q # Idle
  BY <1>1 DEF Idle
<1>3. q \in Requests /\ row \in Rows /\ IInv'
  BY <1>2, CompleteLoginKeeps DEF GInv, IInv, TypeOK
<1>4. c.id = Fresh(row) /\ c.attempts = 0
  BY DEF NewChallenge
<1>5. row.login.id <= Number(row) /\ row.manage.id <= Number(row) /\ Apart(row)
  BY DEF GInv, Guesses
<1>6. CASE Becomes(r, n)
  <2>1. StepOf(r) /\ request'[r] = n
    BY <1>6, BecomesStep
  <2> HIDE DEF q, c
  <2>2. a.limits = row.limits /\ a.manage = row.manage /\ a.login = c
    BY <1>3 DEF Rows
  <2> HIDE DEF a
  <2>3. n.stage = "final" /\ n.auth = row /\ n.next = a
    BY <1>3 DEF Requests
  <2> HIDE DEF n
  <2>4. Counting(n)
    BY <1>3, <1>4, <1>5, <2>2, <2>3, FinalCounts DEF Turned, Kept
  <2> QED BY <1>1, <1>3, <2>1, <2>4, QuietCounts
<1> QED BY <1>1, <1>3, <1>6, EndCounts

LEMMA SaveActionCounts == ASSUME GInv, NEW r \in Request, Save(r) PROVE GInv'
<1> DEFINE q == request[r]
           n == [q EXCEPT !.stage = "session", !.auth = row', !.next = row']
<1>1. /\ q.stage = "final" /\ Unchanged(q.auth) /\ row' = Stored(q)
      /\ tested' = tested /\ (Becomes(r, n) \/ Ends(r))
  BY DEF Save
<1>2. IInv /\ IInv' /\ Guesses
  BY SaveActionKeeps DEF GInv
<1>3. q # Idle /\ q \in Requests /\ Prepared(q) /\ Stores(q) /\ row \in Rows
  BY <1>1, <1>2, SaverKnows
<1>4. CountsNone(q) /\ tested \subseteq Nat \X Nat \X Nat
  BY <1>1, <1>3 DEF GInv, IInv, TypeOK, Counting
<1> HIDE DEF q
<1>5. Guesses'
  BY <1>1, <1>2, <1>3, <1>4, SaveCountsNone
<1>6. CASE Becomes(r, n)
  <2>1. StepOf(r) /\ request'[r] = n
    BY <1>6, BecomesStep
  <2>2. n.stage = "session"
    BY <1>3 DEF Requests
  <2> HIDE DEF n
  <2>3. Counting(n)
    BY <2>2 DEF Counting
  <2> QED BY <1>2, <1>5, <2>1, <2>3, StepCounting
<1>7. CASE Ends(r)
  <2>1. StepOf(r) /\ request'[r] = Idle
    BY <1>7, BecomesStep DEF Ends
  <2> QED BY <1>2, <1>5, <2>1, StepCounting
<1> QED BY <1>1, <1>6, <1>7

LEMMA InitCounts == Init => GInv
<1> SUFFICES ASSUME Init PROVE GInv
  OBVIOUS
<1>1. IInv
  BY InitInvariant
<1>2. row \in Rows /\ tested = {} /\ \A r \in Request : request[r] = Idle
  BY <1>1 DEF Init, IInv, TypeOK
<1>3. row.login = NoChallenge /\ row.manage = NoChallenge
  <2>1. PICK p \in Password : row \in {NewRow(p), EnrolledRow(p), ResetRow(p)}
    BY DEF Init
  <2>2. CASE row = NewRow(p)
    BY <2>2 DEF NewRow
  <2>3. CASE row = EnrolledRow(p)
    BY <2>3 DEF EnrolledRow, NewRow
  <2>4. CASE row = ResetRow(p)
    BY <2>4 DEF ResetRow, NewRow
  <2> QED BY <2>1, <2>2, <2>3, <2>4
<1>4. row.login.id = 0 /\ row.manage.id = 0 /\ Number(row) \in Nat
  BY <1>2, <1>3, NumberTyped DEF NoChallenge
<1>5. \A n : Cardinality(Of(n)) = 0 /\ Cardinality(In(n)) = 0
  <2>1. \A n : Of(n) = {} /\ In(n) = {}
    BY <1>2 DEF Of, In
  <2> QED BY <2>1, FS_EmptySet
<1>6. Window(row).count \in Nat /\ MaxAttempts \in Nat /\ MaxLimit \in Nat
  BY <1>2, RowCounters, ConstantsAssumption
<1>7. IsFiniteSet(tested)
  BY <1>2, FS_EmptySet
<1>8. Guesses
  BY <1>2, <1>4, <1>5, <1>6, <1>7 DEF Guesses, Apart
<1> QED BY <1>1, <1>2, <1>8 DEF GInv

LEMMA NextCounts == ASSUME GInv, Next PROVE GInv'
<1>1. IInv'
  BY NextKeeps DEF GInv
<1>2. ASSUME NEW r \in Request, Conflict(r) PROVE GInv'
  BY <1>1, <1>2, EndCounts DEF Conflict
<1>3. ASSUME NEW r \in Request, CreateSession(r) PROVE GInv'
  BY <1>1, <1>3, EndCounts DEF CreateSession
<1>4. CASE Tick
  <2>1. row' = row /\ tested' = tested /\ request' = request
    BY <1>4 DEF Tick
  <2>2. Guesses'
    BY <2>1, GuessesStay DEF GInv
  <2>3. \A r \in Request : Counting(request[r])' <=> Counting(request[r])
    BY <2>1 DEF Counting, CountsNone, CountsLimit, CountsStep, Turned, Kept, Raised, Window, Apart, Fresh, Later
  <2> QED BY <1>1, <2>1, <2>2, <2>3 DEF GInv
<1> QED BY <1>2, <1>3, <1>4, BeginCounts, StartEnrollmentCounts, StartChangeCounts, CountSignInCounts,
           CountAndTestCounts, RetryCounts, AuthenticateCounts, CompleteLoginCounts, SaveActionCounts DEF Next

\* However many requests race, and however often they retry, no challenge has
\* more codes compared than limit_account and load_challenge allow, nor does
\* the account within one window of its limit: a code is compared only after
\* the save that counts it.
THEOREM GuessesLimited == Spec => []GuessesAreLimited
<1>1. GInv => GuessesAreLimited
  <2> SUFFICES ASSUME GInv PROVE GuessesAreLimited
    OBVIOUS
  <2>1. \A t \in tested : t[1] \in Nat /\ t[2] \in Nat
    BY DEF GInv, IInv, TypeOK
  <2>2. /\ \A id \in Nat \ {0} : Cardinality(Of(id)) <= MaxAttempts
        /\ \A w \in Nat : Cardinality(In(w)) <= MaxLimit
    BY DEF GInv, Guesses
  <2>3. \A id \in {t[1] : t \in tested} \ {0} : id \in Nat \ {0}
    BY <2>1
  <2>4. \A w \in {t[2] : t \in tested} : w \in Nat
    BY <2>1
  <2> QED BY <2>2, <2>3, <2>4 DEF GuessesAreLimited, Of, In
<1>2. GInv /\ UNCHANGED vars => GInv'
  <2> SUFFICES ASSUME GInv, UNCHANGED vars PROVE GInv'
    OBVIOUS
  <2>1. row' = row /\ tested' = tested /\ request' = request /\ clock' = clock /\ sessions' = sessions /\ used' = used
    BY DEF vars
  <2>2. Guesses'
    BY <2>1, GuessesStay DEF GInv
  <2>3. IInv'
    BY <2>1 DEF GInv, IInv, TypeOK, Verifies, AsksForFactor, HasFactor, Sound, Known, Prepared, Current
  <2>4. \A r \in Request : Counting(request[r])' <=> Counting(request[r])
    BY <2>1 DEF Counting, CountsNone, CountsLimit, CountsStep, Turned, Kept, Raised, Window, Apart, Fresh, Later
  <2> QED BY <2>1, <2>2, <2>3, <2>4 DEF GInv
<1> QED BY <1>1, <1>2, InitCounts, NextCounts, PTL DEF Spec
================================================================================
