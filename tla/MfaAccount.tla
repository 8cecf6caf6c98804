------------------------------- MODULE MfaAccount -------------------------------
(***************************************************************************)
(* The credentials of one account: a row of the auth table that several    *)
(* requests read, change in memory and write back with a compare-and-swap  *)
(* on its password, stamp and revision (utils/mfa.py, models/auths.py).    *)
(*                                                                         *)
(* A request is the code between two transactions: it reads the row,       *)
(* computes the next one and tries to save it.  Tokens, secrets, stamps    *)
(* and sets of recovery codes are numbered by the save that stored them.   *)
(* Two-factor sign-in is required; a tick of the clock is one step of the  *)
(* authenticator.                                                          *)
(***************************************************************************)
EXTENDS Integers, FiniteSets

CONSTANTS Request,        \* requests being handled at once
          Password,       \* passwords of the account
          MaxAttempts,    \* codes per challenge (5)
          MaxLimit,       \* attempts per account and window (10)
          Tries,          \* saves of a counter before a request gives up (5)
          ChallengeTicks, TicketTicks, LimitTicks, \* lifetimes
          CodesPerSet,    \* recovery codes handed out together (10)
          MaxSaves,       \* bound: no request starts on a row saved so often
          MaxClock        \* bound of the clock

ASSUME ConstantsAssumption ==
    /\ {MaxAttempts, MaxLimit, Tries, ChallengeTicks, TicketTicks, LimitTicks} \subseteq Nat \ {0}
    /\ {CodesPerSet, MaxSaves, MaxClock} \subseteq Nat

VARIABLES row,      \* the credential row
          clock,    \* time.time() // 30
          request,  \* what each request holds in memory
          sessions, \* sessions issued
          used,     \* factors, challenges and tickets accepted
          tested    \* codes compared, by challenge, window and save

vars == <<row, clock, request, sessions, used, tested>>

-----------------------------------------------------------------------------
(* The row. *)

NoChallenge == [id |-> 0, kind |-> "none", expires |-> 0, attempts |-> 0, stamp |-> 0, secret |-> 0]
NoTicket == [id |-> 0, expires |-> 0]
NoLimit == [count |-> 0, expires |-> 0]

Later(m, n) == IF m > n THEN m ELSE n

\* The number the next save of a row gives to its revision and its stamp.
Fresh(a) == Later(a.rev, a.stamp) + 1

NewChallenge(a, kind) == [id |-> Fresh(a), kind |-> kind, expires |-> clock + ChallengeTicks,
                          attempts |-> 0, stamp |-> a.stamp, secret |-> 0]

RecoveryCodes(set) == {<<"recovery", set, n>> : n \in 1..CodesPerSet}

\* No row has been saved with this revision, stamp and password since a was read.
UnchangedStamp(a) == row.stamp = a.stamp /\ row.password = a.password
Unchanged(a) == row.rev = a.rev /\ row.stamp = a.stamp /\ row.password = a.password

StoredUnrevoked(q) == [q.next EXCEPT !.rev = Fresh(q.auth)]
\* The row a save leaves: a new revision, and a new stamp when it revokes.
\* Revoking the sessions of an account without two-factor state keeps none.
Stored(q) == [q.next EXCEPT
    !.rev = IF q.op = "revoke" /\ q.auth.rev = 0 THEN 0 ELSE Fresh(q.auth),
    !.stamp = IF q.stage = "final" /\ q.revokes THEN Fresh(q.auth) ELSE @]

-----------------------------------------------------------------------------
(* What a request reads and asks for. *)

Idle == [stage |-> "idle"]

Ask(op, token, claim) ==
    [op |-> op, stage |-> "count", auth |-> row, next |-> row, token |-> token, claim |-> claim,
     code |-> <<"none", 0, 0>>, tries |-> Tries, revokes |-> FALSE]

ChallengeOps == {"verify", "confirm", "redeem"}
ManageOps == {"replace", "regenerate"}

Kinds(op) == CASE op = "verify" -> {"verify"}
               [] op = "redeem" -> {"recover"}
               [] OTHER -> {"enroll", "replace"}

InManage(a, q) == q.op \in {"enroll", "confirm"} /\ a.manage.id = q.token
Challenge(a, q) == IF InManage(a, q) THEN a.manage ELSE a.login
WithChallenge(a, q, c) == IF InManage(a, q) THEN [a EXCEPT !.manage = c] ELSE [a EXCEPT !.login = c]

\* The step is still open: of this token, in time, and of this stamp.
Open(a, q) == LET c == Challenge(a, q) IN
    c.id = q.token /\ c.kind \in Kinds(q.op) /\ c.expires > clock /\ c.stamp = a.stamp

LimitOf(a, kind) == IF a.limits[kind].expires <= clock
                      THEN [count |-> 0, expires |-> clock + LimitTicks]
                      ELSE a.limits[kind]
LimitKind(q) == IF q.op = "signin" THEN "password" ELSE "factor"

\* The checks before an attempt is counted, and the row that counts it.
MayCount(a, q) ==
    /\ LimitOf(a, LimitKind(q)).count < MaxLimit
    /\ q.op \in ManageOps => q.claim = a.stamp
    /\ q.op \in ChallengeOps => Open(a, q) /\ Challenge(a, q).attempts < MaxAttempts

Counted(a, q) ==
    LET limit == LimitOf(a, LimitKind(q))
        limited == [a EXCEPT !.limits[LimitKind(q)] = [limit EXCEPT !.count = @ + 1]]
        c == Challenge(a, q)
    IN IF q.op \in ChallengeOps
         THEN WithChallenge(limited, q, [c EXCEPT !.attempts = @ + 1])
         ELSE limited

-----------------------------------------------------------------------------
(* Factors. *)

MatchesAgain(code, secret, last) ==
    code[1] = "totp" /\ code[2] = secret /\ code[3] \in clock - 1 .. clock + 1
\* The authenticator's code of a step near the clock, later than the last.
Matches(code, secret, last) ==
    code[1] = "totp" /\ code[2] = secret /\ code[3] > last /\ code[3] \in clock - 1 .. clock + 1

Consumable(a, code) == \/ code \in a.codes
                       \/ a.secret # 0 /\ Matches(code, a.secret, a.last)

Consumed(a, code) == IF code[1] = "recovery" THEN [a EXCEPT !.codes = @ \ {code}]
                                             ELSE [a EXCEPT !.last = code[3]]

Cleared(a) == [a EXCEPT !.login = NoChallenge, !.manage = NoChallenge, !.ticket = NoTicket]

TotpCodes(secrets) == {<<"totp", s, t>> : s \in secrets, t \in (clock - 1 .. clock + 1) \cap Nat}
TicketOf(a) == <<"ticket", a.ticket.id, 0>>

\* The request with what it will save once its code is found right.
Final(q, code, next, revokes) ==
    [q EXCEPT !.stage = "final", !.code = code, !.next = next, !.revokes = revokes]

\* What the code typed into request q makes of it; no outcome is a refusal.
Accepted(q) == LET a == q.auth
                   c == Challenge(a, q) IN
    CASE q.op = "verify" ->
           {Final(q, code, [Consumed(a, code) EXCEPT !.login = NoChallenge], FALSE) :
              code \in {f \in a.codes \cup TotpCodes({a.secret}) : Consumable(a, f)}}
      [] q.op = "confirm" ->
           {Final(q, code, [Cleared(a) EXCEPT !.secret = c.secret, !.last = code[3],
                                              !.codes = RecoveryCodes(Fresh(a)), !.reset = FALSE], TRUE) :
              code \in {f \in TotpCodes({c.secret} \ {0}) : Matches(f, c.secret, -1)}}
      [] q.op = "replace" ->
           {Final(q, code, [Consumed(a, code) EXCEPT !.manage = NewChallenge(a, "replace")], FALSE) :
              code \in {f \in a.codes \cup TotpCodes({a.secret}) : Consumable(a, f)}}
      [] q.op = "regenerate" ->
           {Final(q, code, [Cleared(Consumed(a, code)) EXCEPT !.codes = RecoveryCodes(Fresh(a))], TRUE) :
              code \in {f \in a.codes \cup TotpCodes({a.secret}) : Consumable(a, f)}}
      [] q.op = "redeem" ->
           {Final(q, code, [a EXCEPT !.ticket = NoTicket, !.login = NewChallenge(a, "enroll")], FALSE) :
              code \in IF a.reset /\ a.ticket.id # 0 /\ a.ticket.expires > clock THEN {TicketOf(a)} ELSE {}}
      [] OTHER -> {}

\* What the final save of request q uses up.
Spent(q) == IF q.op \in ChallengeOps THEN {q.code, <<"challenge", q.token, 0>>}
            ELSE IF q.op \in ManageOps THEN {q.code} ELSE {}

-----------------------------------------------------------------------------
(* Initial state: a new account, one with an authenticator, or one an      *)
(* operator has reset.                                                     *)

NewRow(p) == [password |-> p, stamp |-> 1, rev |-> 0, secret |-> 0, last |-> -1, codes |-> {},
              login |-> NoChallenge, manage |-> NoChallenge, reset |-> FALSE, ticket |-> NoTicket,
              limits |-> [kind \in {"password", "factor"} |-> NoLimit]]
EnrolledRow(p) == [NewRow(p) EXCEPT !.rev = 1, !.secret = 1, !.last = 0, !.codes = RecoveryCodes(1)]
ResetRow(p) == [NewRow(p) EXCEPT !.rev = 1, !.reset = TRUE, !.ticket = [id |-> 1, expires |-> TicketTicks]]

Init == /\ \E p \in Password : row \in {NewRow(p), EnrolledRow(p), ResetRow(p)}
        /\ clock = 0
        /\ request = [r \in Request |-> Idle]
        /\ sessions = {}
        /\ used = {}
        /\ tested = {}

-----------------------------------------------------------------------------
(* Actions. *)

Starts(r) == request[r] = Idle /\ Fresh(row) <= MaxSaves
Becomes(r, q) == request' = [request EXCEPT ![r] = q]
Ends(r) == Becomes(r, Idle)

\* Requests that count an attempt before they look at anything else: a
\* sign-in, a step of a challenge, and the management of the authenticator
\* from a session whose sign-in is recent.
Questions == {Ask("signin", 0, 0)}
        \cup {Ask(op, c.id, 0) : op \in ChallengeOps, c \in {row.login, row.manage} \ {NoChallenge}}
        \cup {Ask(op, 0, s.stamp) : op \in ManageOps, s \in {t \in sessions : clock - t.time <= ChallengeTicks}}

Begin(r) ==
    /\ Starts(r)
    /\ \E q \in Questions : MayCount(row, q) /\ Becomes(r, [q EXCEPT !.next = Counted(row, q)])
    /\ UNCHANGED <<row, clock, sessions, used, tested>>

\* start_mfa_enrollment counts nothing; a challenge that has its secret
\* keeps it.
StartEnrollment(r) ==
    /\ Starts(r)
    /\ \E c \in {row.login, row.manage} \ {NoChallenge} :
         LET q == Ask("enroll", c.id, 0) IN
         /\ Open(row, q) /\ c.secret = 0
         /\ Becomes(r, [q EXCEPT !.stage = "final",
                                 !.next = WithChallenge(row, q, [c EXCEPT !.secret = Fresh(row)])])
    /\ UNCHANGED <<row, clock, sessions, used, tested>>

\* Changes from outside the sign-in: a new password, all sessions revoked, a
\* reset by the operator.
Revoking == {[Ask("password", 0, 0) EXCEPT !.next = [Cleared(row) EXCEPT !.password = p]] : p \in Password}
       \cup {[Ask("revoke", 0, 0) EXCEPT !.next = Cleared(row)],
             [Ask("reset", 0, 0) EXCEPT !.next =
                [Cleared(row) EXCEPT !.secret = 0, !.last = -1, !.codes = {}, !.reset = TRUE,
                                     !.ticket = [id |-> Fresh(row), expires |-> clock + TicketTicks]]]}

StartChange(r) ==
    /\ Starts(r)
    /\ \E q \in Revoking : Becomes(r, [q EXCEPT !.stage = "final", !.revokes = TRUE])
    /\ UNCHANGED <<row, clock, sessions, used, tested>>

\* The save of a count: the row it was computed from must still be there.
CountSignIn(r) == LET q == request[r] IN
    /\ q.stage = "count" /\ q.op = "signin" /\ Unchanged(q.auth)
    /\ row' = Stored(q)
    /\ Becomes(r, [q EXCEPT !.stage = "password", !.auth = row', !.next = row'])
    /\ UNCHANGED <<clock, sessions, used, tested>>

\* ... after which the code is compared: it is accepted or refused.
CountAndTest(r) == LET q == request[r] IN
    /\ q.stage = "count" /\ q.op # "signin" /\ Unchanged(q.auth)
    /\ row' = Stored(q)
    /\ tested' = tested \cup {<<q.token, row'.limits["factor"].expires, row'.rev>>}
    /\ \/ \E a \in Accepted([q EXCEPT !.auth = row', !.next = row']) : Becomes(r, a)
       \/ Ends(r)
    /\ UNCHANGED <<clock, sessions, used>>

RetryForever(r) == LET q == request[r] IN
    /\ q.stage = "count" /\ ~Unchanged(q.auth)
    /\ MayCount(row, q)
    /\ Becomes(r, [q EXCEPT !.auth = row, !.next = Counted(row, q), !.tries = @ - 1])
    /\ UNCHANGED <<row, clock, sessions, used, tested>>
\* The row has changed: read it again and check again, a few times.
Retry(r) == LET q == request[r] IN
    /\ q.stage = "count" /\ ~Unchanged(q.auth)
    /\ q.tries > 1 /\ MayCount(row, q)
    /\ Becomes(r, [q EXCEPT !.auth = row, !.next = Counted(row, q), !.tries = @ - 1])
    /\ UNCHANGED <<row, clock, sessions, used, tested>>

Conflict(r) == LET q == request[r] IN
    /\ q.stage \in {"count", "final"} /\ ~Unchanged(q.auth)
    /\ q.stage = "count" => q.tries = 1 \/ ~MayCount(row, q)
    /\ Ends(r)
    /\ UNCHANGED <<row, clock, sessions, used, tested>>

\* authenticate_user reads the row and compares the password typed with it.
Authenticate(r) ==
    /\ request[r] # Idle /\ request[r].stage = "password"
    /\ \/ Becomes(r, [request[r] EXCEPT !.stage = "challenge", !.auth = row])
       \/ Ends(r)
    /\ UNCHANGED <<row, clock, sessions, used, tested>>

\* complete_login and start_mfa_login, on the row as it is by then.
CompleteLogin(r) == LET q == request[r]
                        kind == IF row.reset THEN "recover" ELSE IF row.secret # 0 THEN "verify" ELSE "enroll" IN
    /\ q.stage = "challenge"
    /\ IF row.stamp = q.auth.stamp /\ row.password = q.auth.password
         THEN Becomes(r, [q EXCEPT !.stage = "final", !.auth = row,
                                   !.next = [row EXCEPT !.login = NewChallenge(row, kind)]])
         ELSE Ends(r)
    /\ UNCHANGED <<row, clock, sessions, used, tested>>

\* The save of what the request is for.  A verified or enrolled sign-in goes
\* on to its session.
Save(r) == LET q == request[r] IN
    /\ q.stage = "final" /\ Unchanged(q.auth)
    /\ row' = Stored(q)
    /\ used' = used \cup Spent(q)
    /\ IF q.op = "verify" \/ (q.op = "confirm" /\ ~InManage(q.auth, q))
         THEN Becomes(r, [q EXCEPT !.stage = "session", !.auth = row', !.next = row'])
         ELSE Ends(r)
    /\ UNCHANGED <<clock, sessions, tested>>

CreateSession(r) == LET q == request[r] IN
    /\ q.stage = "session"
    /\ sessions' = IF row.stamp = q.auth.stamp
                     THEN sessions \cup {[id |-> q.token, stamp |-> q.auth.stamp, time |-> clock,
                                          password |-> q.auth.password, secret |-> q.auth.secret]}
                     ELSE sessions
    /\ Ends(r)
    /\ UNCHANGED <<row, clock, used, tested>>

Tick == /\ clock < MaxClock
        /\ clock' = clock + 1
        /\ UNCHANGED <<row, request, sessions, used, tested>>

Next == \/ \E r \in Request : \/ Begin(r) \/ StartEnrollment(r) \/ StartChange(r)
                              \/ CountSignIn(r) \/ CountAndTest(r) \/ Retry(r) \/ Conflict(r)
                              \/ Authenticate(r) \/ CompleteLogin(r) \/ Save(r) \/ CreateSession(r)
        \/ Tick

Spec == Init /\ [][Next]_vars

-----------------------------------------------------------------------------
(* Properties. *)

Challenges == [id: Nat, kind: {"none", "enroll", "verify", "recover", "replace"}, expires: Nat,
               attempts: Nat, stamp: Nat, secret: Nat]
Codes == {"totp", "recovery", "ticket", "challenge", "none"} \X Nat \X Nat
Rows == [password: Password, stamp: Nat, rev: Nat, secret: Nat, last: Nat \cup {-1}, codes: SUBSET Codes,
         login: Challenges, manage: Challenges, reset: BOOLEAN, ticket: [id: Nat, expires: Nat],
         limits: [{"password", "factor"} -> [count: Nat, expires: Nat]]]
Ops == ChallengeOps \cup ManageOps \cup {"signin", "enroll", "password", "revoke", "reset"}
Requests == [op: Ops, stage: {"count", "password", "challenge", "final", "session"}, auth: Rows, next: Rows,
             token: Nat, claim: Nat, code: Codes, tries: Nat, revokes: BOOLEAN]

TypeOK == /\ row \in Rows
          /\ clock \in Nat
          /\ request \in [Request -> {Idle} \cup Requests]
          /\ sessions \subseteq [id: Nat, stamp: Nat, time: Nat, password: Password, secret: Nat]
          /\ used \subseteq Codes
          /\ tested \subseteq Nat \X Nat \X Nat

\* However requests race, no more codes are compared for one challenge, or
\* for the account within one window, than the limits allow (limit_account,
\* load_challenge).
GuessesAreLimited ==
    /\ \A id \in {t[1] : t \in tested} \ {0} : Cardinality({t \in tested : t[1] = id}) <= MaxAttempts
    /\ \A w \in {t[2] : t \in tested} : Cardinality({t \in tested : t[2] = w}) <= MaxLimit

\* A session the program accepts was signed in to with the password and the
\* authenticator the account has now (complete_login, create_session_response,
\* is_valid_token).
SessionsAreCurrent ==
    \A s \in sessions : s.stamp = row.stamp =>
        s.password = row.password /\ s.secret = row.secret /\ ~row.reset /\ row.secret # 0

\* The account behaves as if every operation happened at once: MfaAccount
\* implements Credentials, whose row is the stored one, and whose sessions
\* are those of the current stamp.
Abstract(c) == [id |-> c.id, kind |-> c.kind, secret |-> c.secret]
Granted == {request[r].token : r \in {p \in Request : /\ request[p].stage = "session"
                                                      /\ request[p].auth.stamp = row.stamp}}
Live == {s.id : s \in {t \in sessions : t.stamp = row.stamp}}
Promise == INSTANCE Credentials WITH
    Step <- 0..MaxClock + 1,
    password <- row.password, secret <- row.secret, codes <- row.codes,
    login <- Abstract(row.login), manage <- Abstract(row.manage),
    reset <- row.reset, ticket <- row.ticket.id,
    granted <- Granted, live <- Live
ImplementsCredentials == Promise!Spec
================================================================================
