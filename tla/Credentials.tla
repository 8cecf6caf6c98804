------------------------------ MODULE Credentials ------------------------------
(***************************************************************************)
(* What two-factor sign-in promises of one account, whatever requests      *)
(* race: each operation happens at once, on the credentials the account    *)
(* has at that moment, a factor, a challenge or a reset ticket is accepted *)
(* once, and a change of credentials ends every session.  MfaAccount is    *)
(* shown to implement this module.                                         *)
(***************************************************************************)
EXTENDS Integers

CONSTANTS Password,    \* the passwords of the account
          Step         \* the time steps an authenticator makes codes for

VARIABLES password, \* the password in force
          secret,   \* the authenticator's secret, 0 for none
          codes,    \* the recovery codes not used yet
          login,    \* the challenge of the sign-in in progress
          manage,   \* the challenge of a replacement in progress
          reset,    \* an operator asked for a new authenticator
          ticket,   \* the operator's ticket, 0 for none
          granted,  \* challenges passed whose session is not issued yet
          live,     \* sessions the program accepts, by their challenge
          used      \* every factor, challenge and ticket accepted so far

vars == <<password, secret, codes, login, manage, reset, ticket, granted, live, used>>

NoChallenge == [id |-> 0, kind |-> "none", secret |-> 0]
Opened(kinds) == [id: Nat, kind: kinds, secret: {0}]
Passed(id) == <<"challenge", id, 0>>

\* Factors the account accepts: a code of its authenticator or a recovery
\* code, unless accepted before.
Factors == ({<<"totp", secret, t>> : t \in IF secret = 0 THEN {} ELSE Step} \cup codes) \ used

NoOpenStep == login' = NoChallenge /\ manage' = NoChallenge /\ ticket' = 0
EndSessions == live' = {} /\ granted' = {}

Init == /\ password \in Password
        /\ secret \in Nat
        /\ codes \subseteq {"recovery"} \X Nat \X Nat
        /\ login = NoChallenge /\ manage = NoChallenge
        /\ reset \in BOOLEAN
        /\ ticket \in Nat
        /\ granted = {} /\ live = {} /\ used = {}

StartLogin ==
    /\ login' \in Opened({IF reset THEN "recover" ELSE IF secret # 0 THEN "verify" ELSE "enroll"})
    /\ UNCHANGED <<password, secret, codes, manage, reset, ticket, granted, live, used>>

StartEnrollment ==
    /\ \/ /\ login.kind = "enroll" /\ login.secret = 0
          /\ login' \in [id: {login.id}, kind: {"enroll"}, secret: Nat]
          /\ UNCHANGED manage
       \/ /\ manage.kind = "replace" /\ manage.secret = 0
          /\ manage' \in [id: {manage.id}, kind: {"replace"}, secret: Nat]
          /\ UNCHANGED login
    /\ UNCHANGED <<password, secret, codes, reset, ticket, granted, live, used>>

Verify ==
    /\ login.kind = "verify" /\ Passed(login.id) \notin used
    /\ \E f \in Factors : /\ codes' = codes \ {f}
                          /\ used' = used \cup {f, Passed(login.id)}
    /\ login' = NoChallenge
    /\ granted' = granted \cup {login.id}
    /\ UNCHANGED <<password, secret, manage, reset, ticket, live>>

\* A new authenticator: of a sign-in, which goes on, or of a replacement.
Confirm(c, signsIn) ==
    /\ c.kind \in {"enroll", "replace"} /\ c.secret # 0 /\ Passed(c.id) \notin used
    /\ \E t \in Step : /\ <<"totp", c.secret, t>> \notin used
                       /\ used' = used \cup {<<"totp", c.secret, t>>, Passed(c.id)}
    /\ secret' = c.secret
    /\ codes' \cap used' = {}
    /\ NoOpenStep
    /\ reset' = FALSE
    /\ live' = {}
    /\ granted' = IF signsIn THEN {c.id} ELSE {}
    /\ UNCHANGED password

Replace ==
    /\ \E f \in Factors : codes' = codes \ {f} /\ used' = used \cup {f}
    /\ manage' \in Opened({"replace"})
    /\ UNCHANGED <<password, secret, login, reset, ticket, granted, live>>

Regenerate ==
    /\ \E f \in Factors : used' = used \cup {f}
    /\ codes' \cap used' = {}
    /\ NoOpenStep /\ EndSessions
    /\ UNCHANGED <<password, secret, reset>>

Redeem ==
    /\ login.kind = "recover" /\ Passed(login.id) \notin used
    /\ reset /\ ticket # 0 /\ <<"ticket", ticket, 0>> \notin used
    /\ used' = used \cup {<<"ticket", ticket, 0>>, Passed(login.id)}
    /\ ticket' = 0
    /\ login' \in Opened({"enroll"})
    /\ UNCHANGED <<password, secret, codes, manage, reset, granted, live>>

Reset ==
    /\ secret' = 0 /\ codes' = {} /\ reset' = TRUE
    /\ login' = NoChallenge /\ manage' = NoChallenge /\ ticket' \in Nat
    /\ EndSessions
    /\ UNCHANGED <<password, used>>

ChangePassword ==
    /\ password' \in Password
    /\ NoOpenStep /\ EndSessions
    /\ UNCHANGED <<secret, codes, reset, used>>

IssueSession ==
    /\ \E id \in granted : granted' = granted \ {id} /\ live' = live \cup {id}
    /\ UNCHANGED <<password, secret, codes, login, manage, reset, ticket, used>>

\* RevokeSessions is ChangePassword with the same password.
Next == \/ StartLogin \/ StartEnrollment \/ Verify
        \/ Confirm(login, TRUE) \/ Confirm(manage, FALSE)
        \/ Replace \/ Regenerate \/ Redeem \/ Reset \/ ChangePassword \/ IssueSession

Spec == Init /\ [][Next]_vars
================================================================================
