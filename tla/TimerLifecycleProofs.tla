------------------------ MODULE TimerLifecycleProofs ------------------------
(* Proofs about TimerLifecycle, for any timers, visits and executions. *)
EXTENDS TimerLifecycle, TLAPS

\* An execution that may still fire its timer.
Armed(t, k) == exec[t][k] \in {"started", "verified", "busy", "free"}

\* Only a pending timer is claimed, so a timer has one armed execution at a
\* time provided that it is not pending as long as one is armed ...
OneArmed ==
    \A t \in Timer :
      /\ \A k \in Claim : Armed(t, k) => status[t] # "pending"
      /\ \A k, l \in Claim : Armed(t, k) /\ Armed(t, l) => k = l

\* ... and a timer that has gone off has none, and is out of the way of polls.
Spent ==
    \A t \in Timer :
      /\ fired[t] <= 1
      /\ fired[t] > 0 => status[t] \notin {"pending", "running"}
      /\ \A k \in Claim : Armed(t, k) => fired[t] = 0

IInv == TypeOK /\ OneArmed /\ Spent

\* Every variable keeps its type.
LEMMA TypeStep == ASSUME TypeOK, [Next]_vars PROVE TypeOK'
<1> USE ListeningAssumption, SlotAssumption DEF TypeOK, Claim, NoClaim
<1> USE DEF row, visit, past
<1>1. ASSUME NEW t \in Timer, BecomeDue(t) PROVE TypeOK'
  BY <1>1 DEF BecomeDue
<1>2. ASSUME NEW t \in Timer, ClaimDue(t) PROVE TypeOK'
  BY <1>2 DEF ClaimDue
<1>3. ASSUME NEW t \in Timer, NEW k \in Claim, Execute(t, k) PROVE TypeOK'
  <2>1. CASE Verify(t, k)
    BY <2>1 DEF Verify, Goto
  <2>2. CASE Refuse(t, k)
    BY <2>2 DEF Refuse, Goto
  <2>3. CASE CheckBusy(t, k)
    BY <2>3 DEF CheckBusy, Goto
  <2>4. CASE Requeue(t, k)
    BY <2>4 DEF Requeue, PutBack, Goto
  <2>5. CASE Fire(t, k)
    BY <2>5 DEF Fire, Goto
  <2>6. CASE Respond(t, k)
    BY <2>6 DEF Respond, Goto
  <2>7. CASE RespondFails(t, k)
    BY <2>7 DEF RespondFails, Goto
  <2> QED BY <1>3, <2>1, <2>2, <2>3, <2>4, <2>5, <2>6, <2>7 DEF Execute
<1>4. ASSUME NEW t \in Timer, NEW k \in Claim, Die(t, k) PROVE TypeOK'
  BY <1>4 DEF Die, Goto
<1>5. ASSUME NEW v \in Visitor, Visit(v) PROVE TypeOK'
  <2>1. CASE VisitRead(v)
    BY <2>1 DEF VisitRead
  <2>2. CASE VisitWrite(v)
    BY <2>2 DEF VisitWrite
  <2>3. CASE Ask(v)
    BY <2>3 DEF Ask
  <2> QED BY <1>5, <2>1, <2>2, <2>3 DEF Visit
<1>6. CASE EndReply
  BY <1>6 DEF EndReply
<1>7. CASE UNCHANGED vars
  BY <1>7 DEF vars
<1> QED BY <1>1, <1>2, <1>3, <1>4, <1>5, <1>6, <1>7 DEF Next

\* The initial state satisfies the inductive invariant.
LEMMA Initially == ASSUME Init PROVE IInv
BY SlotAssumption
   DEF Init, IInv, TypeOK, OneArmed, Spent, Armed, Claim, NoClaim

\* A step in which an execution k of t moves from one armed place to another
\* changes nothing that matters.
LEMMA ArmedMove ==
    ASSUME IInv, NEW t \in Timer, NEW k \in Claim, NEW l,
           Armed(t, k), exec' = [exec EXCEPT ![t][k] = l], UNCHANGED <<status, fired>>
    PROVE  (OneArmed /\ Spent)'
BY SlotAssumption DEF IInv, TypeOK, OneArmed, Spent, Armed, Claim

\* Nor does one in which an execution is disarmed, whatever becomes of the
\* timer that has not gone off.
LEMMA Disarm ==
    ASSUME IInv, NEW t \in Timer, NEW k \in Claim, NEW s,
           Armed(t, k), exec' = [exec EXCEPT ![t][k] = "none"],
           status' = [status EXCEPT ![t] = s], UNCHANGED fired
    PROVE  (OneArmed /\ Spent)'
BY SlotAssumption DEF IInv, TypeOK, OneArmed, Spent, Armed, Claim

\* Every step keeps the two halves of the invariant.
LEMMA SafeStep == ASSUME IInv, [Next]_vars PROVE (OneArmed /\ Spent)'
<1>1. ASSUME NEW t \in Timer, BecomeDue(t) PROVE (OneArmed /\ Spent)'
  BY <1>1 DEF BecomeDue, IInv, OneArmed, Spent, Armed, row, past
<1>2. ASSUME NEW t \in Timer, ClaimDue(t) PROVE (OneArmed /\ Spent)'
  <2>1. PICK k \in Claim : /\ exec[t][k] = "none"
                           /\ exec' = [exec EXCEPT ![t][k] = "started"]
                           /\ status' = [status EXCEPT ![t] = "running"]
    BY <1>2 DEF ClaimDue
  <2>2. status[t] = "pending"
    BY <1>2 DEF ClaimDue, Claimable
  <2>3. \A l \in Claim : ~Armed(t, l)
    BY <2>2 DEF IInv, OneArmed
  <2>4. fired[t] = 0
    BY <2>2 DEF IInv, TypeOK, Spent
  <2> QED BY <1>2, <2>1, <2>2, <2>3, <2>4
             DEF ClaimDue, IInv, TypeOK, OneArmed, Spent, Armed, past
<1>3. ASSUME NEW t \in Timer, NEW k \in Claim, Execute(t, k)
      PROVE  (OneArmed /\ Spent)'
  <2> USE DEF Goto, row, past
  <2>1. CASE Verify(t, k)
    <3>1. CASE Holds(t, k)
      <4>1. Armed(t, k) /\ UNCHANGED <<status, fired>> /\ exec' = [exec EXCEPT ![t][k] = "verified"]
        BY <2>1, <3>1 DEF Verify, Armed
      <4> QED BY <4>1, ArmedMove
    <3>2. CASE ~Holds(t, k)
      BY <2>1, <3>2 DEF Verify, IInv, TypeOK, OneArmed, Spent, Armed
    <3> QED BY <3>1, <3>2
  <2>2. CASE Refuse(t, k)
    <3>1. /\ Armed(t, k) /\ UNCHANGED fired
          /\ exec' = [exec EXCEPT ![t][k] = "none"]
          /\ status' = [status EXCEPT ![t] = "error"]
      BY <2>2 DEF Refuse, Armed
    <3> QED BY <3>1, Disarm
  <2>3. CASE CheckBusy(t, k)
    BY <2>3, ArmedMove DEF CheckBusy, Armed
  <2>4. CASE Requeue(t, k)
    <3>1. /\ Armed(t, k) /\ UNCHANGED fired
          /\ exec' = [exec EXCEPT ![t][k] = "none"]
          /\ status' = [status EXCEPT ![t] = PutBack(t)]
      BY <2>4 DEF Requeue, Armed
    <3> QED BY <3>1, Disarm
  <2>5. CASE Fire(t, k)
    <3>1. fired[t] = 0 /\ \A l \in Claim : Armed(t, l) => l = k
      BY <2>5 DEF Fire, IInv, OneArmed, Spent, Armed
    <3> QED BY <2>5, <3>1 DEF Fire, IInv, TypeOK, OneArmed, Spent, Armed
  <2>6. CASE Respond(t, k)
    BY <2>6 DEF Respond, IInv, TypeOK, OneArmed, Spent, Armed
  <2>7. CASE RespondFails(t, k)
    BY <2>7 DEF RespondFails, IInv, TypeOK, OneArmed, Spent, Armed
  <2> QED BY <1>3, <2>1, <2>2, <2>3, <2>4, <2>5, <2>6, <2>7 DEF Execute
<1>4. ASSUME NEW t \in Timer, NEW k \in Claim, Die(t, k) PROVE (OneArmed /\ Spent)'
  BY <1>4 DEF Die, Goto, row, IInv, TypeOK, OneArmed, Spent, Armed
<1>5. ASSUME NEW v \in Visitor, Visit(v) PROVE (OneArmed /\ Spent)'
  <2>1. CASE VisitRead(v)
    BY <2>1 DEF VisitRead, IInv, OneArmed, Spent, Armed, row, past
  <2>2. CASE VisitWrite(v)
    BY <2>2 DEF VisitWrite, IInv, TypeOK, OneArmed, Spent, Armed
  <2>3. CASE Ask(v)
    BY <2>3 DEF Ask, IInv, OneArmed, Spent, Armed, row, past
  <2> QED BY <1>5, <2>1, <2>2, <2>3 DEF Visit
<1>6. CASE EndReply
  BY <1>6 DEF EndReply, IInv, OneArmed, Spent, Armed, row, past
<1>7. CASE UNCHANGED vars
  BY <1>7 DEF vars, IInv, OneArmed, Spent, Armed, row, past
<1> QED BY <1>1, <1>2, <1>3, <1>4, <1>5, <1>6, <1>7 DEF Next

\* The inductive invariant of every execution of the timers.
THEOREM Invariance == Spec => []IInv
<1>1. Init => IInv
  BY Initially
<1>2. IInv /\ [Next]_vars => IInv'
  BY TypeStep, SafeStep DEF IInv
<1> QED BY <1>1, <1>2, PTL DEF Spec

\* Every variable keeps its type.
THEOREM TypeCorrect == Spec => []TypeOK
<1>1. IInv => TypeOK
  BY DEF IInv
<1> QED BY <1>1, Invariance, PTL

\* However polls, re-queueing, deaths and cancellations interleave, the prompt
\* of a timer is appended to the chat at most once.
THEOREM FiredOnce == Spec => []FiresOnce
<1>1. IInv => FiresOnce
  BY DEF IInv, Spent, FiresOnce
<1> QED BY <1>1, Invariance, PTL

\* A timer that has gone off is neither put back nor claimed by any step.
THEOREM NeverRearmed == Spec => StaysFired
<1> DEFINE Stays == \A t \in Timer : fired[t] > 0 => status'[t] \notin {"pending", "running"}
<1>1. IInv /\ IInv' /\ [Next]_vars => [Stays]_vars
  <2> SUFFICES ASSUME IInv, IInv', [Next]_vars, NEW t \in Timer, fired[t] > 0
               PROVE  fired'[t] > 0
    BY DEF IInv, Spent
  <2>1. UNCHANGED fired \/ \E u \in Timer, k \in Claim : Fire(u, k)
    BY DEF Next, Execute, Visit, BecomeDue, ClaimDue, Verify, Refuse, CheckBusy, Requeue,
           Respond, RespondFails, Die, VisitRead, VisitWrite, Ask, EndReply, vars, past
  <2>2. ASSUME NEW u \in Timer, NEW k \in Claim, Fire(u, k) PROVE fired'[t] > 0
    BY <2>2 DEF Fire, IInv, TypeOK
  <2> QED BY <2>1, <2>2
<1> QED BY <1>1, Invariance, PTL DEF Spec, StaysFired
=============================================================================
