-------------------------- MODULE SubagentsProofs --------------------------
(* Proofs about Subagents, for any agents, responses, processes and limits. *)
EXTENDS Subagents, FiniteSetTheorems, TLAPS

\* A result is claimed once, by one courier, before it is given.
Results ==
    \A a \in Agent :
      /\ pc[a] \in {"none", "creating", "working", "reporting", "storing"} => result[a] = "none"
      /\ given[a] <= 1
      /\ given[a] = 1 => result[a] = "claimed"
      /\ \A c \in Courier :
           a \in batch[c] => given[a] = 0 /\ result[a] = "claimed" /\ pc[c] = "starting"
      /\ \A c, d \in Courier : a \in batch[c] /\ a \in batch[d] => c = d

\* The chat's lock of a process is held where it is needed ...
Holding == {"storing", "inside", "claiming", "starting"}
Locks == \A c \in Courier : pc[c] \in Holding => lock[home[c]] = c

\* ... and who has found the chat idle under the lock keeps out other responses
\* to results, until it starts one.
Followups ==
    /\ \A r \in auto : pc[r] # "none"
    /\ \A r \in auto, c \in Courier :
         pc[r] = "answering" /\ pc[c] \in {"claiming", "starting"} => home[r] # home[c]
    /\ OneFollowUp

\* A process never takes a slot for a delegation that is in disorder.
Slots ==
    /\ \A a \in stray : pc[a] # "none"
    /\ SlotsMatchWork

IInv == TypeOK /\ Results /\ Locks /\ Followups /\ Slots

-----------------------------------------------------------------------------
(* Slots.                                                                  *)

\* Any set of agents is finite.
LEMMA AgentsFinite == ASSUME NEW S, S \subseteq Agent PROVE IsFiniteSet(S) /\ Cardinality(S) \in Nat
BY AgentAssumption, FS_Subset, FS_CardinalityType

\* Taking a slot keeps the limits.
LEMMA TakeType ==
    ASSUME TypeOK, NEW a \in Agent, NEW i \in Instance, HasSlot(a, i), Take(a, i)
    PROVE  /\ active' \in [Instance -> {S \in SUBSET Background : Cardinality(S) <= MaxAsync}]
           /\ free' \in [Instance -> Nat]
<1>1. CASE a \in Background
  <2>1. active[i] \in SUBSET Background /\ Cardinality(active[i]) < MaxAsync
    BY <1>1 DEF TypeOK, HasSlot
  <2>2. IsFiniteSet(active[i]) /\ Cardinality(active[i]) \in Nat
    BY <2>1, AgentAssumption, AgentsFinite
  <2>3. Cardinality(active[i] \cup {a})
          = IF a \in active[i] THEN Cardinality(active[i]) ELSE Cardinality(active[i]) + 1
    BY <2>2, FS_AddElement
  <2>4. Cardinality(active[i] \cup {a}) <= MaxAsync
    BY <2>1, <2>2, <2>3, CapacityAssumption
  <2>5. /\ active' = [active EXCEPT ![i] = active[i] \cup {a}]
        /\ free' = free
    BY <1>1 DEF Take
  <2> QED BY <1>1, <2>1, <2>4, <2>5 DEF TypeOK
<1>2. CASE a \notin Background
  BY <1>2 DEF Take, TypeOK, HasSlot
<1> QED BY <1>1, <1>2

\* So does giving one back.
LEMMA GiveBackType ==
    ASSUME TypeOK, NEW a \in Agent, GiveBack(a)
    PROVE  /\ active' \in [Instance -> {S \in SUBSET Background : Cardinality(S) <= MaxAsync}]
           /\ free' \in [Instance -> Nat]
<1>1. CASE a \in Background
  <2> DEFINE A == active[home[a]]
  <2>1. A \in SUBSET Background /\ Cardinality(A) <= MaxAsync /\ home[a] \in Instance
    BY DEF TypeOK, Courier
  <2>2. Cardinality(A \ {a}) <= Cardinality(A)
    BY <2>1, AgentAssumption, AgentsFinite, FS_Subset
  <2>3. Cardinality(A) \in Nat /\ Cardinality(A \ {a}) \in Nat
    BY <2>1, AgentAssumption, AgentsFinite
  <2>4. Cardinality(A \ {a}) <= MaxAsync
    BY <2>1, <2>2, <2>3, CapacityAssumption
  <2>5. /\ active' = [active EXCEPT ![home[a]] = A \ {a}]
        /\ free' = free
    BY <1>1 DEF GiveBack
  <2> HIDE DEF A
  <2> QED BY <2>1, <2>4, <2>5 DEF TypeOK
<1>2. CASE a \notin Background
  BY <1>2 DEF GiveBack, TypeOK, Courier
<1> QED BY <1>1, <1>2

\* Steps after which the same agents are at work, in the same processes.
LEMMA SameWork ==
    ASSUME Slots, UNCHANGED <<slots, stray>>,
           \A a \in Agent :
             /\ home'[a] = home[a]
             /\ pc'[a] \in {"creating", "working"} <=> pc[a] \in {"creating", "working"}
             /\ pc'[a] = "none" => pc[a] = "none",
           stray \subseteq Agent
    PROVE  Slots'
<1>1. \A i \in Instance : AtWork(i)' = AtWork(i)
  BY DEF AtWork
<1> QED BY <1>1 DEF Slots, SlotsMatchWork, slots

\* An agent stops working and gives its slot back.
LEMMA LessWork ==
    ASSUME TypeOK, Slots, UNCHANGED <<home, stray>>,
           NEW a \in Agent, pc[a] \in {"creating", "working"}, GiveBack(a),
           NEW l, l \notin {"none", "creating", "working"}, pc' = [pc EXCEPT ![a] = l]
    PROVE  Slots'
<1>1. \A b \in stray' : pc'[b] # "none"
  BY DEF Slots, TypeOK, Courier
<1>2. ASSUME NEW i \in Instance, \A b \in stray : home[b] # i
      PROVE  /\ active'[i] = AtWork(i)' \cap Background
             /\ free'[i] = MaxConcurrent - Cardinality(AtWork(i)' \ Background)
  <2>1. /\ active[i] = AtWork(i) \cap Background
        /\ free[i] = MaxConcurrent - Cardinality(AtWork(i) \ Background)
    BY <1>2 DEF Slots, SlotsMatchWork
  <2>2. AtWork(i)' = IF home[a] = i THEN AtWork(i) \ {a} ELSE AtWork(i)
    BY DEF AtWork, TypeOK, Courier
  <2>3. CASE home[a] # i
    BY <2>1, <2>2, <2>3 DEF GiveBack, TypeOK, Courier
  <2>4. CASE home[a] = i /\ a \in Background
    <3>1. AtWork(i)' = AtWork(i) \ {a}
      BY <2>2, <2>4
    <3>2. active'[i] = active[i] \ {a} /\ free' = free
      BY <2>4 DEF GiveBack, TypeOK, Courier
    <3>3. AtWork(i)' \ Background = AtWork(i) \ Background
      BY <2>4, <3>1
    <3>4. active'[i] = AtWork(i)' \cap Background
      BY <2>1, <3>1, <3>2
    <3>5. Cardinality(AtWork(i)' \ Background) = Cardinality(AtWork(i) \ Background)
      BY <3>3
    <3> QED BY <2>1, <3>2, <3>4, <3>5
  <2>5. CASE home[a] = i /\ a \notin Background
    <3> DEFINE F == AtWork(i) \ Background
    <3>1. F \subseteq Agent /\ a \in F /\ AtWork(i)' \ Background = F \ {a}
      BY <2>2, <2>5 DEF AtWork
    <3>2. Cardinality(F \ {a}) = Cardinality(F) - 1 /\ Cardinality(F) \in Nat
      BY <3>1, AgentsFinite, FS_RemoveElement
    <3>3. free'[i] = free[i] + 1 /\ active' = active
      BY <2>5 DEF GiveBack, TypeOK, Courier
    <3>4. AtWork(i)' \cap Background = AtWork(i) \cap Background
      BY <2>2, <2>5
    <3>5. free[i] = MaxConcurrent - Cardinality(F)
      BY <2>1
    <3> HIDE DEF F
    <3>6. free'[i] = MaxConcurrent - Cardinality(F \ {a})
      BY <3>2, <3>3, <3>5, CapacityAssumption
    <3>7. Cardinality(AtWork(i)' \ Background) = Cardinality(F \ {a})
      BY <3>1
    <3>8. free'[i] = MaxConcurrent - Cardinality(AtWork(i)' \ Background)
      BY <3>6, <3>7
    <3>9. active'[i] = AtWork(i)' \cap Background
      BY <2>1, <3>3, <3>4
    <3> QED BY <3>8, <3>9
  <2> QED BY <2>3, <2>4, <2>5
<1> QED BY <1>1, <1>2 DEF Slots, SlotsMatchWork

\* An agent takes a slot and is at work.
LEMMA MoreWork ==
    ASSUME TypeOK, Slots, UNCHANGED stray,
           NEW a \in Agent, pc[a] = "none", NEW j \in Instance, Take(a, j),
           home' = [home EXCEPT ![a] = j], pc' = [pc EXCEPT ![a] = "creating"]
    PROVE  Slots'
<1>1. a \notin stray /\ \A b \in stray' : pc'[b] # "none" /\ home'[b] = home[b]
  BY DEF Slots, TypeOK, Courier
<1>2. ASSUME NEW i \in Instance, \A b \in stray : home[b] # i
      PROVE  /\ active'[i] = AtWork(i)' \cap Background
             /\ free'[i] = MaxConcurrent - Cardinality(AtWork(i)' \ Background)
  <2>1. /\ active[i] = AtWork(i) \cap Background
        /\ free[i] = MaxConcurrent - Cardinality(AtWork(i) \ Background)
    BY <1>2 DEF Slots, SlotsMatchWork
  <2>2. /\ AtWork(i)' = IF i = j THEN AtWork(i) \cup {a} ELSE AtWork(i)
        /\ a \notin AtWork(i)
    BY DEF AtWork, TypeOK, Courier
  <2>3. CASE i # j
    BY <2>1, <2>2, <2>3 DEF Take, TypeOK
  <2>4. CASE i = j /\ a \in Background
    <3>1. active'[i] = active[i] \cup {a} /\ free' = free
      BY <2>4 DEF Take, TypeOK
    <3>2. active'[i] = AtWork(i)' \cap Background
      BY <2>1, <2>2, <2>4, <3>1
    <3>3. AtWork(i)' \ Background = AtWork(i) \ Background
      BY <2>2, <2>4
    <3>4. Cardinality(AtWork(i)' \ Background) = Cardinality(AtWork(i) \ Background)
      BY <3>3
    <3> QED BY <2>1, <3>1, <3>2, <3>4
  <2>5. CASE i = j /\ a \notin Background
    <3> DEFINE F == AtWork(i) \ Background
    <3>1. F \subseteq Agent /\ a \notin F /\ AtWork(i)' \ Background = F \cup {a}
      BY <2>2, <2>5 DEF AtWork
    <3>2. IsFiniteSet(F) /\ Cardinality(F) \in Nat
      BY <3>1, AgentsFinite
    <3>3. Cardinality(F \cup {a}) = Cardinality(F) + 1
      BY <3>1, <3>2, FS_AddElement
    <3>4. free'[i] = free[i] - 1 /\ active' = active
      BY <2>5 DEF Take, TypeOK
    <3>5. active'[i] = AtWork(i)' \cap Background
      BY <2>1, <2>2, <2>5, <3>4
    <3>6. Cardinality(AtWork(i)' \ Background) = Cardinality(F \cup {a})
      BY <3>1
    <3>7. free[i] = MaxConcurrent - Cardinality(F)
      BY <2>1
    <3> HIDE DEF F
    <3>8. free'[i] = MaxConcurrent - Cardinality(AtWork(i)' \ Background)
      BY <3>2, <3>3, <3>4, <3>6, <3>7, CapacityAssumption
    <3> QED BY <3>5, <3>8
  <2> QED BY <2>3, <2>4, <2>5
<1> QED BY <1>1, <1>2 DEF Slots, SlotsMatchWork

-----------------------------------------------------------------------------
(* Types.                                                                  *)

\* The initial state satisfies the inductive invariant.
LEMMA Initially == ASSUME Init PROVE IInv
<1> USE DEF Init, Courier
<1>1. TypeOK
  <2>1. Cardinality({}) = 0
    BY FS_EmptySet
  <2> DEFINE first == CHOOSE i \in Instance : TRUE
  <2>2. first \in Instance
    BY InstanceAssumption
  <2>3. home = [c \in Courier |-> first]
    OBVIOUS
  <2> HIDE DEF first
  <2>4. home \in [Courier -> Instance]
    BY <2>2, <2>3
  <2>5. active \in [Instance -> {S \in SUBSET Background : Cardinality(S) <= MaxAsync}]
    BY <2>1, CapacityAssumption
  <2>6. /\ pc \in [Courier -> Place]
        /\ by \in [Agent -> Response \cup {None}]
        /\ free \in [Instance -> Nat]
        /\ lock \in [Instance -> Courier \cup {None}]
    BY CapacityAssumption DEF Place
  <2>7. /\ result \in [Agent -> {"none", "waiting", "claimed"}]
        /\ batch \in [Courier -> SUBSET Background]
        /\ given \in [Agent -> 0..2]
        /\ auto \subseteq Response
        /\ stray \subseteq Agent
    OBVIOUS
  <2>8. failed \in BOOLEAN
    OBVIOUS
  <2> QED BY <2>4, <2>5, <2>6, <2>7, <2>8 DEF TypeOK
<1>2. Results /\ Locks /\ Followups
  BY CourierAssumption DEF Results, Locks, Holding, Followups, OneFollowUp
<1>3. Slots
  <2>1. \A i \in Instance : AtWork(i) = {}
    BY DEF AtWork
  <2>2. Cardinality({}) = 0
    BY FS_EmptySet
  <2>3. ASSUME NEW i \in Instance
        PROVE  /\ active[i] = AtWork(i) \cap Background
               /\ free[i] = MaxConcurrent - Cardinality(AtWork(i) \ Background)
    <3>1. AtWork(i) \ Background = {} /\ AtWork(i) \cap Background = {}
      BY <2>1
    <3>2. Cardinality(AtWork(i) \ Background) = 0
      BY <2>2, <3>1
    <3> QED BY <3>1, <3>2, CapacityAssumption
  <2> QED BY <2>3 DEF Slots, SlotsMatchWork
<1> QED BY <1>1, <1>2, <1>3 DEF IInv

\* Every variable keeps its type.
LEMMA TypeStep == ASSUME TypeOK, [Next]_vars PROVE TypeOK'
<1> USE DEF Courier, Place, Delivering, Goto, Unlock, past
<1>1. ASSUME NEW r \in Response, Ask(r) PROVE TypeOK'
  BY <1>1 DEF TypeOK, Ask, slots
<1>2. ASSUME NEW r \in Response, EndAnswer(r) PROVE TypeOK'
  BY <1>2 DEF TypeOK, EndAnswer, AfterAnswer, slots
<1>3. ASSUME NEW r \in Response, Stop(r) PROVE TypeOK'
  BY <1>3 DEF TypeOK, Stop, AfterAnswer, slots
<1>4. ASSUME NEW r \in Response, NEW a \in Agent, Delegate(a, r) PROVE TypeOK'
  <2>1. home[r] \in Instance
    BY DEF TypeOK
  <2>2. /\ active' \in [Instance -> {S \in SUBSET Background : Cardinality(S) <= MaxAsync}]
        /\ free' \in [Instance -> Nat]
    BY <1>4, <2>1, TakeType DEF Delegate
  <2> QED BY <1>4, <2>1, <2>2 DEF TypeOK, Delegate
<1>5. ASSUME NEW a \in Agent, CreateFails(a) \/ LaunchFails(a) \/ Finish(a) PROVE TypeOK'
  <2>1. /\ active' \in [Instance -> {S \in SUBSET Background : Cardinality(S) <= MaxAsync}]
        /\ free' \in [Instance -> Nat]
    BY <1>5, GiveBackType DEF CreateFails, ReleaseUncreated, LaunchFails, Finish
  <2>2. CASE CreateFails(a)
    BY <2>1, <2>2 DEF TypeOK, CreateFails
  <2>3. CASE LaunchFails(a)
    BY <2>1, <2>3 DEF TypeOK, LaunchFails
  <2>4. CASE Finish(a)
    BY <2>1, <2>4 DEF TypeOK, Finish
  <2> QED BY <1>5, <2>2, <2>3, <2>4
<1>6. ASSUME NEW a \in Agent, Launch(a) PROVE TypeOK'
  BY <1>6 DEF TypeOK, Launch, slots
<1>7. ASSUME NEW a \in Agent, LockToStore(a) PROVE TypeOK'
  BY <1>7 DEF TypeOK, LockToStore, slots
<1>8. ASSUME NEW a \in Agent, Store(a) PROVE TypeOK'
  BY <1>8 DEF TypeOK, Store, slots
<1>9. ASSUME NEW c \in Courier, Deliver(c) PROVE TypeOK'
  <2>1. CASE Look(c) \/ Poll(c)
    BY <2>1 DEF TypeOK, Look, Poll, slots
  <2>2. CASE LockToClaim(c)
    BY <2>2 DEF TypeOK, LockToClaim, slots
  <2>3. CASE LookAgain(c)
    BY <2>3 DEF TypeOK, LookAgain, slots
  <2>4. CASE Claim(c)
    BY <2>4 DEF TypeOK, Claim, Batches, Waiting, Taken, slots
  <2>5. CASE RespondFails(c)
    BY <2>5 DEF TypeOK, RespondFails, slots
  <2>6. ASSUME NEW r \in Response, Respond(c, r) PROVE TypeOK'
    BY <2>6 DEF TypeOK, Respond, slots
  <2> QED BY <1>9, <2>1, <2>2, <2>3, <2>4, <2>5, <2>6 DEF Deliver
<1>10. ASSUME NEW c \in Courier, Cancel(c) PROVE TypeOK'
  BY <1>10 DEF TypeOK, Cancel, LeaveLock, slots
<1>11. ASSUME NEW i \in Instance, Crash(i) PROVE TypeOK'
  <2>1. Cardinality({}) <= MaxAsync
    BY FS_EmptySet, CapacityAssumption
  <2> QED BY <1>11, <2>1, CapacityAssumption DEF TypeOK, Crash
<1>12. CASE UNCHANGED vars
  BY <1>12 DEF TypeOK, vars, slots
<1> QED
  BY <1>1, <1>2, <1>3, <1>4, <1>5, <1>6, <1>7, <1>8, <1>9, <1>10, <1>11, <1>12
     DEF Next, Work
-----------------------------------------------------------------------------
(* Results.                                                                *)

\* Steps of a courier c that leave the results alone and do not take it to
\* where an agent's result must be missing.
LEMMA SameResults ==
    ASSUME TypeOK, Results, UNCHANGED <<result, batch, given>>,
           NEW c \in Courier, pc[c] # "starting", NEW l, pc' = [pc EXCEPT ![c] = l],
           l \in {"none", "creating", "working", "reporting", "storing"} =>
             pc[c] \in {"none", "creating", "working", "reporting", "storing"}
    PROVE  Results'
BY DEF TypeOK, Results, Courier

\* Every step keeps it that a result is claimed once and given once.
LEMMA ResultsStep == ASSUME TypeOK, Results, [Next]_vars PROVE Results'
<1> USE DEF Courier, past
<1>1. ASSUME NEW r \in Response, Ask(r) \/ EndAnswer(r) PROVE Results'
  <2> PICK l \in {"answering", "looking"} : pc' = [pc EXCEPT ![r] = l]
    BY <1>1 DEF Ask, EndAnswer, AfterAnswer, Goto
  <2> QED BY <1>1, SameResults DEF Ask, EndAnswer, Fresh
<1>2. ASSUME NEW r \in Response, Stop(r) PROVE Results'
  BY <1>2, CourierAssumption DEF TypeOK, Results, Stop, AfterAnswer
<1>3. ASSUME NEW r \in Response, NEW a \in Agent, Delegate(a, r) PROVE Results'
  BY <1>3, SameResults DEF Delegate, Goto
<1>4. ASSUME NEW a \in Agent, Work(a) PROVE Results'
  <2>1. CASE CreateFails(a)
    BY <2>1, SameResults DEF CreateFails, Goto
  <2>2. CASE Launch(a)
    BY <2>2, SameResults DEF Launch, Goto
  <2>3. CASE LaunchFails(a)
    BY <2>3, SameResults DEF LaunchFails, Goto
  <2>4. CASE Finish(a)
    BY <2>4, SameResults DEF Finish, Goto
  <2> QED BY <1>4, <2>1, <2>2, <2>3, <2>4 DEF Work
<1>5. ASSUME NEW a \in Agent, LockToStore(a) PROVE Results'
  BY <1>5, SameResults DEF LockToStore, Goto
<1>6. ASSUME NEW a \in Agent, Store(a) PROVE Results'
  BY <1>6 DEF TypeOK, Results, Store, Goto
<1>7. ASSUME NEW c \in Courier, Deliver(c) PROVE Results'
  <2>1. CASE Look(c) \/ Poll(c) \/ LockToClaim(c)
    <3> PICK l \in {"over", "polling", "entering", "inside"} : pc' = [pc EXCEPT ![c] = l]
      BY <2>1 DEF Look, Poll, LockToClaim, Goto
    <3> QED BY <2>1, SameResults DEF Look, Poll, LockToClaim
  <2>2. CASE LookAgain(c)
    <3> PICK l \in {"claiming", "over"} : pc' = [pc EXCEPT ![c] = l]
      BY <2>2 DEF LookAgain, Goto
    <3> QED BY <2>2, SameResults DEF LookAgain
  <2>3. CASE Claim(c)
    <3>1. CASE UNCHANGED <<result, batch>>
      <4> PICK l \in {"starting", "over"} : pc' = [pc EXCEPT ![c] = l]
        BY <2>3 DEF Claim, Goto
      <4> QED BY <2>3, <3>1, SameResults DEF Claim
    <3>2. ASSUME NEW B \in Batches,
                 batch' = [batch EXCEPT ![c] = B],
                 result' = [a \in Agent |-> IF a \in B THEN Taken(a) ELSE result[a]],
                 Goto(c, "starting")
          PROVE  Results'
      <4>1. \A a \in B : result[a] = "waiting"
        BY <3>2 DEF Batches, Waiting
      <4>2. pc[c] = "claiming" /\ given' = given
        BY <2>3 DEF Claim
      <4> QED BY <3>2, <4>1, <4>2 DEF TypeOK, Results, Goto, Taken
    <3> QED BY <2>3, <3>1, <3>2 DEF Claim
  <2>4. ASSUME NEW r \in Response, Respond(c, r) PROVE Results'
    BY <2>4, CourierAssumption DEF TypeOK, Results, Respond, Fresh
  <2>5. CASE RespondFails(c)
    BY <2>5 DEF TypeOK, Results, RespondFails, Goto
  <2> QED BY <1>7, <2>1, <2>2, <2>3, <2>4, <2>5 DEF Deliver
<1>8. ASSUME NEW c \in Courier, Cancel(c) PROVE Results'
  BY <1>8 DEF TypeOK, Results, Cancel, Goto
<1>9. ASSUME NEW i \in Instance, Crash(i) PROVE Results'
  BY <1>9 DEF TypeOK, Results, Crash
<1>10. CASE UNCHANGED vars
  BY <1>10 DEF Results, vars
<1> QED BY <1>1, <1>2, <1>3, <1>4, <1>5, <1>6, <1>7, <1>8, <1>9, <1>10 DEF Next
-----------------------------------------------------------------------------
(* Locks and responses to results.                                         *)

\* The holder of the lock of a process is the only one in need of it.
LEMMA OneHolder ==
    ASSUME Locks, NEW c \in Courier, NEW d \in Courier, pc[c] \in Holding, pc[d] \in Holding,
           home[c] = home[d]
    PROVE  c = d
BY DEF Locks

\* Every step keeps it that the lock is held where it is needed.
LEMMA LocksStep == ASSUME TypeOK, Locks, [Next]_vars PROVE Locks'
<1> USE CourierAssumption DEF Courier, Goto, Unlock, Holding, past
<1>1. ASSUME NEW r \in Response, Ask(r) \/ EndAnswer(r) \/ Stop(r) PROVE Locks'
  BY <1>1 DEF TypeOK, Locks, Ask, EndAnswer, Stop, AfterAnswer, Fresh
<1>2. ASSUME NEW r \in Response, NEW a \in Agent, Delegate(a, r) PROVE Locks'
  BY <1>2 DEF TypeOK, Locks, Delegate
<1>3. ASSUME NEW a \in Agent, Work(a) PROVE Locks'
  BY <1>3 DEF TypeOK, Locks, Work, CreateFails, Launch, LaunchFails, Finish
<1>4. ASSUME NEW a \in Agent, LockToStore(a) PROVE Locks'
  BY <1>4 DEF TypeOK, Locks, LockToStore, Unlocked
<1>5. ASSUME NEW a \in Agent, Store(a) PROVE Locks'
  BY <1>5 DEF TypeOK, Locks, Store
<1>6. ASSUME NEW c \in Courier, Deliver(c) PROVE Locks'
  <2>1. CASE Look(c) \/ Poll(c)
    BY <2>1 DEF TypeOK, Locks, Look, Poll
  <2>2. CASE LockToClaim(c)
    BY <2>2 DEF TypeOK, Locks, LockToClaim, Unlocked
  <2>3. CASE LookAgain(c)
    BY <2>3 DEF TypeOK, Locks, LookAgain
  <2>4. CASE Claim(c)
    <3>1. pc[c] = "claiming" /\ home' = home
      BY <2>4 DEF Claim
    <3>2. CASE Goto(c, "over") /\ Unlock(c)
      BY <3>1, <3>2 DEF TypeOK, Locks
    <3>3. CASE Goto(c, "starting") /\ lock' = lock
      BY <3>1, <3>3 DEF TypeOK, Locks
    <3> QED BY <2>4, <3>2, <3>3 DEF Claim
  <2>5. ASSUME NEW r \in Response, Respond(c, r) PROVE Locks'
    BY <2>5 DEF TypeOK, Locks, Respond, Fresh
  <2>6. CASE RespondFails(c)
    BY <2>6 DEF TypeOK, Locks, RespondFails
  <2> QED BY <1>6, <2>1, <2>2, <2>3, <2>4, <2>5, <2>6 DEF Deliver
<1>7. ASSUME NEW c \in Courier, Cancel(c) PROVE Locks'
  BY <1>7 DEF TypeOK, Locks, Cancel, LeaveLock
<1>8. ASSUME NEW i \in Instance, Crash(i) PROVE Locks'
  BY <1>8 DEF TypeOK, Locks, Crash
<1>9. CASE UNCHANGED vars
  BY <1>9 DEF Locks, vars
<1> QED BY <1>1, <1>2, <1>3, <1>4, <1>5, <1>6, <1>7, <1>8, <1>9 DEF Next

\* Every step keeps responses to results apart.
LEMMA FollowupsStep == ASSUME TypeOK, Locks, Followups, [Next]_vars PROVE Followups'
<1> USE CourierAssumption DEF Courier, Goto, past
<1>1. ASSUME NEW r \in Response, Ask(r) \/ EndAnswer(r) \/ Stop(r) PROVE Followups'
  <2>1. CASE Ask(r)
    BY <2>1 DEF TypeOK, Followups, OneFollowUp, Ask, Fresh
  <2>2. CASE EndAnswer(r)
    BY <2>2 DEF TypeOK, Followups, OneFollowUp, EndAnswer, AfterAnswer
  <2>3. CASE Stop(r)
    BY <2>3 DEF TypeOK, Followups, OneFollowUp, Stop, AfterAnswer
  <2> QED BY <1>1, <2>1, <2>2, <2>3
<1>2. ASSUME NEW r \in Response, NEW a \in Agent, Delegate(a, r) PROVE Followups'
  BY <1>2 DEF TypeOK, Followups, OneFollowUp, Delegate
<1>3. ASSUME NEW a \in Agent, Work(a) PROVE Followups'
  BY <1>3 DEF TypeOK, Followups, OneFollowUp, Work, CreateFails, Launch, LaunchFails, Finish
<1>4. ASSUME NEW a \in Agent, LockToStore(a) \/ Store(a) PROVE Followups'
  BY <1>4 DEF TypeOK, Followups, OneFollowUp, LockToStore, Store
<1>5. ASSUME NEW c \in Courier, Deliver(c) PROVE Followups'
  <2>1. CASE Look(c) \/ Poll(c) \/ LockToClaim(c)
    BY <2>1 DEF TypeOK, Followups, OneFollowUp, Look, Poll, LockToClaim
  <2>2. CASE LookAgain(c)
    <3>1. CASE GoOn
      <4>1. \A r \in Response : pc[r] # "answering"
        BY <3>1 DEF GoOn, Busy
      <4> QED BY <2>2, <3>1, <4>1 DEF TypeOK, Followups, OneFollowUp, LookAgain
    <3>2. CASE ~GoOn
      BY <2>2, <3>2 DEF TypeOK, Followups, OneFollowUp, LookAgain
    <3> QED BY <3>1, <3>2
  <2>3. CASE Claim(c)
    <3>1. /\ pc[c] = "claiming" /\ UNCHANGED <<home, auto>>
          /\ Goto(c, "over") \/ Goto(c, "starting")
      BY <2>3 DEF Claim
    <3> QED BY <3>1 DEF TypeOK, Followups, OneFollowUp
  <2>4. ASSUME NEW r \in Response, Respond(c, r) PROVE Followups'
    <3>1. /\ r \notin auto /\ r # c /\ pc[r] = "none" /\ pc[c] = "starting"
          /\ pc' = [pc EXCEPT ![c] = "over", ![r] = "answering"]
          /\ home' = [home EXCEPT ![r] = home[c]]
          /\ auto' = auto \cup {r}
      BY <2>4 DEF Respond, Fresh, Followups
    <3>2. \A q \in auto : pc[q] = "answering" => home[q] # home[c]
      BY <3>1 DEF Followups
    <3>3. \A d \in Courier : d # c /\ pc[d] \in {"claiming", "starting"} => home[d] # home[c]
      BY <3>1, OneHolder DEF Holding
    <3> QED BY <3>1, <3>2, <3>3 DEF TypeOK, Followups, OneFollowUp
  <2>5. CASE RespondFails(c)
    BY <2>5 DEF TypeOK, Followups, OneFollowUp, RespondFails
  <2> QED BY <1>5, <2>1, <2>2, <2>3, <2>4, <2>5 DEF Deliver
<1>6. ASSUME NEW c \in Courier, Cancel(c) PROVE Followups'
  BY <1>6 DEF TypeOK, Followups, OneFollowUp, Cancel
<1>7. ASSUME NEW i \in Instance, Crash(i) PROVE Followups'
  BY <1>7 DEF TypeOK, Followups, OneFollowUp, Crash
<1>8. CASE UNCHANGED vars
  BY <1>8 DEF Followups, OneFollowUp, vars
<1> QED BY <1>1, <1>2, <1>3, <1>4, <1>5, <1>6, <1>7, <1>8 DEF Next
-----------------------------------------------------------------------------
(* Slots match the agents at work.                                         *)

\* Every step keeps slots and agents at work together.
LEMMA SlotsStep == ASSUME TypeOK, Slots, [Next]_vars PROVE Slots'
<1> USE CourierAssumption DEF Courier, Goto, past
<1>1. ASSUME NEW r \in Response, Ask(r) \/ EndAnswer(r) PROVE Slots'
  BY <1>1, SameWork DEF TypeOK, Ask, EndAnswer, AfterAnswer, slots
<1>2. ASSUME NEW r \in Response, Stop(r) PROVE Slots'
  <2> DEFINE creating == {a \in Agent : by[a] = r /\ pc[a] = "creating"}
  <2>1. /\ UNCHANGED <<home, slots>>
        /\ stray' = stray \cup creating
        /\ \A a \in Agent : pc'[a] = IF a \in creating THEN "over" ELSE pc[a]
    BY <1>2 DEF Stop
  <2>2. \A a \in stray' : pc'[a] # "none"
    BY <2>1 DEF Slots, TypeOK
  <2>3. ASSUME NEW i \in Instance, \A a \in stray' : home'[a] # i
        PROVE  /\ active'[i] = AtWork(i)' \cap Background
               /\ free'[i] = MaxConcurrent - Cardinality(AtWork(i)' \ Background)
    <3>1. AtWork(i)' = AtWork(i)
      BY <2>1, <2>3 DEF AtWork
    <3> QED BY <2>1, <2>3, <3>1 DEF Slots, SlotsMatchWork, slots
  <2> QED BY <2>2, <2>3 DEF Slots, SlotsMatchWork
<1>3. ASSUME NEW r \in Response, NEW a \in Agent, Delegate(a, r) PROVE Slots'
  BY <1>3, MoreWork DEF TypeOK, Delegate
<1>4. ASSUME NEW a \in Agent, CreateFails(a) \/ Finish(a) PROVE Slots'
  <2> PICK l \in {"over", "reporting"} : pc' = [pc EXCEPT ![a] = l]
    BY <1>4 DEF CreateFails, Finish
  <2> QED BY <1>4, LessWork DEF CreateFails, ReleaseUncreated, Finish
<1>5. ASSUME NEW a \in Agent, Launch(a) PROVE Slots'
  BY <1>5, SameWork DEF TypeOK, Launch, slots
<1>6. ASSUME NEW a \in Agent, LaunchFails(a) PROVE Slots'
  <2>1. /\ home' = home
        /\ stray' = stray \cup {a}
        /\ pc[a] = "creating" /\ pc' = [pc EXCEPT ![a] = "working"]
        /\ \A i \in Instance : i # home[a] => active'[i] = active[i] /\ free'[i] = free[i]
    BY <1>6 DEF LaunchFails, GiveBack, TypeOK
  <2>2. \A b \in stray' : pc'[b] # "none"
    BY <2>1 DEF Slots, TypeOK
  <2>3. ASSUME NEW i \in Instance, \A b \in stray' : home'[b] # i
        PROVE  /\ active'[i] = AtWork(i)' \cap Background
               /\ free'[i] = MaxConcurrent - Cardinality(AtWork(i)' \ Background)
    <3>1. AtWork(i)' = AtWork(i)
      BY <2>1 DEF AtWork, TypeOK
    <3> QED BY <2>1, <2>3, <3>1 DEF Slots, SlotsMatchWork
  <2> QED BY <2>2, <2>3 DEF Slots, SlotsMatchWork
<1>7. ASSUME NEW a \in Agent, LockToStore(a) \/ Store(a) PROVE Slots'
  BY <1>7, SameWork DEF TypeOK, LockToStore, Store, slots
<1>8. ASSUME NEW c \in Courier, Deliver(c) PROVE Slots'
  <2>1. CASE Look(c) \/ Poll(c) \/ LockToClaim(c) \/ LookAgain(c) \/ RespondFails(c)
    BY <2>1, SameWork DEF TypeOK, Look, Poll, LockToClaim, LookAgain, RespondFails, slots
  <2>2. CASE Claim(c)
    <3>1. /\ pc[c] = "claiming" /\ UNCHANGED <<home, slots, stray>>
          /\ Goto(c, "over") \/ Goto(c, "starting")
      BY <2>2 DEF Claim
    <3> QED BY <3>1, SameWork DEF TypeOK
  <2>3. ASSUME NEW r \in Response, Respond(c, r) PROVE Slots'
    BY <2>3, SameWork DEF TypeOK, Respond, Fresh, slots
  <2> QED BY <1>8, <2>1, <2>2, <2>3 DEF Deliver
<1>9. ASSUME NEW c \in Courier, Cancel(c) PROVE Slots'
  BY <1>9, SameWork DEF TypeOK, Cancel, Delivering, slots
<1>10. ASSUME NEW i \in Instance, Crash(i) PROVE Slots'
  <2>1. \A a \in stray' : pc'[a] # "none"
    BY <1>10 DEF Crash, Slots, TypeOK
  <2>2. ASSUME NEW j \in Instance, \A a \in stray' : home'[a] # j
        PROVE  /\ active'[j] = AtWork(j)' \cap Background
               /\ free'[j] = MaxConcurrent - Cardinality(AtWork(j)' \ Background)
    <3>1. CASE j = i
      <4>1. AtWork(j)' = {}
        BY <1>10, <3>1 DEF Crash, AtWork
      <4>2. AtWork(j)' \ Background = {} /\ AtWork(j)' \cap Background = {}
        BY <4>1
      <4>3. Cardinality(AtWork(j)' \ Background) = 0
        BY <4>2, FS_EmptySet
      <4> QED BY <1>10, <3>1, <4>2, <4>3, CapacityAssumption DEF Crash, TypeOK
    <3>2. CASE j # i
      <4>1. AtWork(j)' = AtWork(j)
        BY <1>10, <3>2 DEF Crash, AtWork
      <4> QED BY <1>10, <2>2, <3>2, <4>1 DEF Crash, TypeOK, Slots, SlotsMatchWork
    <3> QED BY <3>1, <3>2
  <2> QED BY <2>1, <2>2 DEF Slots, SlotsMatchWork
<1>11. CASE UNCHANGED vars
  <2>1. \A i \in Instance : AtWork(i)' = AtWork(i)
    BY <1>11 DEF AtWork, vars
  <2> QED BY <1>11, <2>1 DEF Slots, SlotsMatchWork, vars, slots
<1> QED
  BY <1>1, <1>2, <1>3, <1>4, <1>5, <1>6, <1>7, <1>8, <1>9, <1>10, <1>11 DEF Next, Work

-----------------------------------------------------------------------------
\* The inductive invariant of every execution.
THEOREM Invariance == Spec => []IInv
<1>1. Init => IInv
  BY Initially
<1>2. IInv /\ [Next]_vars => IInv'
  BY TypeStep, ResultsStep, LocksStep, FollowupsStep, SlotsStep DEF IInv
<1> QED BY <1>1, <1>2, PTL DEF Spec

\* Every variable keeps its type, and no process takes more slots than max_async.
THEOREM TypeCorrect == Spec => []TypeOK
<1>1. IInv => TypeOK
  BY DEF IInv
<1> QED BY <1>1, Invariance, PTL

\* Slots and agents at work agree in every process without a stray delegation:
\* delegate and run_reserved neither lose capacity nor give it back twice.
THEOREM NoLeak == Spec => []SlotsMatchWork
<1>1. IInv => SlotsMatchWork
  BY DEF IInv, Slots
<1> QED BY <1>1, Invariance, PTL

\* A background result is given to the model at most once, for any number of
\* couriers in any number of processes.
THEOREM GivesOnce == Spec => []GivenOnce
<1>1. IInv => GivenOnce
  BY DEF IInv, Results, GivenOnce
<1> QED BY <1>1, Invariance, PTL

\* The lock on the chat keeps the responses that one process starts to results
\* apart.
THEOREM FollowsUpOnce == Spec => []OneFollowUp
<1>1. IInv => OneFollowUp
  BY DEF IInv, Followups
<1> QED BY <1>1, Invariance, PTL
-----------------------------------------------------------------------------
(* The chat as a mailbox.                                                  *)

Box == [a \in Agent |-> BoxOf(a)]

\* Steps that touch no result are none of the mailbox.
LEMMA SameBox == ASSUME UNCHANGED <<result, batch, given>> PROVE Box' = Box
BY DEF Box, BoxOf, InHand

\* A result with which nothing happens stays where it is.
LEMMA SameBoxOf ==
    ASSUME NEW a \in Agent, given'[a] = given[a],
           \/ result'[a] = result[a] /\ (InHand(a)' <=> InHand(a))
           \/ result[a] = "waiting" /\ result'[a] = "claimed" /\ InHand(a)'
    PROVE  BoxOf(a)' = BoxOf(a)
BY DEF BoxOf

\* Dropping the batches of some couriers loses the results in them.
LEMMA Dropped ==
    ASSUME Results, UNCHANGED <<result, given>>, NEW D \in SUBSET Courier,
           batch' = [c \in Courier |-> IF c \in D THEN {} ELSE batch[c]]
    PROVE  Mail!Next
<1> DEFINE S == {a \in Agent : \E c \in D : a \in batch[c]}
<1>1. \A a \in S : given[a] = 0 /\ result[a] = "claimed" /\ InHand(a) /\ ~InHand(a)'
  BY DEF Results, InHand
<1>2. \A a \in Agent \ S : InHand(a)' <=> InHand(a)
  BY DEF InHand
<1>3. \A a \in S : BoxOf(a) = "waiting" /\ BoxOf(a)' = "lost"
  BY <1>1 DEF BoxOf
<1>4. \A a \in Agent \ S : BoxOf(a)' = BoxOf(a)
  BY <1>2, SameBoxOf
<1>5. Mail!Lose(S)
  BY <1>3, <1>4 DEF Mail!Lose, Mail!Is, Mail!Move
<1>6. S \in SUBSET Agent
  OBVIOUS
<1> QED BY <1>5, <1>6 DEF Mail!Next

\* A courier's batch alone.
LEMMA DroppedBatch ==
    ASSUME TypeOK, Results, UNCHANGED <<result, given>>, NEW c \in Courier,
           batch' = [batch EXCEPT ![c] = {}]
    PROVE  Mail!Next
<1>1. batch' = [d \in Courier |-> IF d \in {c} THEN {} ELSE batch[d]]
  BY DEF TypeOK
<1> QED BY <1>1, Dropped

\* Every step is one of the mailbox, or none.
LEMMA MailboxStep == ASSUME TypeOK, Results, [Next]_vars PROVE Mail!Next \/ Box' = Box
<1> USE DEF Courier, past
<1>1. ASSUME NEW r \in Response, Ask(r) \/ EndAnswer(r) \/ Stop(r) PROVE Box' = Box
  BY <1>1, SameBox DEF Ask, EndAnswer, Stop
<1>2. ASSUME NEW r \in Response, NEW a \in Agent, Delegate(a, r) PROVE Box' = Box
  BY <1>2, SameBox DEF Delegate
<1>3. ASSUME NEW a \in Agent, Work(a) \/ LockToStore(a) PROVE Box' = Box
  BY <1>3, SameBox DEF Work, CreateFails, Launch, LaunchFails, Finish, LockToStore
<1>4. ASSUME NEW a \in Agent, Store(a) PROVE Mail!Next
  <2>1. result[a] = "none" /\ given[a] # 1 /\ given[a] <= 1
    BY <1>4 DEF Store, Results
  <2>2. /\ UNCHANGED <<given, batch>> /\ result' = [result EXCEPT ![a] = "waiting"]
    BY <1>4 DEF Store
  <2>3. BoxOf(a) = "none" /\ BoxOf(a)' = "waiting"
    BY <2>1, <2>2 DEF BoxOf, TypeOK
  <2>4. \A b \in Agent \ {a} : BoxOf(b)' = BoxOf(b)
    BY <2>2 DEF BoxOf, InHand, TypeOK
  <2>5. Mail!Put(a)
    BY <2>3, <2>4 DEF Mail!Put, Mail!Is, Mail!Move
  <2> QED BY <2>5 DEF Mail!Next
<1>5. ASSUME NEW c \in Courier, Deliver(c) PROVE Mail!Next \/ Box' = Box
  <2>1. CASE Look(c) \/ Poll(c) \/ LockToClaim(c) \/ LookAgain(c)
    BY <2>1, SameBox DEF Look, Poll, LockToClaim, LookAgain
  <2>2. CASE Claim(c)
    <3>1. CASE UNCHANGED <<result, batch>>
      BY <2>2, <3>1, SameBox DEF Claim
    <3>2. ASSUME NEW B \in Batches,
                 batch' = [batch EXCEPT ![c] = B],
                 result' = [a \in Agent |-> IF a \in B THEN Taken(a) ELSE result[a]]
          PROVE  Box' = Box
      <4>1. B \subseteq Agent /\ \A a \in B : result[a] = "waiting"
        BY <3>2, AgentAssumption DEF Batches, Waiting
      <4>2. given' = given /\ batch[c] = {}
        <5>1. pc[c] = "claiming" /\ given' = given
          BY <2>2 DEF Claim
        <5>2. batch[c] \subseteq Agent
          BY AgentAssumption DEF TypeOK
        <5>3. \A a \in Agent : a \notin batch[c]
          BY <5>1 DEF Results
        <5> QED BY <5>1, <5>2, <5>3
      <4>3. \A a \in B : InHand(a)' /\ result'[a] = "claimed" /\ given[a] # 1
        BY <3>2, <4>1 DEF InHand, Taken, TypeOK, Results
      <4>4. \A a \in Agent \ B : (InHand(a)' <=> InHand(a)) /\ result'[a] = result[a]
        BY <3>2, <4>2 DEF InHand, TypeOK
      <4>5. \A a \in Agent : BoxOf(a)' = BoxOf(a)
        BY <4>1, <4>2, <4>3, <4>4, SameBoxOf
      <4> QED BY <4>5 DEF Box
    <3> QED BY <2>2, <3>1, <3>2 DEF Claim
  <2>3. ASSUME NEW r \in Response, Respond(c, r) PROVE Mail!Next
    <3> DEFINE S == batch[c]
    <3>1. /\ S \subseteq Agent
          /\ \A a \in S : given[a] = 0 /\ result[a] = "claimed" /\ InHand(a)
      BY AgentAssumption DEF TypeOK, Results, InHand
    <3>2. /\ \A a \in Agent : given'[a] = IF a \notin S THEN given[a]
                                          ELSE IF given[a] = 0 THEN 1 ELSE 2
          /\ result' = result
          /\ batch' = [batch EXCEPT ![c] = {}]
      BY <2>3 DEF Respond
    <3>3. \A a \in S : BoxOf(a) = "waiting" /\ BoxOf(a)' = "given"
      BY <3>1, <3>2 DEF BoxOf
    <3>4. \A a \in Agent \ S : (InHand(a)' <=> InHand(a)) /\ given'[a] = given[a]
      BY <3>2 DEF InHand, TypeOK
    <3>5. \A a \in Agent \ S : BoxOf(a)' = BoxOf(a)
      BY <3>2, <3>4, SameBoxOf
    <3>6. Mail!Give(S)
      BY <3>1, <3>3, <3>5 DEF Mail!Give, Mail!Is, Mail!Move
    <3> QED BY <3>1, <3>6 DEF Mail!Next
  <2>4. CASE RespondFails(c)
    BY <2>4, DroppedBatch DEF RespondFails
  <2> QED BY <1>5, <2>1, <2>2, <2>3, <2>4 DEF Deliver
<1>6. ASSUME NEW c \in Courier, Cancel(c) PROVE Mail!Next
  BY <1>6, DroppedBatch DEF Cancel
<1>7. ASSUME NEW i \in Instance, Crash(i) PROVE Mail!Next
  <2> DEFINE dead == {c \in Courier : home[c] = i /\ pc[c] \notin {"none", "over"}}
  <2>1. /\ batch' = [c \in Courier |-> IF c \in dead THEN {} ELSE batch[c]]
        /\ UNCHANGED <<result, given>>
    BY <1>7 DEF Crash
  <2>2. dead \in SUBSET Courier
    OBVIOUS
  <2> HIDE DEF dead
  <2> QED BY <2>1, <2>2, Dropped
<1>8. CASE UNCHANGED vars
  BY <1>8, SameBox DEF vars
<1> QED BY <1>1, <1>2, <1>3, <1>4, <1>5, <1>6, <1>7, <1>8 DEF Next

\* The couriers implement the mailbox, for any number of them in any number of
\* processes: claims, hand-overs, failures and crashes are its steps.
THEOREM ImplementsMailbox == Spec => IsMailbox
<1>1. Init => Mail!Init
  BY AgentAssumption DEF Init, Mail!Init, BoxOf
<1>2. IInv /\ [Next]_vars => [Mail!Next]_Box
  BY MailboxStep DEF IInv
<1> QED BY <1>1, <1>2, Invariance, PTL DEF Spec, IsMailbox, Mail!Spec, Box
=============================================================================
