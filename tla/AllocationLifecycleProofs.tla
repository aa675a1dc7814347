---------------------- MODULE AllocationLifecycleProofs ----------------------
(***************************************************************************)
(* What the abstract life of an allocation guarantees, for any set of      *)
(* keys.  HostAgentSerialProofs shows that the agent implements it when    *)
(* its handlers do not overlap, so the same then holds of the agent.       *)
(***************************************************************************)
EXTENDS AllocationLifecycle, TLAPS

\* Whatever happens to an allocation, its record keeps its types.
LEMMA RecordKeepsTypes ==
  ASSUME TypeOK, Next
  PROVE  TypeOK'
<1> USE DEF TypeOK, Waiting, Owned, Closing
<1> DEFINE Transition == Expire \/ Suspend \/ Resume \/ Retire \/ Finish
<1>moved. CASE Transition
  BY <1>moved DEF Expire, Suspend, Resume, Retire, Finish, Move
<1>started. CASE Create \/ Abandon
  <2>1. fresh' \in BOOLEAN
    BY <1>started, Zenon DEF Create, Abandon
  <2>2. QED
    BY <1>started, <2>1 DEF Create, Abandon
<1>accepted. CASE \E k \in Keys : Accept(k)
  BY <1>accepted DEF Accept
<1>token. CASE Invite \/ Burn \/ Delete
  BY <1>token DEF Invite, Burn, Delete
<1> QED
  BY <1>moved, <1>started, <1>accepted, <1>token DEF Next

\* The variables of the abstract lifecycle keep their types.
THEOREM LifecycleTypeCorrect == Spec => []TypeOK
<1>1. ASSUME Init PROVE TypeOK
  BY <1>1 DEF Init, TypeOK
<1>2. ASSUME TypeOK, UNCHANGED vars PROVE TypeOK'
  BY <1>2 DEF TypeOK, vars
<1>3. QED
  BY <1>1, <1>2, RecordKeepsTypes, PTL DEF Spec

\* No operation separates a record from its owner or revives a token.
LEMMA RecordKeepsOwnerAndToken ==
  ASSUME NoKey \notin Keys, TypeOK, OwnerAndToken, Next
  PROVE  OwnerAndToken'
<1> USE DEF TypeOK, OwnerAndToken, Waiting, Owned, Closing
<1> DEFINE Transition == Expire \/ Suspend \/ Resume \/ Retire \/ Finish
<1>moved. CASE Transition
  BY <1>moved DEF Expire, Suspend, Resume, Retire, Finish, Move
<1>started. CASE Create \/ Abandon
  BY <1>started DEF Create, Abandon
<1>accepted. CASE \E k \in Keys : Accept(k)
  BY <1>accepted DEF Accept
<1>invited. CASE Invite
  BY <1>invited DEF Invite
<1>burnt. CASE Burn
  BY <1>burnt DEF Burn
<1>deleted. CASE Delete
  BY <1>deleted DEF Delete
<1> QED
  BY <1>moved, <1>started, <1>accepted, <1>invited, <1>burnt, <1>deleted DEF Next

\* An owner from acceptance on and none before, and a token that is either used
\* up or that of the last invite (what handleSubmitResponse and the state diagram
\* of Manager.Transition rely on).
THEOREM LifecycleOwnerAndToken ==
  ASSUME NoKey \notin Keys
  PROVE  Spec => []OwnerAndToken
<1>1. ASSUME Init PROVE OwnerAndToken
  BY <1>1 DEF Init, OwnerAndToken, Waiting, Owned
<1>2. ASSUME OwnerAndToken, UNCHANGED vars PROVE OwnerAndToken'
  BY <1>2 DEF OwnerAndToken, vars
<1>3. TypeOK /\ OwnerAndToken /\ Next => OwnerAndToken'
  BY RecordKeepsOwnerAndToken
<1>4. QED
  BY <1>1, <1>2, <1>3, LifecycleTypeCorrect, PTL DEF Spec

\* What is done stays done: an accepted owner is never replaced, a used token needs
\* a new invite, a retirement cannot be taken back and a deletion neither.
THEOREM LifecycleNeverUndone ==
  ASSUME NoKey \notin Keys
  PROVE  Spec => NeverUndone
<1> DEFINE Kept ==
      /\ owner # NoKey => owner' = owner \/ state' = "ABSENT"
      /\ token' # 0 => token' = token \/ invite' > invite
      /\ state = "RETIRED" => state' \in {"RETIRED", "ABSENT"}
      /\ state = "RETIRING" => state' \in Closing \cup {"ABSENT"}
      /\ state = "ABSENT" /\ ~fresh => state' = "ABSENT"
<1>1. TypeOK /\ OwnerAndToken /\ [Next]_vars => [Kept]_vars
  <2> SUFFICES ASSUME TypeOK, OwnerAndToken, Next
               PROVE  Kept
    OBVIOUS
  <2> USE DEF TypeOK, OwnerAndToken, Waiting, Owned, Closing
  <2> DEFINE Transition == Expire \/ Suspend \/ Resume \/ Retire \/ Finish
  <2>moved. CASE Transition
    BY <2>moved DEF Expire, Suspend, Resume, Retire, Finish, Move
  <2>started. CASE Create \/ Abandon
    BY <2>started DEF Create, Abandon
  <2>accepted. CASE \E k \in Keys : Accept(k)
    BY <2>accepted DEF Accept
  <2>invited. CASE Invite
    BY <2>invited DEF Invite
  <2>burnt. CASE Burn
    BY <2>burnt DEF Burn
  <2>deleted. CASE Delete
    BY <2>deleted DEF Delete
  <2> QED
    BY <2>moved, <2>started, <2>accepted, <2>invited, <2>burnt, <2>deleted DEF Next
<1>2. QED
  BY <1>1, LifecycleTypeCorrect, LifecycleOwnerAndToken, PTL DEF Spec, NeverUndone
=============================================================================
