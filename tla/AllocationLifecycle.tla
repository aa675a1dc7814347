------------------------- MODULE AllocationLifecycle -------------------------
(***************************************************************************)
(* What the host agent promises about the record of one allocation, with   *)
(* every operation a single step: the state diagram of validTransitions,   *)
(* who may become the owner and when, and the life of an invite token.     *)
(* HostAgent implements it when its handlers do not overlap.               *)
(***************************************************************************)
EXTENDS Naturals

CONSTANTS Keys,   \* the public keys that data owners present
          NoKey   \* no key, not one of Keys

VARIABLES state,   \* the record's state, "ABSENT" when there is no record
          owner,   \* ownerPublicKey
          token,   \* the live invite token, 0 when it has been cleared
          invite,  \* the last invite exported
          fresh    \* the allocation's id has not had a record yet

vars == <<state, owner, token, invite, fresh>>

Waiting == {"DRAFT", "PENDING_KEY", "EXPIRED"}
Owned   == {"READY", "SUSPENDED"}
Closing == {"RETIRING", "RETIRED"}

Init ==
  /\ state = "ABSENT"
  /\ owner = NoKey
  /\ token = 0
  /\ invite = 0
  /\ fresh = TRUE
-----------------------------------------------------------------------------
Create ==
  /\ fresh
  /\ fresh' = FALSE
  /\ state' = "DRAFT"
  /\ UNCHANGED <<owner, token, invite>>

\* The agent stops before it has saved the record: the id is lost.
Abandon ==
  /\ fresh
  /\ fresh' = FALSE
  /\ UNCHANGED <<state, owner, token, invite>>

Invite ==
  /\ state \in {"DRAFT", "EXPIRED"}
  /\ state' = "PENDING_KEY"
  /\ invite' \in Nat
  /\ invite' > invite
  /\ token' = invite'
  /\ UNCHANGED <<owner, fresh>>

\* Any submission to the peer API uses up the token, whatever becomes of it.
Burn ==
  /\ state # "ABSENT"
  /\ token' = 0
  /\ UNCHANGED <<state, owner, invite, fresh>>

\* A token that could not be used up before is used up now.
Accept(k) ==
  /\ state = "PENDING_KEY"
  /\ state' = "READY"
  /\ owner' = k
  /\ token' \in {token, 0}
  /\ UNCHANGED <<invite, fresh>>

Move(from, to) ==
  /\ state \in from
  /\ state' = to
  /\ UNCHANGED <<owner, token, invite, fresh>>

Expire  == Move({"PENDING_KEY"}, "EXPIRED")
Suspend == Move({"READY"}, "SUSPENDED")
Resume  == Move({"SUSPENDED"}, "READY")
Retire  == Move(Waiting \cup Owned, "RETIRING")
Finish  == Move({"RETIRING"}, "RETIRED")

Delete ==
  /\ state # "ABSENT"
  /\ state' = "ABSENT"
  /\ owner' = NoKey
  /\ token' = 0
  /\ invite' = 0
  /\ UNCHANGED fresh

Next ==
  \/ Create
  \/ Abandon
  \/ Invite
  \/ Burn
  \/ \E k \in Keys : Accept(k)
  \/ Expire
  \/ Suspend
  \/ Resume
  \/ Retire
  \/ Finish
  \/ Delete

Spec == Init /\ [][Next]_vars
-----------------------------------------------------------------------------
\* The variables have their types.
TypeOK ==
  /\ state \in Waiting \cup Owned \cup Closing \cup {"ABSENT"}
  /\ owner \in Keys \cup {NoKey}
  /\ token \in Nat
  /\ invite \in Nat
  /\ fresh \in BOOLEAN

\* There is an owner from acceptance on and none before; a live token is that of
\* the last invite, and no record has one before its first invite.
OwnerAndToken ==
  /\ state \in Owned => owner # NoKey
  /\ state \in Waiting \cup {"ABSENT"} => owner = NoKey
  /\ token \in {0, invite}
  /\ state \in {"ABSENT", "DRAFT"} => invite = 0
  /\ fresh => state = "ABSENT"

\* The owner of a record never changes, a cleared token never comes back to life
\* without a new invite, retirement is not undone, and a deleted allocation stays
\* deleted.
NeverUndone ==
  [][/\ owner # NoKey => owner' = owner \/ state' = "ABSENT"
     /\ token' # 0 => token' = token \/ invite' > invite
     /\ state = "RETIRED" => state' \in {"RETIRED", "ABSENT"}
     /\ state = "RETIRING" => state' \in Closing \cup {"ABSENT"}
     /\ state = "ABSENT" /\ ~fresh => state' = "ABSENT"]_vars
=============================================================================
