---------------------------- MODULE CommandQueue ----------------------------
(***************************************************************************)
(* The commands that pages of the desktop client have asked of its Rust    *)
(* process.  None of them is asynchronous there: they run one after the    *)
(* other, and their answers come back in order.  The second may run before *)
(* the handler of the first goes on; as the one works on the state of the  *)
(* process and the other on that of the pages, it might as well have run   *)
(* after.  So only the first is ever run, and whether its handler goes on  *)
(* in the same step is for the module that uses this one to say.  A call   *)
(* remembers whether the page that waits for it is still shown.            *)
(***************************************************************************)
EXTENDS Naturals, Sequences, FiniteSets

CONSTANTS MaxClicks,   \* bound: things the user does
          MaxCalls     \* bound: calls under way when he does

ASSUME QueueAssumption == MaxClicks \in Nat /\ MaxCalls \in Nat

VARIABLES calls,       \* commands under way
          clicks

Click ==
  /\ clicks < MaxClicks
  /\ clicks' = clicks + 1

NewCall(cmd, a) == [cmd |-> cmd, arg |-> a, here |-> TRUE]

\* The user clicks, and a handler runs up to its await.
Ask(cmd, a) ==
  /\ Click
  /\ Len(calls) < MaxCalls
  /\ calls' = Append(calls, NewCall(cmd, a))

\* It is the turn of the first call.
Answered(cmd) ==
  /\ calls # <<>>
  /\ Head(calls).cmd = cmd

arg  == Head(calls).arg
here == Head(calls).here

Done == calls' = Tail(calls)

\* The handler goes on to its next await.
AndThen(cmd, a) == calls' = Append(Tail(calls), [Head(calls) EXCEPT !.cmd = cmd, !.arg = a])

Waiting(cmd) == \E i \in 1..Len(calls) : calls[i].cmd = cmd /\ calls[i].here

\* The page that is shown is left: its calls go on.
Left == [i \in 1..Len(calls) |-> [calls[i] EXCEPT !.here = FALSE]]
=============================================================================
