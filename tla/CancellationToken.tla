------------------------- MODULE CancellationToken -------------------------
(***************************************************************************)
(* The token that `postly run`, the desktop runner and the stream workers  *)
(* use to stop work in flight (postly-core/src/runner.rs).                 *)
(*                                                                         *)
(* The token is an atomic flag and a tokio `Notify`.  `cancel` stores the  *)
(* flag and then calls `notify_waiters`, two separate steps of the thread  *)
(* that cancels.  `cancelled()` is a loop of the task that waits: read the *)
(* flag, and while it is false create a `Notified` future and wait for it. *)
(* `notify_waiters` stores no permit: it wakes the `Notified` futures that *)
(* exist when it is called and no other.                                   *)
(***************************************************************************)
EXTENDS Naturals

CONSTANT Waiters   \* the slots that may hold a `cancelled()` future

VARIABLES
  cancelled,       \* CancellationState.cancelled
  notify,          \* how far the cancelling thread is inside `cancel`
  waiter           \* the `cancelled()` future of each slot

tokenVars == <<cancelled, notify, waiter>>

(***************************************************************************)
(* "off"        there is no future;                                        *)
(* "unchecked"  the next thing the future does is to read the flag: it was *)
(*              just created, or was woken and goes round its loop;        *)
(* "checked"    it read FALSE and has not created its `Notified` yet;      *)
(* "parked"     its `Notified` exists and it waits for a notification.     *)
(***************************************************************************)
WaiterState == {"off", "unchecked", "checked", "parked"}
NotifyState == {"idle", "stored", "notified"}

TokenTypeOK ==
  /\ cancelled \in BOOLEAN
  /\ notify \in NotifyState
  /\ waiter \in [Waiters -> WaiterState]

TokenInit ==
  /\ cancelled = FALSE
  /\ notify = "idle"
  /\ waiter = [w \in Waiters |-> "off"]

(* `cancel`: the store with Ordering::Release ...                          *)
StoreFlag ==
  /\ notify = "idle"
  /\ cancelled' = TRUE
  /\ notify' = "stored"
  /\ UNCHANGED waiter

(* ... and `notify_waiters`, which wakes the futures parked at that moment. *)
NotifyWaiters ==
  /\ notify = "stored"
  /\ notify' = "notified"
  /\ waiter' = [w \in Waiters |->
                  IF waiter[w] = "parked" THEN "unchecked" ELSE waiter[w]]
  /\ UNCHANGED cancelled

(* `cancelled()`: the loop condition reads FALSE ...                       *)
CheckFlag(w) ==
  /\ waiter[w] = "unchecked"
  /\ ~cancelled
  /\ waiter' = [waiter EXCEPT ![w] = "checked"]
  /\ UNCHANGED <<cancelled, notify>>

(* ... and the body creates the `Notified` future and waits for it.        *)
Park(w) ==
  /\ waiter[w] = "checked"
  /\ waiter' = [waiter EXCEPT ![w] = "parked"]
  /\ UNCHANGED <<cancelled, notify>>

(* The future is ready: it is about to read the flag, and the flag is set.  *)
Observes(w) == waiter[w] = "unchecked" /\ cancelled
=============================================================================
