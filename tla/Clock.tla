-------------------------------- MODULE Clock --------------------------------
(* The wall clock the handlers of one database read (time.Now, now()): it only
   advances, and between two of its ticks any number of steps is taken. *)
EXTENDS Integers

CONSTANT MaxTime   \* bound of the clock

ASSUME ClockAssumption == MaxTime \in Nat

VARIABLE now

NoExpiry == 0   \* expires_at is null

ClockInit == now = 1

Tick ==
  /\ now < MaxTime
  /\ now' = now + 1
=============================================================================
