------------------------------- MODULE Alarm -------------------------------
(***************************************************************************)
(* What the timer, the software interrupt and the firmware promise to a    *)
(* kernel: an alarm that rings once and never early, a signal that comes   *)
(* once for what was asked since the last, and the time of day.            *)
(***************************************************************************)
EXTENDS Integers

CONSTANTS MaxTime, None

VARIABLES
  now,
  due,      \* when the alarm is to ring, or None
  asked,    \* a signal has been asked for
  since,    \* when the question for the time was put, or None
  event     \* what the last step gave to the kernel

vars == <<now, due, asked, since, event>>

Init == now = 0 /\ due = None /\ asked = FALSE /\ since = None /\ event = None

Tick == now' \in now .. MaxTime

Set ==
  /\ due' \in 0 .. MaxTime
  /\ event' = None
  /\ UNCHANGED <<now, asked, since>>

Ring ==
  /\ Tick
  /\ due # None /\ due <= now'
  /\ due' = None /\ event' = <<"ring">>
  /\ UNCHANGED <<asked, since>>

Ask == asked' = TRUE /\ event' = None /\ UNCHANGED <<now, due, since>>

Signal ==
  /\ Tick
  /\ asked
  /\ asked' = FALSE /\ event' = <<"signal">>
  /\ UNCHANGED <<due, since>>

Question == since' = now /\ event' = None /\ UNCHANGED <<now, due, asked>>

(* The answer was the time when it was asked or later. *)
Answer ==
  /\ \E t \in (IF since = None THEN now ELSE since) .. now : event' = <<"time", t>>
  /\ since' = None
  /\ UNCHANGED <<now, due, asked>>

Pass == Tick /\ event' \in {event, None} /\ UNCHANGED <<due, asked, since>>

Next == Set \/ Ring \/ Ask \/ Signal \/ Question \/ Answer \/ Pass

Spec == Init /\ [][Next]_vars
=============================================================================
