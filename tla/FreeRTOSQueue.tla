---------------------------- MODULE FreeRTOSQueue ----------------------------
(***************************************************************************)
(* The FreeRTOS queue as the firmware uses it: created once with a fixed   *)
(* number of slots, written with xQueueSend and a zero wait (a full queue  *)
(* drops the NEW item and keeps the old ones), read from the head by one   *)
(* task.  FreeRTOS itself is not part of this repository.                  *)
(***************************************************************************)
EXTENDS Naturals, Sequences

\* Mutant: one item too many fits.
QueueFullOffByOne(queue, length) == Len(queue) > length

\* xQueueSend(queue, &item, 0) would return errQUEUE_FULL.
QueueFull(queue, length) == Len(queue) >= length

\* The queue after xQueueSend(queue, &item, 0), whatever it returns.
xQueueSend(queue, item, length) ==
  IF QueueFull(queue, length) THEN queue ELSE Append(queue, item)
=============================================================================
