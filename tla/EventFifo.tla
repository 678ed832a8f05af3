----------------------------- MODULE EventFifo -----------------------------
(***************************************************************************)
(* What mediastreamer2's event queue promises (mseventqueue.h): the events *)
(* that the filters post are handed to their callbacks one at a time, each *)
(* once and in the order they were posted, unless the queue is full when   *)
(* they are posted or the application discards them.  EventQueue           *)
(* implements it.                                                          *)
(***************************************************************************)
EXTENDS Naturals, Sequences

CONSTANTS
  Events,    \* the events that filters post
  NoEvent,   \* no callback is running
  Capacity   \* events that wait at most

VARIABLES
  pending,   \* the events that wait, oldest first
  reading    \* the event whose callback is running

fifoVars == <<pending, reading>>

FifoInit == pending = << >> /\ reading = NoEvent

Post(e) ==
  /\ Len(pending) < Capacity
  /\ pending' = Append(pending, e)
  /\ UNCHANGED reading

Deliver ==
  /\ reading = NoEvent
  /\ pending # << >>
  /\ reading' = Head(pending)
  /\ pending' = Tail(pending)

Done == reading' = NoEvent /\ UNCHANGED pending

Discard ==
  /\ reading = NoEvent
  /\ pending' = << >>
  /\ UNCHANGED reading

FifoNext == (\E e \in Events : Post(e)) \/ Deliver \/ Done \/ Discard

FifoSpec == FifoInit /\ [][FifoNext]_fifoVars
=============================================================================
