----------------------------- MODULE EventQueue -----------------------------
(***************************************************************************)
(* The event queue of mediastreamer2 (src/eventqueue.c): a ring buffer in  *)
(* which the filters of a running stream post events from their ticker's   *)
(* thread, and from which the application's thread takes them in           *)
(* ms_event_queue_pump, called by linphone_core_iterate.                   *)
(*                                                                         *)
(* Positions and sizes count units of 16 bytes, the header of an event.    *)
(* Only freeroom is protected by a mutex: each access to it is a step of   *)
(* its own, between which the other thread may run.  One ticker posts      *)
(* events at a time, that of the stream of the current call.               *)
(***************************************************************************)
EXTENDS Integers, Sequences

CONSTANTS
  Size,   \* MS_EVENT_BUF_SIZE
  Sizes,  \* sizes of the events, header included
  Ids     \* event ids

ASSUME SizesAssumption == Size \in Nat \ {0} /\ Sizes \subseteq 1 .. Size

\* A filter dies with its stream; the filters of the next one are others.
Filters == {0, 1}

Events == [filter : Filters, id : Ids, size : Sizes]

\* What is no event: memory that was never written, memory inside the
\* argument of an event, and the reader's event when no callback runs.
Zero == [filter |-> 0, id |-> "zero", size |-> 0]
Garbage == [filter |-> 0, id |-> "garbage", size |-> 0]
NoEvent == [filter |-> 0, id |-> "none", size |-> 0]

\* A cell holds one unit of an event: 0 is its header.
Cells == [event : Events \cup {Zero}, part : 0 .. Size]

VARIABLES
  rptr, wptr, endptr,  \* the pointers, as offsets in the buffer
  freeroom,
  buffer,
  running, filter,     \* whether a stream runs, and its filter
  writer,              \* the ticker in write_event: where, and what it writes
  reader,              \* the application in read_event: where
  reading,             \* the event it has read
  pending              \* history: the events posted and not yet read

vars == <<rptr, wptr, endptr, freeroom, buffer, running, filter,
          writer, reader, reading, pending>>

Writers == [pc : {"idle", "copy", "commit"}, event : Events \cup {NoEvent}]

NotWriting == [pc |-> "idle", event |-> NoEvent]

TypeOK ==
  /\ rptr \in 0 .. Size - 1 /\ wptr \in 0 .. Size /\ endptr \in 0 .. Size
  /\ freeroom \in Int
  /\ buffer \in [0 .. Size - 1 -> Cells]
  /\ running \in BOOLEAN /\ filter \in Filters
  /\ writer \in Writers
  /\ reader \in {"idle", "notify", "release"}
  /\ reading \in Events \cup {NoEvent, Zero, Garbage}
  /\ pending \in Seq(Events)

\* ms_event_queue_new.
Init ==
  /\ rptr = 0 /\ wptr = 0 /\ endptr = Size /\ freeroom = Size
  /\ buffer = [i \in 0 .. Size - 1 |-> [event |-> Zero, part |-> 0]]
  /\ running = FALSE /\ filter = 0
  /\ writer = NotWriting
  /\ reader = "idle" /\ reading = NoEvent
  /\ pending = << >>

-----------------------------------------------------------------------------
(***************************************************************************)
(* write_event, in the ticker's thread                                     *)
(***************************************************************************)

\* Mutant: an event that ends exactly at the limit wraps around.
Place_WrapsTooEarly(e) ==
  /\ running /\ writer.pc = "idle"
  /\ e.filter = filter
  /\ freeroom >= e.size
  /\ LET wraps == wptr + e.size >= Size IN
     /\ endptr' = IF wraps THEN wptr ELSE endptr
     /\ wptr' = IF wraps THEN 0 ELSE wptr
  /\ writer' = [pc |-> "copy", event |-> e]
  /\ UNCHANGED <<rptr, freeroom, buffer, running, filter, reader, reading, pending>>

\* Room is looked for; an event that finds none is dropped, which changes
\* nothing.  An event that does not fit before the limit wraps around.
Place(e) ==
  /\ running /\ writer.pc = "idle"
  /\ e.filter = filter
  /\ freeroom >= e.size
  /\ LET wraps == wptr + e.size > Size IN
     /\ endptr' = IF wraps THEN wptr ELSE endptr
     /\ wptr' = IF wraps THEN 0 ELSE wptr
  /\ writer' = [pc |-> "copy", event |-> e]
  /\ UNCHANGED <<rptr, freeroom, buffer, running, filter, reader, reading, pending>>

Copy ==
  /\ writer.pc = "copy"
  /\ LET e == writer.event IN
     /\ buffer' = [i \in 0 .. Size - 1 |->
                     IF i \in wptr .. wptr + e.size - 1
                     THEN [event |-> e, part |-> i - wptr] ELSE buffer[i]]
     /\ wptr' = wptr + e.size
  /\ writer' = [writer EXCEPT !.pc = "commit"]
  /\ UNCHANGED <<rptr, endptr, freeroom, running, filter, reader, reading, pending>>

Commit ==
  /\ writer.pc = "commit"
  /\ freeroom' = freeroom - writer.event.size
  /\ pending' = Append(pending, writer.event)
  /\ writer' = NotWriting
  /\ UNCHANGED <<rptr, wptr, endptr, buffer, running, filter, reader, reading>>

-----------------------------------------------------------------------------
(***************************************************************************)
(* read_event, in the application's thread                                 *)
(***************************************************************************)

EventAt(p) == IF buffer[p].part = 0 THEN buffer[p].event ELSE Garbage

\* Mutant: the room is given back before the callback has run.
Read_FreesFirst ==
  /\ reader = "idle"
  /\ Size - freeroom > 0
  /\ reading' = EventAt(rptr)
  /\ pending' = SubSeq(pending, 2, Len(pending))
  /\ freeroom' = freeroom + 1
  /\ reader' = "notify"
  /\ UNCHANGED <<rptr, wptr, endptr, buffer, running, filter, writer>>

\* The callback gets a pointer into the buffer.
Read ==
  /\ reader = "idle"
  /\ Size - freeroom > 0
  /\ reading' = EventAt(rptr)
  /\ pending' = SubSeq(pending, 2, Len(pending))
  /\ reader' = "notify"
  /\ UNCHANGED <<rptr, wptr, endptr, freeroom, buffer, running, filter, writer>>

\* Mutant: the reader wraps around one event late.
Advance_WrapsLate ==
  /\ reader = "notify"
  /\ reading \in Events
  /\ rptr' = IF rptr + reading.size > endptr THEN 0 ELSE rptr + reading.size
  /\ reader' = "release"
  /\ UNCHANGED <<wptr, endptr, freeroom, buffer, running, filter, writer, reading, pending>>

\* What is no event has no filter to call, and nothing follows.
Advance ==
  /\ reader = "notify"
  /\ reading \in Events
  /\ rptr' = IF rptr + reading.size >= endptr THEN 0 ELSE rptr + reading.size
  /\ reader' = "release"
  /\ UNCHANGED <<wptr, endptr, freeroom, buffer, running, filter, writer, reading, pending>>

Release ==
  /\ reader = "release"
  /\ freeroom' = freeroom + reading.size
  /\ reader' = "idle" /\ reading' = NoEvent
  /\ UNCHANGED <<rptr, wptr, endptr, buffer, running, filter, writer, pending>>

-----------------------------------------------------------------------------
(***************************************************************************)
(* The life of a stream: linphone_call_start_media_streams attaches its    *)
(* filters to a ticker; linphone_call_stop_media_streams detaches them,    *)
(* destroys them and calls ms_event_queue_skip.  Detaching waits for the   *)
(* ticker's lock, so that no filter is in write_event, and the application *)
(* thread that stops a stream is not in read_event (a callback that stops  *)
(* its own stream is left out).                                            *)
(***************************************************************************)

StartStream ==
  /\ ~running
  /\ running' = TRUE /\ filter' = 1 - filter
  /\ UNCHANGED <<rptr, wptr, endptr, freeroom, buffer, writer, reader, reading, pending>>

\* Mutant: the events of the destroyed filters stay in the queue.
StopStream_NoSkip ==
  /\ running /\ writer.pc = "idle" /\ reader = "idle"
  /\ running' = FALSE
  /\ UNCHANGED <<rptr, wptr, endptr, freeroom, buffer, filter, writer, reader,
                 reading, pending>>

StopStream ==
  /\ running /\ writer.pc = "idle" /\ reader = "idle"
  /\ running' = FALSE
  /\ rptr' = 0 /\ wptr' = 0 /\ endptr' = Size /\ freeroom' = Size
  /\ pending' = << >>
  /\ UNCHANGED <<buffer, filter, writer, reader, reading>>

-----------------------------------------------------------------------------
Next ==
  \/ \E e \in Events : Place(e)
  \/ Copy \/ Commit
  \/ Read \/ Advance \/ Release
  \/ StartStream \/ StopStream

Spec == Init /\ [][Next]_vars

-----------------------------------------------------------------------------
(***************************************************************************)
(* Properties                                                              *)
(***************************************************************************)

Fifo == INSTANCE EventFifo WITH Capacity <- Size

\* The ring buffer implements the FIFO: each event is handed out once and in
\* order (write_event, read_event), whatever the two threads interleave.
DeliversInOrder == Fifo!FifoSpec

\* While a callback runs, the ticker does not write over the argument it was
\* given: the room is only given back when the callback has returned.
ArgumentIsIntact ==
  reader = "notify" /\ reading \in Events =>
    \A i \in 0 .. reading.size - 1 : buffer[rptr + i] = [event |-> reading, part |-> i]

\* A callback is only called for a filter of the stream that runs: what the
\* filters of a stopped stream had posted is discarded with them.
CallbackFilterIsAlive ==
  reading \in Events => running /\ reading.filter = filter
=============================================================================
