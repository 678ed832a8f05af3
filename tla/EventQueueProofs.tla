-------------------------- MODULE EventQueueProofs --------------------------
(***************************************************************************)
(* Proofs about EventQueue for a buffer of any size and while all events   *)
(* have one size that divides it: the two threads implement the FIFO, and  *)
(* no event is overwritten before its callback has returned.               *)
(*                                                                         *)
(* With events of several sizes this is false: the room that is lost       *)
(* where the writer wraps around is not counted.                           *)
(***************************************************************************)
EXTENDS EventQueue, TLAPS

OneSize == \E u \in Sizes : Sizes = {u} /\ \E k \in 0 .. Size : Size = u * k

\* The size of the events, and how many fit in the buffer.
Unit == CHOOSE u \in Sizes : Sizes = {u} /\ \E k \in 0 .. Size : Size = u * k
Places == CHOOSE k \in 0 .. Size : Size = Unit * k

\* The place k after place p.
After(p, k) == IF p + k < Places THEN p + k ELSE p + k - Places

\* The event e fills the place p.
Fills(e, p) == \A d \in 0 .. Unit - 1 : buffer[Unit * p + d] = [event |-> e, part |-> d]

\* Counted from rptr, the buffer holds the event that is handed out, those
\* that wait and the one that is not committed yet.
Handed == IF reader = "notify" THEN 1 ELSE 0
Taken == IF reader = "idle" THEN 0 ELSE 1
Copied == IF writer.pc = "commit" THEN 1 ELSE 0
Promised == IF writer.pc = "idle" THEN 0 ELSE 1
Held == Handed + Len(pending) + Copied

RoomInv ==
  /\ freeroom = Unit * (Places - Len(pending) - Taken)
  /\ Len(pending) + Taken + Promised <= Places

\* The pointers are at places r and w, and w is Held places after r.
PointerInv(r, w) ==
  /\ rptr = Unit * r /\ wptr = Unit * w
  /\ r + Held - w \in {0, Places, - Places}
  /\ writer.pc = "copy" => w < Places

ContentInv(r) ==
  /\ \A k \in 1 .. Len(pending) : Fills(pending[k], After(r, Handed + k - 1))
  /\ reader = "notify" => Fills(reading, r)
  /\ writer.pc = "commit" => Fills(writer.event, After(r, Handed + Len(pending)))

Alive(e) == e \in Events /\ running /\ e.filter = filter

\* Every event in the buffer comes from a filter that is attached.
AliveInv ==
  /\ \A k \in 1 .. Len(pending) : Alive(pending[k])
  /\ IF reader = "idle" THEN reading = NoEvent ELSE Alive(reading)
  /\ IF writer.pc = "idle" THEN writer.event = NoEvent ELSE Alive(writer.event)

LayoutInv ==
  \E r \in 0 .. Places - 1, w \in 0 .. Places : PointerInv(r, w) /\ ContentInv(r)

QueueInv == TypeOK /\ endptr = Size /\ RoomInv /\ AliveInv /\ LayoutInv

-----------------------------------------------------------------------------
(* Places.                                                                 *)

LEMMA UnitAndPlaces ==
  ASSUME OneSize
  PROVE  Unit \in Nat \ {0} /\ Places \in Nat \ {0} /\ Sizes = {Unit} /\ Size = Unit * Places
<1>1. Unit \in Sizes /\ Sizes = {Unit} /\ \E k \in 0 .. Size : Size = Unit * k
  BY DEF OneSize, Unit
<1>2. Unit \in Nat \ {0}
  BY <1>1, SizesAssumption
<1>3. Places \in Nat /\ Size = Unit * Places
  <2>1. Places \in 0 .. Size /\ Size = Unit * Places
    BY <1>1 DEF Places
  <2> QED
    BY <2>1, SizesAssumption
<1>4. Places # 0
  BY <1>2, <1>3, SizesAssumption
<1> QED
  BY <1>1, <1>2, <1>3, <1>4

LEMMA EventsHaveOneSize ==
  ASSUME OneSize
  PROVE  /\ \A e \in Events : e.size = Unit /\ e # NoEvent /\ e # Zero /\ e # Garbage
         /\ NoEvent.size = 0
BY UnitAndPlaces DEF Events, NoEvent, Zero, Garbage

LEMMA NextPlace ==
  ASSUME OneSize, NEW p \in Int
  PROVE  /\ Unit * p \in Int /\ Unit * (p + 1) = Unit * p + Unit
         /\ Unit * 0 = 0 /\ Unit * 1 = Unit
BY UnitAndPlaces

LEMMA PlacesApart ==
  ASSUME OneSize, NEW p \in Int, NEW q \in Int, p < q
  PROVE  Unit * p + Unit <= Unit * q
<1>1. Unit \in Nat \ {0} /\ q - p - 1 \in Nat
  BY UnitAndPlaces
<1>2. Unit * q = Unit * p + Unit + Unit * (q - p - 1)
  BY <1>1
<1>3. Unit * (q - p - 1) \in Nat
  BY <1>1
<1> QED
  BY <1>1, <1>2, <1>3

LEMMA CellIsInBuffer ==
  ASSUME OneSize, NEW p \in 0 .. Places - 1, NEW d \in 0 .. Unit - 1
  PROVE  Unit * p + d \in 0 .. Size - 1
<1>1. Unit \in Nat \ {0} /\ Places \in Nat \ {0} /\ Size = Unit * Places
  BY UnitAndPlaces
<1>2. Unit * p + Unit <= Unit * Places
  BY <1>1, PlacesApart
<1>3. Unit * p \in Nat
  BY <1>1
<1> QED
  BY <1>1, <1>2, <1>3

LEMMA CellsDiffer ==
  ASSUME OneSize, NEW p \in Int, NEW q \in Int, p # q,
         NEW c \in 0 .. Unit - 1, NEW d \in 0 .. Unit - 1
  PROVE  Unit * p + c # Unit * q + d
<1>1. Unit \in Nat \ {0} /\ Unit * p \in Int /\ Unit * q \in Int
  BY UnitAndPlaces, NextPlace
<1>2. CASE p < q
  BY <1>1, <1>2, PlacesApart
<1>3. CASE q < p
  BY <1>1, <1>3, PlacesApart
<1> QED
  BY <1>2, <1>3

\* Room for an event is a place that is not in use.
LEMMA RoomIsPlace ==
  ASSUME OneSize, NEW n \in Int, Unit * n >= Unit
  PROVE  n >= 1
<1> SUFFICES ASSUME n < 1 PROVE FALSE
  OBVIOUS
<1>1. Unit * n + Unit <= Unit * 1
  BY PlacesApart
<1> QED
  BY <1>1, UnitAndPlaces, NextPlace

\* The writer and the reader wrap around after the last place, and only there.
LEMMA WrapIsAtTheEnd ==
  ASSUME OneSize, NEW p \in 0 .. Places
  PROVE  /\ Unit * p + Unit > Size <=> p = Places
         /\ Unit * p + Unit >= Size <=> p + 1 >= Places
         /\ Unit * p \in 0 .. Size
<1>1. Unit \in Nat \ {0} /\ Places \in Nat \ {0} /\ Size = Unit * Places /\ Unit * p \in Nat
  BY UnitAndPlaces
<1>2. p < Places => Unit * p + Unit <= Size
  BY <1>1, PlacesApart
<1>3. p + 1 < Places => Unit * (p + 1) + Unit <= Size
  BY <1>1, PlacesApart
<1>4. Unit * (p + 1) = Unit * p + Unit
  BY NextPlace
<1>5. p + 1 = Places => Unit * p + Unit = Size
  BY <1>1, <1>4
<1>6. p = Places => Unit * p = Size
  BY <1>1
<1> QED
  BY <1>1, <1>2, <1>3, <1>4, <1>5, <1>6

LEMMA AfterIsPlace ==
  ASSUME OneSize, NEW p \in 0 .. Places - 1, NEW k \in 0 .. Places - 1
  PROVE  After(p, k) \in 0 .. Places - 1
BY UnitAndPlaces DEF After

LEMMA AftersDiffer ==
  ASSUME OneSize, NEW p \in 0 .. Places - 1,
         NEW j \in 0 .. Places - 1, NEW k \in 0 .. Places - 1, j # k
  PROVE  After(p, j) # After(p, k)
BY UnitAndPlaces DEF After

-----------------------------------------------------------------------------
(* The steps of the two threads.                                           *)

LEMMA InitIsWhole == ASSUME OneSize, Init PROVE QueueInv
<1>1. Unit \in Nat \ {0} /\ Places \in Nat \ {0} /\ Size = Unit * Places
  BY UnitAndPlaces
<1>2. TypeOK /\ endptr = Size
  <2>1. [event |-> Zero, part |-> 0] \in Cells
    BY SizesAssumption DEF Cells
  <2>2. buffer \in [0 .. Size - 1 -> Cells]
    BY <2>1 DEF Init
  <2>3. rptr \in 0 .. Size - 1 /\ wptr \in 0 .. Size /\ endptr \in 0 .. Size /\ freeroom \in Int
    BY SizesAssumption DEF Init
  <2>4. writer \in Writers /\ pending \in Seq(Events) /\ endptr = Size
    BY DEF Init, Writers, NotWriting
  <2> QED
    BY <2>2, <2>3, <2>4 DEF Init, TypeOK, Filters
<1>3. RoomInv
  BY <1>1 DEF Init, RoomInv, Taken, Promised, NotWriting
<1>4. PointerInv(0, 0)
  BY <1>1, NextPlace DEF Init, PointerInv, Held, Handed, Copied, NotWriting
<1>5. ContentInv(0) /\ AliveInv
  BY DEF Init, ContentInv, AliveInv, NotWriting
<1>6. LayoutInv
  BY <1>1, <1>4, <1>5 DEF LayoutInv
<1> QED
  BY <1>2, <1>3, <1>5, <1>6 DEF QueueInv

LEMMA PlaceStep ==
  ASSUME OneSize, QueueInv, NEW e \in Events, Place(e)
  PROVE  QueueInv'
<1>1. TypeOK /\ RoomInv /\ AliveInv /\ endptr = Size
  BY DEF QueueInv
<1>2. PICK r \in 0 .. Places - 1, w \in 0 .. Places : PointerInv(r, w) /\ ContentInv(r)
  BY DEF QueueInv, LayoutInv
<1> DEFINE v == IF w = Places THEN 0 ELSE w
<1>3. /\ e.size = Unit /\ Len(pending) \in Nat /\ Taken \in {0, 1}
      /\ Unit \in Nat \ {0} /\ Places \in Nat \ {0} /\ Size = Unit * Places
  BY <1>1, EventsHaveOneSize, UnitAndPlaces DEF TypeOK, Taken
<1>4. /\ writer' = [pc |-> "copy", event |-> e] /\ writer.pc = "idle"
      /\ UNCHANGED <<rptr, freeroom, buffer, running, filter, reader, reading, pending>>
  BY DEF Place
<1>5. wptr' = Unit * v /\ endptr' = Size /\ v \in 0 .. Places - 1 /\ wptr' \in 0 .. Size
  <2>1. wptr = Unit * w /\ (wptr + e.size > Size <=> w = Places)
    BY <1>2, <1>3, WrapIsAtTheEnd DEF PointerInv
  <2>2. wptr' = (IF w = Places THEN 0 ELSE wptr) /\ endptr' = Size
    BY <1>1, <1>2, <1>3, <2>1 DEF Place, PointerInv
  <2>3. wptr' = Unit * v /\ v \in 0 .. Places - 1
    BY <1>3, <2>1, <2>2, NextPlace
  <2> QED
    BY <2>2, <2>3, WrapIsAtTheEnd
<1>6. Len(pending) + Taken + 1 <= Places
  <2>1. freeroom >= Unit
    BY <1>3 DEF Place
  <2>2. Places - Len(pending) - Taken \in Int
    BY <1>3
  <2>3. Places - Len(pending) - Taken >= 1
    BY <1>1, <2>1, <2>2, RoomIsPlace DEF RoomInv
  <2> QED
    BY <1>3, <2>3
<1>7. TypeOK'
  BY <1>1, <1>4, <1>5, SizesAssumption DEF TypeOK, Writers
<1>8. RoomInv'
  BY <1>1, <1>4, <1>6 DEF RoomInv, Taken, Promised
<1>9. PointerInv(r, v)'
  <2>1. Held' = Held
    BY <1>4 DEF Held, Handed, Copied
  <2>2. Held \in 0 .. Places - 1
    BY <1>3, <1>4, <1>6 DEF Held, Handed, Copied, Taken
  <2> QED
    BY <1>2, <1>3, <1>4, <1>5, <2>1, <2>2 DEF PointerInv
<1>10. ContentInv(r)'
  <2>1. writer'.pc # "commit"
    BY <1>4
  <2> QED
    BY <1>2, <1>4, <2>1 DEF ContentInv, Fills, Handed
<1>11. AliveInv'
  BY <1>1, <1>4 DEF Place, AliveInv, Alive
<1> HIDE DEF v
<1>12. LayoutInv'
  BY <1>5, <1>9, <1>10, <1>3 DEF LayoutInv
<1> QED
  BY <1>5, <1>7, <1>8, <1>11, <1>12 DEF QueueInv

LEMMA CopyStep ==
  ASSUME OneSize, QueueInv, Copy
  PROVE  QueueInv'
<1>1. TypeOK /\ RoomInv /\ AliveInv /\ endptr = Size
  BY DEF QueueInv
<1>2. PICK r \in 0 .. Places - 1, w \in 0 .. Places : PointerInv(r, w) /\ ContentInv(r)
  BY DEF QueueInv, LayoutInv
<1> DEFINE e == writer.event
           at == Handed + Len(pending)
<1>3. /\ writer.pc = "copy" /\ e \in Events /\ e.size = Unit
      /\ Len(pending) \in Nat /\ Handed \in {0, 1}
      /\ Unit \in Nat \ {0} /\ Places \in Nat \ {0}
  BY <1>1, EventsHaveOneSize, UnitAndPlaces DEF Copy, TypeOK, AliveInv, Alive, Handed
<1>4. /\ writer' = [pc |-> "commit", event |-> e] /\ wptr' = wptr + Unit
      /\ UNCHANGED <<rptr, endptr, freeroom, running, filter, reader, reading, pending>>
  BY <1>1, <1>3 DEF Copy, TypeOK, Writers
<1>5. at \in 0 .. Places - 1 /\ w = After(r, at) /\ w \in 0 .. Places - 1
  <2>1. Held = at /\ at <= Places - 1
    BY <1>1, <1>3 DEF RoomInv, Held, Handed, Copied, Taken, Promised
  <2>2. w < Places /\ r + at - w \in {0, Places, - Places}
    BY <1>2, <1>3, <2>1 DEF PointerInv
  <2> QED
    BY <1>3, <2>1, <2>2 DEF After
<1>6. wptr = Unit * w /\ wptr \in Int
  BY <1>1, <1>2 DEF PointerInv, TypeOK
<1>7. \A i \in 0 .. Size - 1 :
        buffer'[i] = IF i \in wptr .. wptr + Unit - 1
                     THEN [event |-> e, part |-> i - wptr] ELSE buffer[i]
  BY <1>3 DEF Copy
<1>8. TypeOK'
  <2>1. Unit <= Size
    BY UnitAndPlaces, SizesAssumption
  <2>2. ASSUME NEW i \in wptr .. wptr + Unit - 1
        PROVE  [event |-> e, part |-> i - wptr] \in Cells
    <3>1. i - wptr \in 0 .. Size
      BY <1>3, <1>6, <2>1, SizesAssumption
    <3> QED
      BY <1>3, <3>1 DEF Cells
  <2>3. buffer' = [i \in 0 .. Size - 1 |->
                     IF i \in wptr .. wptr + Unit - 1
                     THEN [event |-> e, part |-> i - wptr] ELSE buffer[i]]
    BY <1>3 DEF Copy
  <2>4. buffer' \in [0 .. Size - 1 -> Cells]
    BY <1>1, <2>2, <2>3 DEF TypeOK
  <2>5. wptr' \in 0 .. Size
    <3>1. w + 1 \in 0 .. Places
      BY <1>3, <1>5
    <3>2. wptr' = Unit * (w + 1)
      BY <1>4, <1>5, <1>6, NextPlace
    <3> QED
      BY <3>1, <3>2, WrapIsAtTheEnd
  <2>6. writer' \in Writers
    BY <1>3, <1>4 DEF Writers
  <2> QED
    BY <1>1, <1>4, <2>4, <2>5, <2>6 DEF TypeOK
<1>9. RoomInv'
  BY <1>1, <1>3, <1>4 DEF RoomInv, Taken, Promised
<1>10. PointerInv(r, w + 1)'
  <2>1. Held' = Held + 1 /\ Held \in Nat
    BY <1>3, <1>4 DEF Held, Handed, Copied
  <2>2. wptr' = Unit * (w + 1)
    BY <1>4, <1>5, <1>6, NextPlace
  <2> QED
    BY <1>2, <1>3, <1>4, <2>1, <2>2 DEF PointerInv
<1>11. ContentInv(r)'
  <2>1. ASSUME NEW k \in 0 .. Places - 1, k # at, NEW d \in 0 .. Unit - 1
        PROVE  buffer'[Unit * After(r, k) + d] = buffer[Unit * After(r, k) + d]
    <3>1. After(r, k) \in 0 .. Places - 1 /\ After(r, k) # w
      BY <1>5, <2>1, AfterIsPlace, AftersDiffer
    <3>2. Unit * After(r, k) + d \in 0 .. Size - 1
      BY <3>1, CellIsInBuffer
    <3>3. ASSUME NEW x \in 0 .. Size - 1, x \in wptr .. wptr + Unit - 1
          PROVE  x - wptr \in 0 .. Unit - 1 /\ x = Unit * w + (x - wptr)
      <4>1. x \in Int /\ wptr <= x /\ x <= wptr + Unit - 1
        BY <1>3, <1>6, <3>3
      <4>2. x - wptr \in 0 .. Unit - 1 /\ x = wptr + (x - wptr)
        BY <1>3, <1>6, <4>1
      <4> QED
        BY <1>6, <4>2
    <3>4. Unit * After(r, k) + d \notin wptr .. wptr + Unit - 1
      <4> SUFFICES ASSUME Unit * After(r, k) + d \in wptr .. wptr + Unit - 1 PROVE FALSE
        OBVIOUS
      <4>1. PICK c \in 0 .. Unit - 1 : Unit * After(r, k) + d = Unit * w + c
        BY <3>2, <3>3
      <4>2. After(r, k) \in Int /\ w \in Int
        BY <1>5, <3>1
      <4> QED
        BY <3>1, <4>1, <4>2, CellsDiffer
    <3> QED
      BY <1>7, <3>2, <3>4
  <2>2. ASSUME NEW k \in 1 .. Len(pending), NEW d \in 0 .. Unit - 1
        PROVE  buffer'[Unit * After(r, Handed + k - 1) + d] = [event |-> pending[k], part |-> d]
    <3>1. Handed + k - 1 \in 0 .. Places - 1 /\ Handed + k - 1 # at
      BY <1>3, <1>5
    <3>2. Fills(pending[k], After(r, Handed + k - 1))
      BY <1>2 DEF ContentInv
    <3> QED
      BY <2>1, <3>1, <3>2 DEF Fills
  <2>3. ASSUME reader = "notify", NEW d \in 0 .. Unit - 1
        PROVE  buffer'[Unit * r + d] = [event |-> reading, part |-> d]
    <3>1. 0 # at /\ 0 \in 0 .. Places - 1 /\ After(r, 0) = r
      BY <1>3, <1>5, <2>3 DEF Handed, After
    <3> QED
      BY <1>2, <2>1, <2>3, <3>1 DEF ContentInv, Fills
  <2>4. ASSUME NEW d \in 0 .. Unit - 1
        PROVE  buffer'[Unit * w + d] = [event |-> e, part |-> d]
    <3>1. Unit * w + d \in 0 .. Size - 1
      BY <1>5, CellIsInBuffer
    <3>2. Unit * w + d = wptr + d /\ wptr + d \in wptr .. wptr + Unit - 1 /\ (wptr + d) - wptr = d
      BY <1>3, <1>6, SMTT(20)
    <3> QED
      BY <1>7, <3>1, <3>2
  <2>5. \A k \in 1 .. Len(pending) : Fills(pending[k], After(r, Handed + k - 1))'
    BY <1>4, <2>2 DEF Fills, After, Handed
  <2>6. (reader = "notify" => Fills(reading, r))'
    BY <1>4, <2>3 DEF Fills
  <2>7. Fills(writer.event, After(r, Handed + Len(pending)))'
    BY <1>4, <1>5, <2>4 DEF Fills, After, Handed
  <2> QED
    BY <1>4, <2>5, <2>6, <2>7 DEF ContentInv
<1>12. AliveInv'
  BY <1>1, <1>3, <1>4 DEF AliveInv, Alive
<1>13. LayoutInv'
  <2>1. w + 1 \in 0 .. Places
    BY <1>3, <1>5
  <2> QED
    BY <1>10, <1>11, <2>1 DEF LayoutInv
<1> QED
  BY <1>1, <1>4, <1>8, <1>9, <1>12, <1>13 DEF QueueInv

LEMMA CommitStep ==
  ASSUME OneSize, QueueInv, Commit
  PROVE  QueueInv'
<1>1. TypeOK /\ RoomInv /\ AliveInv /\ endptr = Size
  BY DEF QueueInv
<1>2. PICK r \in 0 .. Places - 1, w \in 0 .. Places : PointerInv(r, w) /\ ContentInv(r)
  BY DEF QueueInv, LayoutInv
<1> DEFINE e == writer.event
           n == Len(pending)
<1>3. /\ writer.pc = "commit" /\ e \in Events /\ e.size = Unit
      /\ n \in Nat /\ Handed \in {0, 1} /\ Taken \in {0, 1}
      /\ Unit \in Nat \ {0} /\ Places \in Nat \ {0}
  BY <1>1, EventsHaveOneSize, UnitAndPlaces, SMTT(20)
  DEF Commit, TypeOK, AliveInv, Alive, Handed, Taken
<1>4. /\ writer' = NotWriting /\ freeroom' = freeroom - Unit
      /\ pending' = Append(pending, e)
      /\ UNCHANGED <<rptr, wptr, endptr, buffer, running, filter, reader, reading>>
  BY <1>3 DEF Commit
<1>5. /\ Len(pending') = n + 1 /\ pending' \in Seq(Events)
      /\ \A k \in 1 .. n : pending'[k] = pending[k]
      /\ pending'[n + 1] = e
  BY <1>1, <1>3, <1>4 DEF TypeOK
<1>6. TypeOK'
  BY <1>1, <1>3, <1>4, <1>5 DEF TypeOK, Writers, NotWriting
<1>7. RoomInv'
  <2>1. Taken' = Taken /\ Promised' = 0 /\ Promised = 1
    BY <1>3, <1>4 DEF Taken, Promised, NotWriting
  <2>2. Unit * (Places - (n + 1) - Taken) = Unit * (Places - n - Taken) - Unit
    BY <1>3
  <2> QED
    BY <1>1, <1>3, <1>4, <1>5, <2>1, <2>2 DEF RoomInv
<1>8. PointerInv(r, w)'
  <2>1. Copied = 1 /\ Copied' = 0 /\ Handed' = Handed
    BY <1>3, <1>4 DEF Copied, Handed, NotWriting
  <2>2. Held' = Held
    BY <1>3, <1>5, <2>1 DEF Held
  <2> QED
    BY <1>2, <1>4, <2>2 DEF PointerInv, NotWriting
<1>9. ContentInv(r)'
  <2>1. ASSUME NEW k \in 1 .. n + 1
        PROVE  Fills(pending'[k], After(r, Handed + k - 1))
    <3>1. CASE k \in 1 .. n
      BY <1>2, <1>5, <3>1 DEF ContentInv
    <3>2. CASE k = n + 1
      <4>1. Handed + k - 1 = Handed + n
        BY <1>3, <3>2
      <4> QED
        BY <1>2, <1>3, <1>5, <3>2, <4>1 DEF ContentInv
    <3> QED
      BY <1>3, <3>1, <3>2
  <2>2. \A k \in 1 .. n + 1 : Fills(pending[k], After(r, Handed + k - 1))'
    BY <1>4, <2>1 DEF Fills, After, Handed
  <2>3. (reader = "notify" => Fills(reading, r))'
    BY <1>2, <1>4 DEF ContentInv, Fills
  <2> QED
    BY <1>4, <1>5, <2>2, <2>3 DEF ContentInv, NotWriting
<1>10. AliveInv'
  <2>1. \A k \in 1 .. n + 1 : Alive(pending'[k])
    BY <1>1, <1>3, <1>5 DEF AliveInv
  <2> QED
    BY <1>1, <1>4, <1>5, <2>1 DEF AliveInv, Alive, NotWriting
<1>11. LayoutInv'
  BY <1>8, <1>9 DEF LayoutInv
<1> QED
  BY <1>1, <1>4, <1>6, <1>7, <1>10, <1>11 DEF QueueInv

\* The reader takes the oldest event that waits.
LEMMA ReadIsHead ==
  ASSUME OneSize, QueueInv, Read
  PROVE  /\ pending # << >> /\ reading' = Head(pending) /\ pending' = Tail(pending)
         /\ reading' = pending[1] /\ Alive(pending[1])
<1>1. TypeOK /\ RoomInv /\ AliveInv
  BY DEF QueueInv
<1>2. PICK r \in 0 .. Places - 1, w \in 0 .. Places : PointerInv(r, w) /\ ContentInv(r)
  BY DEF QueueInv, LayoutInv
<1>3. Unit \in Nat \ {0} /\ Places \in Nat \ {0} /\ Size = Unit * Places /\ Len(pending) \in Nat
  BY <1>1, UnitAndPlaces DEF TypeOK
<1>4. Len(pending) # 0
  <2> SUFFICES ASSUME Len(pending) = 0 PROVE FALSE
    OBVIOUS
  <2>1. Taken = 0 /\ Places - 0 - 0 = Places
    BY <1>3 DEF Read, Taken
  <2>2. freeroom = Size
    BY <1>1, <1>3, <2>1 DEF RoomInv
  <2> QED
    BY <1>3, <2>2 DEF Read
<1>5. Handed = 0 /\ After(r, 0) = r
  BY <1>3 DEF Read, Handed, After
<1>6. Fills(pending[1], r) /\ Alive(pending[1])
  <2>1. 1 \in 1 .. Len(pending) /\ Handed + 1 - 1 = 0
    BY <1>3, <1>4, <1>5
  <2> QED
    BY <1>1, <1>2, <1>5, <2>1 DEF ContentInv, AliveInv
<1>7. buffer[rptr] = [event |-> pending[1], part |-> 0]
  <2>1. 0 \in 0 .. Unit - 1 /\ Unit * r + 0 = rptr
    BY <1>2, <1>3 DEF PointerInv
  <2> QED
    BY <1>6, <2>1 DEF Fills
<1>8. reading' = pending[1]
  BY <1>7 DEF Read, EventAt
<1>9. pending' = Tail(pending)
  BY <1>1, <1>3, <1>4 DEF Read, TypeOK
<1> QED
  BY <1>1, <1>3, <1>4, <1>6, <1>8, <1>9 DEF TypeOK

LEMMA ReadStep ==
  ASSUME OneSize, QueueInv, Read
  PROVE  QueueInv'
<1>1. TypeOK /\ RoomInv /\ AliveInv /\ endptr = Size
  BY DEF QueueInv
<1>2. PICK r \in 0 .. Places - 1, w \in 0 .. Places : PointerInv(r, w) /\ ContentInv(r)
  BY DEF QueueInv, LayoutInv
<1> DEFINE n == Len(pending)
<1>3. /\ reader = "idle" /\ reader' = "notify"
      /\ UNCHANGED <<rptr, wptr, endptr, freeroom, buffer, running, filter, writer>>
  BY DEF Read
<1>4. /\ n \in Nat \ {0} /\ pending' \in Seq(Events) /\ Len(pending') = n - 1
      /\ \A k \in 1 .. n - 1 : pending'[k] = pending[k + 1]
      /\ Places \in Nat \ {0}
  <2>1. pending \in Seq(Events) /\ pending # << >> /\ pending' = Tail(pending)
    BY <1>1, ReadIsHead DEF TypeOK
  <2> QED
    BY <2>1, UnitAndPlaces
<1>5. reading' = pending[1] /\ Alive(pending[1])
  BY ReadIsHead
<1>6. Handed = 0 /\ Handed' = 1 /\ Taken = 0 /\ Taken' = 1
      /\ Copied' = Copied /\ Copied \in {0, 1} /\ Promised' = Promised /\ Promised \in {0, 1}
  BY <1>3 DEF Handed, Taken, Copied, Promised
<1>7. TypeOK'
  BY <1>1, <1>3, <1>4, <1>5 DEF TypeOK, Alive
<1>8. RoomInv'
  <2>1. Places - (n - 1) - 1 = Places - n - 0
    BY <1>4
  <2> QED
    BY <1>1, <1>3, <1>4, <1>6, <2>1 DEF RoomInv
<1>9. PointerInv(r, w)'
  <2>1. Held' = Held
    BY <1>4, <1>6 DEF Held
  <2> QED
    BY <1>2, <1>3, <2>1 DEF PointerInv
<1>10. ContentInv(r)'
  <2>1. ASSUME NEW k \in 1 .. n - 1
        PROVE  Fills(pending'[k], After(r, Handed' + k - 1))
    <3>1. k + 1 \in 1 .. n /\ Handed' + k - 1 = Handed + (k + 1) - 1
      BY <1>4, <1>6
    <3> QED
      BY <1>2, <1>4, <3>1 DEF ContentInv
  <2>2. \A k \in 1 .. n - 1 : Fills(pending[k], After(r, Handed + k - 1))'
    BY <1>3, <2>1 DEF Fills, After
  <2>3. Fills(pending[1], r)
    <3>1. 1 \in 1 .. n /\ Handed + 1 - 1 = 0 /\ After(r, 0) = r
      BY <1>4, <1>6 DEF After
    <3> QED
      BY <1>2, <3>1 DEF ContentInv
  <2>4. Fills(reading, r)'
    BY <1>3, <1>5, <2>3 DEF Fills
  <2>5. Handed' + Len(pending') = Handed + n
    BY <1>4, <1>6
  <2>6. (writer.pc = "commit" => Fills(writer.event, After(r, Handed + Len(pending))))'
    <3>1. writer.pc = "commit" => Fills(writer.event, After(r, Handed' + Len(pending')))
      BY <1>2, <2>5 DEF ContentInv
    <3> QED
      BY <1>3, <3>1 DEF Fills, After
  <2> QED
    BY <1>4, <2>2, <2>4, <2>6 DEF ContentInv
<1>11. AliveInv'
  <2>1. \A k \in 1 .. n - 1 : k + 1 \in 1 .. n
    BY <1>4
  <2> QED
    BY <1>1, <1>3, <1>4, <1>5, <2>1 DEF AliveInv, Alive
<1>12. LayoutInv'
  BY <1>9, <1>10 DEF LayoutInv
<1> QED
  BY <1>1, <1>3, <1>7, <1>8, <1>11, <1>12 DEF QueueInv

LEMMA AdvanceStep ==
  ASSUME OneSize, QueueInv, Advance
  PROVE  QueueInv'
<1>1. TypeOK /\ RoomInv /\ AliveInv /\ endptr = Size
  BY DEF QueueInv
<1>2. PICK r \in 0 .. Places - 1, w \in 0 .. Places : PointerInv(r, w) /\ ContentInv(r)
  BY DEF QueueInv, LayoutInv
<1> DEFINE n == Len(pending)
           q == After(r, 1)
<1>3. /\ reader = "notify" /\ reader' = "release" /\ reading.size = Unit /\ n \in Nat
      /\ UNCHANGED <<wptr, endptr, freeroom, buffer, running, filter, writer, reading, pending>>
      /\ Unit \in Nat \ {0} /\ Places \in Nat \ {0} /\ Size = Unit * Places
  BY <1>1, EventsHaveOneSize, UnitAndPlaces DEF Advance, TypeOK
<1>4. /\ Handed = 1 /\ Handed' = 0 /\ Taken = 1 /\ Taken' = 1
      /\ Copied' = Copied /\ Copied \in {0, 1} /\ Promised' = Promised
      /\ Copied <= Promised /\ Promised \in {0, 1}
  BY <1>3 DEF Handed, Taken, Copied, Promised
<1>5. q \in 0 .. Places - 1 /\ rptr' = Unit * q
  <2>1. rptr = Unit * r /\ (rptr + Unit >= Size <=> r + 1 >= Places)
    <3>1. r \in 0 .. Places
      BY <1>3
    <3> QED
      BY <1>2, <3>1, WrapIsAtTheEnd DEF PointerInv
  <2>2. rptr' = IF r + 1 >= Places THEN 0 ELSE rptr + Unit
    BY <1>1, <1>3, <2>1 DEF Advance
  <2>3. q = IF r + 1 >= Places THEN 0 ELSE r + 1
    BY <1>3 DEF After
  <2>4. Unit * (r + 1) = rptr + Unit /\ Unit * 0 = 0
    BY <2>1, NextPlace
  <2> QED
    BY <1>3, <2>2, <2>3, <2>4
<1>6. TypeOK'
  <2>1. 0 \in 0 .. Unit - 1 /\ rptr' + 0 = rptr'
    BY <1>3, <1>5, NextPlace
  <2>2. rptr' \in 0 .. Size - 1
    BY <1>5, <2>1, CellIsInBuffer
  <2> QED
    BY <1>1, <1>3, <2>2 DEF TypeOK
<1>7. RoomInv'
  BY <1>1, <1>3, <1>4 DEF RoomInv
<1>8. n + 1 + Promised <= Places
  BY <1>1, <1>4, <1>3 DEF RoomInv
<1>9. PointerInv(q, w)'
  <2>1. Held' = Held - 1 /\ Held \in 1 .. Places
    BY <1>3, <1>4, <1>8 DEF Held
  <2>2. r + Held - w \in {0, Places, - Places}
    BY <1>2 DEF PointerInv
  <2>3. q + Held' - w \in {0, Places, - Places}
    BY <1>3, <2>1, <2>2 DEF After
  <2> QED
    BY <1>2, <1>3, <1>5, <2>3 DEF PointerInv, After
<1>10. ContentInv(q)'
  <2>1. ASSUME NEW j \in 0 .. Places - 2
        PROVE  After(q, j) = After(r, j + 1)
    BY <1>3 DEF After
  <2>2. ASSUME NEW k \in 1 .. n
        PROVE  Fills(pending[k], After(q, Handed' + k - 1))
    <3>1. k - 1 \in 0 .. Places - 2 /\ (k - 1) + 1 = Handed + k - 1 /\ Handed' + k - 1 = k - 1
      BY <1>3, <1>4, <1>8
    <3> QED
      BY <1>2, <2>1, <3>1 DEF ContentInv
  <2>3. ASSUME writer.pc = "commit"
        PROVE  Fills(writer.event, After(q, Handed' + n))
    <3>1. n \in 0 .. Places - 2 /\ n + 1 = Handed + n /\ Handed' + n = n
      BY <1>3, <1>4, <1>8, <2>3 DEF Promised
    <3> QED
      BY <1>2, <2>1, <2>3, <3>1 DEF ContentInv
  <2>4. \A k \in 1 .. n : Fills(pending[k], After(q, Handed + k - 1))'
    BY <1>3, <2>2 DEF Fills, After
  <2>5. (writer.pc = "commit" => Fills(writer.event, After(q, Handed + Len(pending))))'
    BY <1>3, <2>3 DEF Fills, After
  <2> QED
    BY <1>3, <2>4, <2>5 DEF ContentInv
<1>11. AliveInv'
  BY <1>1, <1>3 DEF AliveInv, Alive
<1>12. LayoutInv'
  <2> HIDE DEF q
  <2> QED
    BY <1>5, <1>9, <1>10 DEF LayoutInv
<1> QED
  BY <1>1, <1>3, <1>6, <1>7, <1>11, <1>12 DEF QueueInv

LEMMA ReleaseStep ==
  ASSUME OneSize, QueueInv, Release
  PROVE  QueueInv'
<1>1. TypeOK /\ RoomInv /\ AliveInv /\ endptr = Size
  BY DEF QueueInv
<1>2. PICK r \in 0 .. Places - 1, w \in 0 .. Places : PointerInv(r, w) /\ ContentInv(r)
  BY DEF QueueInv, LayoutInv
<1>3. /\ reader = "release" /\ reader' = "idle" /\ reading' = NoEvent
      /\ reading.size = Unit /\ freeroom' = freeroom + Unit /\ Len(pending) \in Nat
      /\ UNCHANGED <<rptr, wptr, endptr, buffer, running, filter, writer, pending>>
      /\ Unit \in Nat \ {0} /\ Places \in Nat \ {0}
  BY <1>1, EventsHaveOneSize, UnitAndPlaces, SMTT(20) DEF Release, TypeOK, AliveInv, Alive
<1>4. TypeOK'
  BY <1>1, <1>3 DEF TypeOK
<1>5. RoomInv'
  <2>1. Taken = 1 /\ Taken' = 0 /\ Promised' = Promised /\ Promised \in {0, 1}
    BY <1>3 DEF Taken, Promised
  <2>2. Unit * (Places - Len(pending) - 0) = Unit * (Places - Len(pending) - 1) + Unit
    BY <1>3
  <2> QED
    BY <1>1, <1>3, <2>1, <2>2 DEF RoomInv
<1>6. PointerInv(r, w)'
  BY <1>2, <1>3 DEF PointerInv, Held, Handed, Copied
<1>7. ContentInv(r)'
  BY <1>2, <1>3 DEF ContentInv, Handed, Fills, After
<1>8. AliveInv'
  BY <1>1, <1>3 DEF AliveInv, Alive
<1>9. LayoutInv'
  BY <1>6, <1>7 DEF LayoutInv
<1> QED
  BY <1>1, <1>3, <1>4, <1>5, <1>8, <1>9 DEF QueueInv

\* What happens to the stream does not move anything in the buffer.
LEMMA LayoutStays ==
  ASSUME RoomInv, LayoutInv,
         UNCHANGED <<rptr, wptr, freeroom, buffer, writer, reader, reading, pending>>
  PROVE  RoomInv' /\ LayoutInv'
<1>1. PICK r \in 0 .. Places - 1, w \in 0 .. Places : PointerInv(r, w) /\ ContentInv(r)
  BY DEF LayoutInv
<1>2. PointerInv(r, w)'
  BY <1>1 DEF PointerInv, Held, Handed, Copied
<1>3. ContentInv(r)'
  BY <1>1 DEF ContentInv, Handed, Fills, After
<1>4. RoomInv'
  BY DEF RoomInv, Taken, Promised
<1> QED
  BY <1>2, <1>3, <1>4 DEF LayoutInv

LEMMA StartStep ==
  ASSUME QueueInv, StartStream
  PROVE  QueueInv'
<1>1. TypeOK /\ RoomInv /\ AliveInv /\ endptr = Size /\ LayoutInv
  BY DEF QueueInv
<1>2. /\ ~ running /\ running' = TRUE /\ filter' = 1 - filter
      /\ UNCHANGED <<rptr, wptr, endptr, freeroom, buffer, writer, reader, reading, pending>>
  BY DEF StartStream
<1>3. TypeOK'
  BY <1>1, <1>2 DEF TypeOK, Filters
<1>4. RoomInv' /\ LayoutInv'
  BY <1>1, <1>2, LayoutStays
<1>5. AliveInv'
  BY <1>1, <1>2 DEF AliveInv, Alive
<1> QED
  BY <1>1, <1>2, <1>3, <1>4, <1>5 DEF QueueInv

LEMMA StopStep ==
  ASSUME OneSize, QueueInv, StopStream
  PROVE  QueueInv'
<1>1. TypeOK /\ AliveInv /\ Unit \in Nat \ {0} /\ Places \in Nat \ {0} /\ Size = Unit * Places
  BY UnitAndPlaces DEF QueueInv
<1>2. /\ rptr' = 0 /\ wptr' = 0 /\ endptr' = Size /\ freeroom' = Size
      /\ pending' = << >> /\ reader = "idle" /\ writer.pc = "idle" /\ running' = FALSE
      /\ UNCHANGED <<buffer, filter, writer, reader, reading>>
  BY DEF StopStream
<1>3. TypeOK'
  BY <1>1, <1>2, SizesAssumption DEF TypeOK
<1>4. RoomInv'
  BY <1>1, <1>2 DEF RoomInv, Taken, Promised
<1>5. PointerInv(0, 0)'
  BY <1>1, <1>2, NextPlace DEF PointerInv, Held, Handed, Copied
<1>6. ContentInv(0)' /\ AliveInv'
  BY <1>1, <1>2 DEF ContentInv, AliveInv
<1>7. LayoutInv'
  BY <1>1, <1>5, <1>6 DEF LayoutInv
<1> QED
  BY <1>2, <1>3, <1>4, <1>6, <1>7 DEF QueueInv

LEMMA StutterStep == QueueInv /\ UNCHANGED vars => QueueInv'
<1> SUFFICES ASSUME QueueInv, UNCHANGED vars PROVE QueueInv'
  OBVIOUS
<1>1. TypeOK' /\ (endptr = Size)'
  BY DEF QueueInv, vars, TypeOK
<1>2. RoomInv' /\ LayoutInv'
  BY LayoutStays DEF QueueInv, vars
<1>3. AliveInv'
  BY DEF QueueInv, vars, AliveInv, Alive
<1> QED
  BY <1>1, <1>2, <1>3 DEF QueueInv

LEMMA StepKeepsInvariant == OneSize /\ QueueInv /\ [Next]_vars => QueueInv'
BY PlaceStep, CopyStep, CommitStep, ReadStep, AdvanceStep, ReleaseStep,
   StartStep, StopStep, StutterStep DEF Next

-----------------------------------------------------------------------------
(* The theorems.                                                           *)

\* Whatever the two threads interleave, the counter of free room agrees with
\* the pointers, and each event posted is where the reader will look for it
\* (write_event, read_event).
THEOREM QueueInvariance ==
  ASSUME OneSize PROVE Spec => []QueueInv
<1>1. OneSize
  OBVIOUS
<1>2. Init => QueueInv
  BY <1>1, InitIsWhole
<1>3. QueueInv /\ [Next]_vars => QueueInv'
  BY <1>1, StepKeepsInvariant
<1> QED
  BY <1>2, <1>3, PTL DEF Spec

\* The pointers stay in the buffer and what is read from it is an event
\* (write_event, read_event).
THEOREM QueueTypes ==
  ASSUME OneSize PROVE Spec => []TypeOK
<1>1. QueueInv => TypeOK
  BY DEF QueueInv
<1> QED
  BY <1>1, QueueInvariance, PTL

\* The ticker's thread never writes over the event that a callback was given,
\* its argument included (write_event, read_event).
THEOREM HandedOutIsIntact ==
  ASSUME OneSize PROVE Spec => []ArgumentIsIntact
<1>1. QueueInv => ArgumentIsIntact
  <2> SUFFICES ASSUME QueueInv, reader = "notify", reading \in Events,
                      NEW d \in 0 .. reading.size - 1
               PROVE  buffer[rptr + d] = [event |-> reading, part |-> d]
    BY DEF ArgumentIsIntact
  <2>1. PICK r \in 0 .. Places - 1, w \in 0 .. Places : PointerInv(r, w) /\ ContentInv(r)
    BY DEF QueueInv, LayoutInv
  <2>2. d \in 0 .. Unit - 1
    BY EventsHaveOneSize
  <2> QED
    BY <2>1, <2>2 DEF PointerInv, ContentInv, Fills
<1> QED
  BY <1>1, QueueInvariance, PTL

\* A callback is only called for a filter of the stream that runs
\* (linphone_call_stop_media_streams, ms_event_queue_skip).
THEOREM CalledFilterIsAlive ==
  ASSUME OneSize PROVE Spec => []CallbackFilterIsAlive
<1>1. QueueInv => CallbackFilterIsAlive
  BY EventsHaveOneSize DEF QueueInv, AliveInv, Alive, CallbackFilterIsAlive
<1> QED
  BY <1>1, QueueInvariance, PTL

\* A step of the ring buffer is a step of the FIFO.
LEMMA StepIsFifo ==
  ASSUME OneSize, QueueInv, [Next]_vars
  PROVE  [Fifo!FifoNext]_(Fifo!fifoVars)
<1>1. CASE Commit
  <2>1. Len(pending) + 1 <= Places /\ Len(pending) \in Nat /\ Taken \in {0, 1}
    BY <1>1, SMTT(20) DEF QueueInv, TypeOK, RoomInv, Commit, Promised, Taken
  <2>2. Places <= Size
    <3>1. Unit \in Nat \ {0} /\ Places \in Nat \ {0} /\ Size = Unit * Places
      BY UnitAndPlaces
    <3>2. (Unit - 1) * Places \in Nat /\ Unit * Places = Places + (Unit - 1) * Places
      BY <3>1
    <3> QED
      BY <3>1, <3>2
  <2>3. Len(pending) < Size /\ writer.event \in Events
    BY <1>1, <2>1, <2>2, UnitAndPlaces, SizesAssumption DEF QueueInv, AliveInv, Alive, Commit
  <2> QED
    BY <1>1, <2>3 DEF Commit, Fifo!FifoNext, Fifo!Post
<1>2. CASE Read
  BY <1>2, ReadIsHead DEF Read, QueueInv, AliveInv, Fifo!FifoNext, Fifo!Deliver
<1>3. CASE Release
  BY <1>3 DEF Release, Fifo!FifoNext, Fifo!Done
<1>4. CASE StopStream
  BY <1>4 DEF StopStream, QueueInv, AliveInv, Fifo!FifoNext, Fifo!Discard
<1>5. CASE (\E e \in Events : Place(e)) \/ Copy \/ Advance \/ StartStream \/ UNCHANGED vars
  BY <1>5 DEF Place, Copy, Advance, StartStream, vars, Fifo!fifoVars
<1> QED
  BY <1>1, <1>2, <1>3, <1>4, <1>5 DEF Next

\* The ring buffer of two threads that share only a counter implements a FIFO:
\* each event is handed out once, in order, and none is lost that had room.
THEOREM QueueImplementsFifo ==
  ASSUME OneSize PROVE Spec => DeliversInOrder
<1>1. Init => Fifo!FifoInit
  BY DEF Init, Fifo!FifoInit
<1>2. QueueInv /\ [Next]_vars => [Fifo!FifoNext]_(Fifo!fifoVars)
  BY StepIsFifo
<1> QED
  BY <1>1, <1>2, QueueInvariance, PTL DEF Spec, DeliversInOrder, Fifo!FifoSpec
=============================================================================
