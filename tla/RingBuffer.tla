----------------------------- MODULE RingBuffer -----------------------------
(***************************************************************************)
(* The fixed-capacity circular buffer of src/src/core/ring_buffer.c.  The  *)
(* collector's history_push (net_collector.c) and the charts that read the *)
(* histories use the same representation: an array, the slot that is       *)
(* written next, and the number of slots in use.                           *)
(***************************************************************************)
EXTENDS Integers, Sequences

CONSTANTS Capacity,     \* length of the backing array
          Value,        \* the samples
          NoValue       \* what a read outside the buffer returns (0.0f)

ASSUME CapacityAssumption == Capacity \in Nat \ {0}

RingSlot == 0 .. Capacity - 1

Ring == [data : [RingSlot -> Value], head : RingSlot, count : 0 .. Capacity]

(***************************************************************************)
(* The operations, as functions of the buffer.                             *)
(***************************************************************************)
\* Mutant: the head runs off the array.
NextSlotUnwrapped(s) == s + 1

\* The slot after s, (s + 1) % capacity.
NextSlot(s) == (s + 1) % Capacity

\* Mutant: the counter that stops one slot early.
PushedStopsEarly(r, v) ==
  [data  |-> [r.data EXCEPT ![r.head] = v],
   head  |-> NextSlot(r.head),
   count |-> IF r.count < Capacity - 1 THEN r.count + 1 ELSE r.count]

Pushed(r, v) ==
  [data  |-> [r.data EXCEPT ![r.head] = v],
   head  |-> NextSlot(r.head),
   count |-> IF r.count < Capacity THEN r.count + 1 ELSE r.count]

Cleared(r) == [data |-> r.data, head |-> 0, count |-> 0]

\* The slot of the oldest value.
Oldest(r) == (r.head - r.count + Capacity) % Capacity

\* ring_buffer_get: index 0 is the oldest value; outside, 0.0f.
Get(r, index) ==
  IF index < 0 \/ index >= r.count
    THEN NoValue
    ELSE r.data[(Oldest(r) + index) % Capacity]

\* What a reader sees that walks the buffer from index 0 to count - 1.
Contents(r) == [k \in 1 .. r.count |-> Get(r, k - 1)]

-----------------------------------------------------------------------------
VARIABLE rb

\* ring_buffer_init: the caller's array keeps whatever it held.
ring_buffer_init == rb \in [data : [RingSlot -> Value], head : {0}, count : {0}]

ring_buffer_push(v) == rb' = Pushed(rb, v)

ring_buffer_clear == rb' = Cleared(rb)

RingNext == ring_buffer_clear \/ \E v \in Value : ring_buffer_push(v)

RingSpec == ring_buffer_init /\ [][RingNext]_rb

-----------------------------------------------------------------------------
RingTypeOK == rb \in Ring

\* A buffer that is read from index 0 upwards is the log of the most recent
\* pushes: the wrap-around arithmetic of push and get agree with each other.
Log == INSTANCE BoundedLog WITH items <- Contents(rb)

ImplementsBoundedLog == Log!LogSpec
=============================================================================
