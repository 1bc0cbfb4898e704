--------------------------- MODULE MemorySlabPool ---------------------------
(***************************************************************************)
(* memory_slab_pool: the pool every assembled_chunk takes its memory from. *)
(* The assembler thread calls get_slab() without waiting and stops the     *)
(* server when there is none; other users wait.  The destructor of a chunk *)
(* calls put_slab(), in whatever thread drops the last reference, so slabs *)
(* may be passed from the thread that got them to another one.             *)
(***************************************************************************)
EXTENDS Integers, FiniteSets

CONSTANTS
  Slabs,    \* the pieces of memory that allocate() creates
  Threads,  \* the users of the pool
  Null      \* a null memory_slab_t

NSlabs == Cardinality(Slabs)

ASSUME PoolAssumption ==
  /\ IsFiniteSet(Slabs) /\ NSlabs > 0    \* checked by the constructor
  /\ Null \notin Slabs

VARIABLES
  slabs,           \* [0 .. NSlabs - 1 -> Slabs \cup {Null}], used as a stack
  curr_size,
  low_water_mark,
  held,            \* [Threads -> SUBSET Slabs]
  thread,          \* [Threads -> ...]: where a thread is
  denied           \* auxiliary: some thread has found the pool empty

poolVars == <<slabs, curr_size, low_water_mark, held, thread, denied>>

Places == 0 .. NSlabs - 1

(* The constructor, after allocate() has pushed every slab. *)
PoolInit ==
  /\ slabs \in {s \in [Places -> Slabs] : \A i, j \in Places : i # j => s[i] # s[j]}
  /\ curr_size = NSlabs
  /\ low_water_mark = NSlabs
  /\ held = [t \in Threads |-> {}]
  /\ thread = [t \in Threads |-> "working"]
  /\ denied = FALSE

-----------------------------------------------------------------------------
(* get_slab(zero, wait).                                                   *)

HeldTwice(i)   == slabs                          \* mutant: slab stays in the pool
TakenFrom(i)   == [slabs EXCEPT ![i] = Null]
MarkAfter(n)   == n                              \* mutant: min forgotten
LowWater(n)    == IF n < low_water_mark THEN n ELSE low_water_mark

(* One pass of the loop finds a slab. *)
Take(t) ==
  /\ curr_size > 0
  /\ held' = [held EXCEPT ![t] = @ \cup {slabs[curr_size - 1]}]
  /\ slabs' = TakenFrom(curr_size - 1)
  /\ curr_size' = curr_size - 1
  /\ low_water_mark' = LowWater(curr_size - 1)
  /\ thread' = [thread EXCEPT ![t] = "working"]
  /\ UNCHANGED denied

Get(t) == thread[t] = "working" /\ Take(t)

(* ... or none: returns a null pointer, or sleeps until a slab comes back. *)
GetFails(t, wait) ==
  /\ thread[t] = "working"
  /\ curr_size = 0
  /\ thread' = IF wait THEN [thread EXCEPT ![t] = "asleep"] ELSE thread
  /\ denied' = TRUE
  /\ UNCHANGED <<slabs, curr_size, low_water_mark, held>>

(* A thread woken on the condition variable checks again. *)
GetAgain(t) == thread[t] = "woken" /\ Take(t)

SleepAgain(t) ==
  /\ thread[t] = "woken"
  /\ curr_size = 0
  /\ thread' = [thread EXCEPT ![t] = "asleep"]
  /\ UNCHANGED <<slabs, curr_size, low_water_mark, held, denied>>

-----------------------------------------------------------------------------
(* put_slab(), which throws when the pool is full or the place is taken.   *)

Waiters == {t \in Threads : thread[t] = "asleep"}
NobodyWoken == thread                            \* mutant: no notify
AllWoken == [t \in Threads |-> IF t \in Waiters THEN "woken" ELSE thread[t]]

PoolBroken == curr_size >= NSlabs \/ slabs[curr_size] # Null

Put(t, s) ==
  /\ thread[t] = "working"
  /\ s \in held[t]
  /\ ~PoolBroken
  /\ slabs' = [slabs EXCEPT ![curr_size] = s]
  /\ curr_size' = curr_size + 1
  /\ held' = [held EXCEPT ![t] = @ \ {s}]
  /\ thread' = AllWoken
  /\ UNCHANGED <<low_water_mark, denied>>

(* A chunk changes hands: its last reference is dropped by another thread. *)
HandOver(t, u, s) ==
  /\ thread[t] = "working"
  /\ s \in held[t]
  /\ held' = [held EXCEPT ![t] = @ \ {s}, ![u] = @ \cup {s}]
  /\ UNCHANGED <<slabs, curr_size, low_water_mark, thread, denied>>

PoolNext ==
  \E t \in Threads :
    \/ Get(t) \/ GetAgain(t) \/ SleepAgain(t)
    \/ \E wait \in BOOLEAN : GetFails(t, wait)
    \/ \E s \in Slabs : Put(t, s) \/ \E u \in Threads \ {t} : HandOver(t, u, s)

PoolSpec == PoolInit /\ [][PoolNext]_poolVars

-----------------------------------------------------------------------------
(* Properties.                                                             *)

(* Every variable has its type.                                               *)
PoolTypeOK ==
  /\ slabs \in [Places -> Slabs \cup {Null}]
  /\ curr_size \in 0 .. NSlabs
  /\ low_water_mark \in 0 .. NSlabs
  /\ held \in [Threads -> SUBSET Slabs]
  /\ thread \in [Threads -> {"working", "asleep", "woken"}]
  /\ denied \in BOOLEAN

InPool == {slabs[i] : i \in 0 .. curr_size - 1}

(* The lower part of the pool is full, the upper part is empty. *)
PoolIsStack == \A i \in Places : slabs[i] = Null <=> i >= curr_size

(* No slab is twice in the pool, with two threads, or in both places. *)
OnePlaceEach ==
  /\ \A i, j \in 0 .. curr_size - 1 : i # j => slabs[i] # slabs[j]
  /\ \A t \in Threads : held[t] \cap InPool = {}
  /\ \A t, u \in Threads : t # u => held[t] \cap held[u] = {}

RoomToReturn == \A t \in Threads : held[t] # {} => ~PoolBroken

(* No two chunks share memory: each slab is in one place, in the lower part   *)
(* of the pool or with one thread.  put_slab() finds room whenever a thread   *)
(* has a slab to return, so that neither of its internal errors occurs.       *)
SlabsConserved == PoolIsStack /\ OnePlaceEach /\ RoomToReturn

(* A thread asleep in get_slab() has an empty pool: put_slab() wakes all that *)
(* sleep, and those who find nothing left for them sleep again.               *)
PoolNoLostWakeup == Waiters # {} => curr_size = 0

(* low_water_mark tells the operator the truth: a pool that has ever been     *)
(* found empty is reported with 0, and there were never fewer slabs than it   *)
(* says.                                                                      *)
LowWaterMarkTrue ==
  /\ low_water_mark <= curr_size
  /\ denied => low_water_mark = 0
=============================================================================
