---------------------------- MODULE OutputDevice ----------------------------
(***************************************************************************)
(* output_device: the queue of write requests of one disk and the i/o      *)
(* thread that serves it.  The assembler thread and RPC threads enqueue,   *)
(* the RFI thread announces masks that are filled, and the threads that    *)
(* shut the server down call end_stream() and join_thread().  One mutex    *)
(* and one condition variable serve them all: every wait on it is a member *)
(* of "asleep", and notify_all() empties that set.  All sections under the *)
(* mutex are single steps but one, the search of pop_write_request() for   *)
(* masks that have arrived: masks are filled without the mutex, and so     *)
(* between two steps of the search.                                        *)
(*                                                                         *)
(* All chunks have nrfifreq > 0 (without masks need_rfi_mask throws in     *)
(* enqueue_write_request() and nothing ever waits for a mask).  The        *)
(* std::map and std::set kept in each chunk, filename_map and              *)
(* filename_set, are restricted to this device.                            *)
(***************************************************************************)
EXTENDS Integers, FiniteSets

CONSTANTS
  Requests,  \* the write_chunk_requests; each is enqueued at most once
  ChunkOf,   \* [Requests -> Nat]: the chunk, numbered in order of fpga_begin
  FileOf,    \* [Requests -> Files]
  Priority,  \* [Requests -> Int]
  NeedMask,  \* need_rfi_mask: a subset of Requests
  Files,     \* file names on this device
  Closers,   \* the threads that call end_stream() and then join_thread()
  NoRequest  \* a null pointer

Chunks == {ChunkOf[r] : r \in Requests}

ASSUME RequestAssumption ==
  /\ ChunkOf \in [Requests -> Nat]
  /\ FileOf \in [Requests -> Files]
  /\ Priority \in [Requests -> Int]
  /\ NeedMask \subseteq Requests
  /\ NoRequest \notin Requests
  /\ "io" \notin Closers

VARIABLES
  write_reqs,          \* _write_reqs
  awaiting_rfi,        \* _awaiting_rfi; its order tells nothing apart
  end_stream_called,
  join_thread_called,
  thread_joined,
  asleep,              \* the threads waiting on _cond
  io,                  \* where the i/o thread is
  current,             \* the request it works on
  passed,              \* the waiting requests its search has passed over
  ready,               \* auxiliary: what it could write when it took the lock
  filename_set,        \* [Chunks -> SUBSET Files]
  filename_map,        \* [Chunks -> SUBSET Files]: at most one file, to link to
  disk,                \* the files that exist: [SUBSET Files -> Chunks]
  has_rfi_mask,        \* the chunks whose mask is filled
  unannounced,         \* those filled_rfi_mask() is still to be called for
  outcome,             \* [Requests -> ...]: what became of a request
  closer               \* [Closers -> ...]: where a closing thread is

queueVars == <<write_reqs, awaiting_rfi>>
flagVars  == <<end_stream_called, join_thread_called, thread_joined>>
ioVars    == <<io, current, passed, ready>>
fileVars  == <<filename_set, filename_map, disk>>
maskVars  == <<has_rfi_mask, unannounced>>
vars == <<queueVars, flagVars, asleep, ioVars, fileVars, maskVars, outcome, closer>>

Init ==
  /\ write_reqs = {} /\ awaiting_rfi = {}
  /\ end_stream_called = FALSE
  /\ join_thread_called = FALSE
  /\ thread_joined = FALSE
  /\ asleep = {}
  /\ io = "pop" /\ current = NoRequest
  /\ passed = {} /\ ready = {}
  /\ filename_set = [c \in Chunks |-> {}]
  /\ filename_map = [c \in Chunks |-> {}]
  /\ disk \in [{} -> Chunks]
  /\ has_rfi_mask = {} /\ unannounced = {}
  /\ outcome = [r \in Requests |-> "new"]
  /\ closer = [c \in Closers |-> "out"]

-----------------------------------------------------------------------------
(* notify_all() in enqueue_write_request(), pop_write_request(), ...       *)
NotifyAll == asleep' = {}

(* ... in filled_rfi_mask(), and in join_thread(), where it wakes an i/o   *)
(* thread that went to sleep before end_stream() set its flag.             *)
NobodyOnMask == asleep                           \* mutant: no notify
AfterMask    == {}
NobodyOnJoin == asleep                           \* mutant: no notify
AfterJoin    == {}

(* The i/o thread holds the lock while it looks through _awaiting_rfi.     *)
LockFree == io # "searching"

MustWait(r) == r \in NeedMask /\ ChunkOf[r] \notin has_rfi_mask

(* enqueue_write_request(), by any thread. *)
Enqueue(r) ==
  /\ LockFree
  /\ outcome[r] = "new"
  /\ \/ /\ end_stream_called
        /\ outcome' = [outcome EXCEPT ![r] = "failed"]
        /\ UNCHANGED <<queueVars, asleep>>
     \/ /\ ~end_stream_called
        /\ MustWait(r)
        /\ awaiting_rfi' = awaiting_rfi \cup {r}
        /\ outcome' = [outcome EXCEPT ![r] = "accepted"]
        /\ UNCHANGED <<write_reqs, asleep>>
     \/ /\ ~end_stream_called
        /\ ~MustWait(r)
        /\ write_reqs' = write_reqs \cup {r}
        /\ outcome' = [outcome EXCEPT ![r] = "accepted"]
        /\ NotifyAll
        /\ UNCHANGED awaiting_rfi
  /\ UNCHANGED <<flagVars, ioVars, fileVars, maskVars, closer>>

(* The RFI thread fills a mask, without the lock, and then tells the       *)
(* device so, with it.                                                     *)
FillMask(c) ==
  /\ c \notin has_rfi_mask
  /\ has_rfi_mask' = has_rfi_mask \cup {c}
  /\ unannounced' = unannounced \cup {c}
  /\ UNCHANGED <<queueVars, flagVars, asleep, ioVars, fileVars, outcome, closer>>

FilledRfiMask(c) ==
  /\ LockFree
  /\ c \in unannounced
  /\ unannounced' = unannounced \ {c}
  /\ asleep' = AfterMask
  /\ UNCHANGED <<queueVars, flagVars, ioVars, fileVars, has_rfi_mask, outcome, closer>>

-----------------------------------------------------------------------------
(* The i/o thread: pop_write_request().                                    *)

(* _less_than: priority first, then the earlier chunk. *)
LessThan(x, y) ==
  \/ Priority[x] < Priority[y]
  \/ Priority[x] = Priority[y] /\ ChunkOf[x] > ChunkOf[y]

(* Only then the i/o thread returns, once it is told to. *)
MayExitEarly(awaiting) == end_stream_called      \* mutant: _awaiting_rfi overlooked
MayExit(awaiting) == end_stream_called /\ awaiting = {}

MaskReceived == {r \in awaiting_rfi : ChunkOf[r] \in has_rfi_mask}

(* It takes the lock: on entry, and when it wakes up. *)
TakeLock ==
  /\ io = "pop"
  /\ "io" \notin asleep
  /\ io' = "searching"
  /\ ready' = write_reqs \cup MaskReceived
  /\ UNCHANGED <<queueVars, flagVars, asleep, current, passed, fileVars, maskVars, outcome, closer>>

(* One waiting request after the other: one whose mask has arrived changes *)
(* the queue, and the search goes on with those not yet seen.              *)
StopAtFirst(r) == awaiting_rfi \ {r}             \* mutant: break after the erase
SearchOn(r)    == passed

CheckMask(r) ==
  /\ io = "searching"
  /\ r \in awaiting_rfi \ passed
  /\ \/ /\ MustWait(r)
        /\ passed' = passed \cup {r}
        /\ UNCHANGED queueVars
     \/ /\ ~MustWait(r)
        /\ write_reqs' = write_reqs \cup {r}
        /\ awaiting_rfi' = awaiting_rfi \ {r}
        /\ passed' = SearchOn(r)
  /\ UNCHANGED <<flagVars, asleep, io, current, ready, fileVars, maskVars, outcome, closer>>

Searched == io = "searching" /\ passed = awaiting_rfi

(* The top of the priority queue. *)
PopRequest(r) ==
  /\ Searched
  /\ r \in write_reqs /\ ~\E other \in write_reqs : LessThan(r, other)
  /\ write_reqs' = write_reqs \ {r}
  /\ current' = r
  /\ io' = "writing"
  /\ passed' = {}
  /\ NotifyAll
  /\ UNCHANGED <<awaiting_rfi, flagVars, ready, fileVars, maskVars, outcome, closer>>

(* A null pointer, on which the thread returns. *)
PopNull ==
  /\ Searched
  /\ write_reqs = {} /\ MayExit(awaiting_rfi)
  /\ io' = "exited"
  /\ passed' = {} /\ ready' = {}
  /\ UNCHANGED <<queueVars, flagVars, asleep, current, fileVars, maskVars, outcome, closer>>

PopWaits ==
  /\ Searched
  /\ write_reqs = {} /\ ~MayExit(awaiting_rfi)
  /\ io' = "pop"
  /\ asleep' = asleep \cup {"io"}
  /\ passed' = {} /\ ready' = {}
  /\ UNCHANGED <<queueVars, flagVars, current, fileVars, maskVars, outcome, closer>>

-----------------------------------------------------------------------------
(* The i/o thread: io_thread_main(), for the request it has popped.  Only  *)
(* this thread touches the names of this device, so the section between    *)
(* the two filename_mutex sections needs no step of its own.               *)

StillHeld == current                             \* mutant: request not released
Released  == NoRequest

Report(success) ==
  /\ outcome' = [outcome EXCEPT ![current] = IF success THEN "succeeded" ELSE "failed"]
  /\ io' = "pop"
  /\ current' = Released
  /\ ready' = {}
  /\ UNCHANGED <<queueVars, flagVars, asleep, passed, maskVars, closer>>

Writing == io = "writing"
ChunkNow == ChunkOf[current]
FileNow == FileOf[current]
Duplicate == FileNow \in filename_set[ChunkNow]
LinkSource == filename_map[ChunkNow]

Record ==
  /\ filename_set' = [filename_set EXCEPT ![ChunkNow] = @ \cup {FileNow}]
  /\ filename_map' = [filename_map EXCEPT ![ChunkNow] = {FileNow}]

FileExistsUnchecked == FALSE                     \* mutant: file overwritten
FileExists == FileNow \in DOMAIN disk

(* write_msgpack_file() refuses a chunk without mask; a link needs no data. *)
MaskUnchecked == TRUE                            \* mutant: check forgotten
MaskWritable == ChunkNow \in has_rfi_mask

PutOnDisk(c) ==
  disk' = [f \in DOMAIN disk \cup {FileNow} |-> IF f = FileNow THEN c ELSE disk[f]]

SkipDuplicate ==
  /\ Writing
  /\ Duplicate
  /\ Report(TRUE)
  /\ UNCHANGED fileVars

WriteFile ==
  /\ Writing
  /\ ~Duplicate /\ ~FileExists
  /\ LinkSource = {} /\ MaskWritable
  /\ PutOnDisk(ChunkNow)
  /\ Record
  /\ Report(TRUE)

LinkFile ==
  /\ Writing
  /\ ~Duplicate /\ ~FileExists
  /\ \E source \in LinkSource : PutOnDisk(disk[source])
  /\ Record
  /\ Report(TRUE)

(* The file exists, the mask is missing, or the system call fails. *)
WriteFails ==
  /\ Writing
  /\ ~Duplicate
  /\ Report(FALSE)
  /\ UNCHANGED fileVars

-----------------------------------------------------------------------------
(* A closing thread: end_stream(wait), then join_thread().                 *)

UnchangedByCloser == UNCHANGED <<ioVars, fileVars, maskVars>>

EndStream(c, wait) ==
  /\ LockFree
  /\ closer[c] = "out"
  /\ end_stream_called' = TRUE
  /\ \/ /\ wait
        /\ closer' = [closer EXCEPT ![c] = "ending"]
        /\ UNCHANGED <<queueVars, asleep, outcome>>
     \/ /\ ~wait
        /\ closer' = [closer EXCEPT ![c] = "ended"]
        /\ outcome' = [r \in Requests |->
             IF r \in write_reqs \cup awaiting_rfi THEN "cancelled" ELSE outcome[r]]
        /\ write_reqs' = {} /\ awaiting_rfi' = {}
        /\ NotifyAll
  /\ UNCHANGED <<join_thread_called, thread_joined>>
  /\ UnchangedByCloser

QueuesEmpty == write_reqs = {} /\ awaiting_rfi = {}

(* The loop of end_stream(true): checked first, and after each wakeup. *)
EndStreamLoop(c) ==
  /\ LockFree
  /\ closer[c] = "ending"
  /\ c \notin asleep
  /\ \/ /\ QueuesEmpty
        /\ closer' = [closer EXCEPT ![c] = "ended"]
        /\ UNCHANGED asleep
     \/ /\ ~QueuesEmpty
        /\ asleep' = asleep \cup {c}
        /\ UNCHANGED closer
  /\ UNCHANGED <<queueVars, flagVars, outcome>>
  /\ UnchangedByCloser

(* The first caller joins the thread, the others wait for thread_joined. *)
JoinThread(c) ==
  /\ LockFree
  /\ closer[c] = "ended"
  /\ \/ /\ ~join_thread_called
        /\ join_thread_called' = TRUE
        /\ asleep' = AfterJoin
        /\ closer' = [closer EXCEPT ![c] = "joining"]
     \/ /\ join_thread_called
        /\ closer' = [closer EXCEPT ![c] = "awaiting"]
        /\ UNCHANGED <<join_thread_called, asleep>>
  /\ UNCHANGED <<queueVars, end_stream_called, thread_joined, outcome>>
  /\ UnchangedByCloser

Joined(c) ==
  /\ closer[c] = "joining"
  /\ io = "exited"
  /\ thread_joined' = TRUE
  /\ NotifyAll
  /\ closer' = [closer EXCEPT ![c] = "joined"]
  /\ UNCHANGED <<queueVars, end_stream_called, join_thread_called, outcome>>
  /\ UnchangedByCloser

JoinLoop(c) ==
  /\ LockFree
  /\ closer[c] = "awaiting"
  /\ c \notin asleep
  /\ \/ /\ thread_joined
        /\ closer' = [closer EXCEPT ![c] = "joined"]
        /\ UNCHANGED asleep
     \/ /\ ~thread_joined
        /\ asleep' = asleep \cup {c}
        /\ UNCHANGED closer
  /\ UNCHANGED <<queueVars, flagVars, outcome>>
  /\ UnchangedByCloser

-----------------------------------------------------------------------------
(* The device is shut down. *)
Terminated ==
  /\ io = "exited"
  /\ \A c \in Closers : closer[c] = "joined"
  /\ UNCHANGED vars

PopSteps ==
  \/ TakeLock
  \/ \E r \in Requests : CheckMask(r) \/ PopRequest(r)
  \/ PopNull
  \/ PopWaits
IoSteps == PopSteps \/ SkipDuplicate \/ WriteFile \/ LinkFile \/ WriteFails
CloserSteps(c) == EndStreamLoop(c) \/ JoinThread(c) \/ Joined(c) \/ JoinLoop(c)

Next ==
  \/ \E r \in Requests : Enqueue(r)
  \/ \E c \in Chunks : FillMask(c) \/ FilledRfiMask(c)
  \/ IoSteps
  \/ \E c \in Closers : (\E wait \in BOOLEAN : EndStream(c, wait)) \/ CloserSteps(c)
  \/ Terminated

Spec == Init /\ [][Next]_vars

(* The i/o thread runs, filled_rfi_mask() follows the mask, a closing      *)
(* thread finishes what it began.  Masks need never be filled.             *)
FairSpec ==
  /\ Spec
  /\ WF_vars(IoSteps)
  /\ \A c \in Chunks : WF_vars(FilledRfiMask(c))
  /\ \A c \in Closers : WF_vars(CloserSteps(c))

-----------------------------------------------------------------------------
(* Properties.                                                             *)

Outcomes == {"new", "accepted", "succeeded", "failed", "cancelled"}

(* Every variable has its type; the i/o thread holds a request only to write  *)
(* it.                                                                        *)
TypeOK ==
  /\ write_reqs \subseteq Requests
  /\ awaiting_rfi \subseteq Requests
  /\ {end_stream_called, join_thread_called, thread_joined} \subseteq BOOLEAN
  /\ asleep \subseteq Closers \cup {"io"}
  /\ io \in {"pop", "searching", "writing", "exited"}
  /\ current \in Requests \cup {NoRequest}
  /\ io = "writing" <=> current # NoRequest
  /\ passed \subseteq Requests /\ ready \subseteq Requests
  /\ io # "searching" => passed = {}
  /\ filename_set \in [Chunks -> SUBSET Files]
  /\ filename_map \in [Chunks -> SUBSET Files]
  /\ DOMAIN disk \subseteq Files
  /\ has_rfi_mask \subseteq Chunks
  /\ unannounced \subseteq has_rfi_mask
  /\ outcome \in [Requests -> Outcomes]
  /\ closer \in [Closers -> {"out", "ending", "ended", "joining", "awaiting", "joined"}]

(* An accepted request is in exactly one place until it is finished, and the  *)
(* i/o thread exits only when none is left: no interleaving of enqueueing and *)
(* shutting down leaves a request in a queue that nobody serves.              *)
NoRequestLost ==
  /\ \A r \in Requests :
       outcome[r] = "accepted" <=> r \in write_reqs \cup awaiting_rfi \cup {current}
  /\ write_reqs \cap awaiting_rfi = {}
  /\ current \notin write_reqs \cup awaiting_rfi
  /\ io = "exited" => QueuesEmpty /\ current = NoRequest

(* What is on disk: a request that succeeded has its chunk under its name,    *)
(* no file is ever replaced by another chunk, and a name is recorded in the   *)
(* chunk only if the file holds that chunk.                                   *)
DiskCorrect ==
  /\ \A r \in Requests :
       outcome[r] = "succeeded" => FileOf[r] \in DOMAIN disk /\ disk[FileOf[r]] = ChunkOf[r]
  /\ \A c \in Chunks : \A f \in filename_set[c] : f \in DOMAIN disk /\ disk[f] = c

(* A request that asked for the RFI mask is written only when the mask is     *)
(* there, whatever came first, the request or the mask.                       *)
WrittenWithMask ==
  \A r \in Requests : outcome[r] = "succeeded" => ChunkOf[r] \in has_rfi_mask

(* The i/o thread asleep in pop_write_request() has nothing to write: no      *)
(* request is queued, each waiting request has no mask or one that is about   *)
(* to be announced; and after join_thread() it does not sleep while it could  *)
(* exit.                                                                      *)
NoLostWakeup ==
  "io" \in asleep =>
    /\ write_reqs = {}
    /\ \A r \in MaskReceived : ChunkOf[r] \in unannounced
    /\ ~(join_thread_called /\ awaiting_rfi = {})

(* The i/o thread never writes a request while a more urgent one waits that   *)
(* it could have written: nothing that was queued, or had its mask, when      *)
(* pop_write_request() took the lock precedes what it returns, although the   *)
(* waiting requests are moved to the queue one at a time and further masks    *)
(* arrive meanwhile.                                                          *)
MostUrgentFirst ==
  io = "writing" => \A r \in ready :
    \/ Priority[r] < Priority[current]
    \/ Priority[r] = Priority[current] /\ ChunkOf[r] >= ChunkOf[current]

MaskMissing == \E r \in awaiting_rfi : ChunkOf[r] \notin has_rfi_mask

(* Whoever is in end_stream(true), or has returned from end_stream(), gets to *)
(* the end of join_thread().  Only masks can prevent it: if somebody does not *)
(* get there, some request waits from then on for a mask nobody fills.        *)
ShutdownCompletes ==
  \/ \A c \in Closers : closer[c] \in {"ending", "ended"} ~> closer[c] = "joined"
  \/ <>[]MaskMissing

(* ch_frb_io.hpp:956 and output_device.cpp:249: when end_stream(true) returns *)
(* the pending writes are complete.                                           *)
EndStreamWaits ==
  [][\A c \in Closers : closer[c] = "ending" /\ closer'[c] = "ended" =>
       \A r \in Requests : outcome[r] # "accepted"]_vars
=============================================================================
