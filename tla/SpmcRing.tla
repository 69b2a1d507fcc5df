------------------------------ MODULE SpmcRing ------------------------------
(***************************************************************************)
(* The shared-memory PCM ring between the daemon and its visualiser        *)
(* clients (pcm/spmc_ring.rs).  One producer overwrites slots and then     *)
(* publishes a sequence number; any number of consumers, in other          *)
(* processes, copy slots with no lock and check afterwards whether the     *)
(* producer may have lapped them.                                          *)
(*                                                                         *)
(* A frame is its absolute number: slots[i] is the number of the frame     *)
(* written last into slot i.  Every access to a slot and to the sequence   *)
(* number is one step, in program order: the Release store, the Acquire    *)
(* load and the SeqCst fence give that order on x86-64.                    *)
(***************************************************************************)
EXTENDS Integers, Sequences

CONSTANTS
  Capacity,    \* slots in the ring; `idx & mask` is `idx % Capacity`
  MaxBatch,    \* largest slice the daemon hands to write_frames
  Consumers,   \* attached processes
  BufLens,     \* lengths of the buffers consumers pass to read_frames
  MaxFrames    \* bound on the frames written in a behaviour

ASSUME RingCapacityAssumption == Capacity \in Nat \ {0}
ASSUME MaxBatchAssumption == MaxBatch \in Nat \ {0}
ASSUME BufLensAssumption  == BufLens \subseteq Nat \ {0}
ASSUME MaxFramesAssumption == MaxFrames \in Nat

VARIABLES
  slots,       \* the data area
  seq,         \* the published sequence number, also Producer::written
  batch,       \* length of the slice being written, 0 when the producer is idle
  filled,      \* slots of that slice already written
  cursor,      \* Consumer::cursor, Detached before attach
  pc,          \* where each consumer is in read_frames
  want,        \* to_read
  copied,      \* the frames copied so far into the caller's buffer
  result       \* what the last read_frames returned

prodVars == <<slots, seq, batch, filled>>
consVars == <<cursor, pc, want, copied, result>>
ringVars == <<slots, seq, batch, filled, cursor, pc, want, copied, result>>

NoFrame  == -1     \* a slot of the zeroed region
Detached == -1

SlotOf(f) == f % Capacity

\* One past the last frame whose slot has been overwritten, published or not.
Written == seq + filled

\* What read_frames returned: from is the frame the cursor was at, at the
\* sequence number of its last check, lost the Overrun's lost_frames.
Ok(from, frames, at) ==
  [kind |-> "ok", from |-> from, frames |-> frames, at |-> at, lost |-> 0]
Overrun(from, at) ==
  [kind |-> "overrun", from |-> from, frames |-> <<>>, at |-> at,
   lost |-> (at - from) - Capacity]
Results ==
  [kind : {"ok", "overrun"}, from : Nat, frames : Seq(Int), at : Nat, lost : Int]

RingInit ==
  /\ slots = [i \in 0 .. Capacity - 1 |-> NoFrame]
  /\ seq = 0
  /\ batch = 0
  /\ filled = 0
  /\ cursor = [c \in Consumers |-> Detached]
  /\ pc = [c \in Consumers |-> "idle"]
  /\ want = [c \in Consumers |-> 0]
  /\ copied = [c \in Consumers |-> <<>>]
  /\ result = [c \in Consumers |-> Ok(0, <<>>, 0)]

-----------------------------------------------------------------------------
(* The producer: write_frames *)

StartWrite(n) ==
  /\ batch = 0
  /\ seq + n <= MaxFrames
  /\ batch' = n
  /\ UNCHANGED <<slots, seq, filled, consVars>>

WriteSlot ==
  /\ filled < batch
  /\ slots' = [slots EXCEPT ![SlotOf(seq + filled)] = seq + filled]
  /\ filled' = filled + 1
  /\ UNCHANGED <<seq, batch, consVars>>

Publish ==
  /\ batch # 0
  /\ filled = batch
  /\ seq' = seq + batch
  /\ batch' = 0
  /\ filled' = 0
  /\ UNCHANGED <<slots, consVars>>

-----------------------------------------------------------------------------
(* A consumer: attach and read_frames *)

Behind(c) == seq - cursor[c]

\* Defect: starts with whatever is in the ring.
AttachAtStart(c) ==
  /\ cursor[c] = Detached
  /\ cursor' = [cursor EXCEPT ![c] = 0]
  /\ UNCHANGED <<prodVars, pc, want, copied, result>>

Attach(c) ==
  /\ cursor[c] = Detached
  /\ cursor' = [cursor EXCEPT ![c] = seq]
  /\ UNCHANGED <<prodVars, pc, want, copied, result>>

Load(c) == pc[c] = "idle" /\ cursor[c] # Detached

\* Defect: reports the overrun and leaves the cursor behind.
LoadOverrunStays(c) ==
  /\ Load(c)
  /\ Behind(c) > Capacity
  /\ result' = [result EXCEPT ![c] = Overrun(cursor[c], seq)]
  /\ UNCHANGED <<prodVars, cursor, pc, want, copied>>

LoadOverrun(c) ==
  /\ Load(c)
  /\ Behind(c) > Capacity
  /\ cursor' = [cursor EXCEPT ![c] = seq]
  /\ result' = [result EXCEPT ![c] = Overrun(cursor[c], seq)]
  /\ UNCHANGED <<prodVars, pc, want, copied>>

LoadNothing(c) ==
  /\ Load(c)
  /\ Behind(c) = 0
  /\ result' = [result EXCEPT ![c] = Ok(cursor[c], <<>>, seq)]
  /\ UNCHANGED <<prodVars, cursor, pc, want, copied>>

LoadSome(c, bufLen) ==
  /\ Load(c)
  /\ Behind(c) \in 1 .. Capacity
  /\ want' = [want EXCEPT ![c] = IF Behind(c) < bufLen THEN Behind(c) ELSE bufLen]
  /\ copied' = [copied EXCEPT ![c] = <<>>]
  /\ pc' = [pc EXCEPT ![c] = "copy"]
  /\ UNCHANGED <<prodVars, cursor, result>>

CopySlot(c) ==
  /\ pc[c] = "copy"
  /\ Len(copied[c]) < want[c]
  /\ copied' = [copied EXCEPT ![c] = Append(@, slots[SlotOf(cursor[c] + Len(@))])]
  /\ UNCHANGED <<prodVars, cursor, pc, want, result>>

Recheck(c) == pc[c] = "copy" /\ Len(copied[c]) = want[c]

RecheckOverrun(c) ==
  /\ Recheck(c)
  /\ Behind(c) > Capacity
  /\ cursor' = [cursor EXCEPT ![c] = seq]
  /\ result' = [result EXCEPT ![c] = Overrun(cursor[c], seq)]
  /\ pc' = [pc EXCEPT ![c] = "idle"]
  /\ UNCHANGED <<prodVars, want, copied>>

\* Defect: no second look at the sequence number.
RecheckSkipped(c) ==
  /\ Recheck(c)
  /\ cursor' = [cursor EXCEPT ![c] = @ + want[c]]
  /\ result' = [result EXCEPT ![c] = Ok(cursor[c], copied[c], seq)]
  /\ pc' = [pc EXCEPT ![c] = "idle"]
  /\ UNCHANGED <<prodVars, want, copied>>

RecheckOk(c) ==
  /\ Recheck(c)
  /\ Behind(c) <= Capacity
  /\ cursor' = [cursor EXCEPT ![c] = @ + want[c]]
  /\ result' = [result EXCEPT ![c] = Ok(cursor[c], copied[c], seq)]
  /\ pc' = [pc EXCEPT ![c] = "idle"]
  /\ UNCHANGED <<prodVars, want, copied>>

-----------------------------------------------------------------------------
Produce == (\E n \in 1 .. MaxBatch : StartWrite(n)) \/ WriteSlot \/ Publish

ReadFrames(c) ==
  \/ LoadOverrun(c)
  \/ LoadNothing(c)
  \/ \E bufLen \in BufLens : LoadSome(c, bufLen)
  \/ CopySlot(c)
  \/ RecheckOverrun(c)
  \/ RecheckOk(c)

Consume(c) == Attach(c) \/ ReadFrames(c)

RingNext == Produce \/ \E c \in Consumers : Consume(c)

RingSpec == RingInit /\ [][RingNext]_ringVars

\* write_frames never blocks, and a client calls read_frames on every frame
\* it draws.  Nothing makes the daemon start another write.
RingFairness ==
  /\ WF_ringVars(WriteSlot)
  /\ WF_ringVars(Publish)
  /\ \A c \in Consumers : WF_ringVars(ReadFrames(c))

RingFairSpec == RingSpec /\ RingFairness

-----------------------------------------------------------------------------
(* Properties *)

\* Types and ranges of the variables (spmc_ring.rs, the fields of Producer
\* and Consumer and the header of the region).
RingTypeOK ==
  /\ slots \in [0 .. Capacity - 1 -> Nat \cup {NoFrame}]
  /\ seq \in Nat
  /\ batch \in 0 .. MaxBatch
  /\ filled \in 0 .. batch
  /\ cursor \in [Consumers -> Nat \cup {Detached}]
  /\ pc \in [Consumers -> {"idle", "copy"}]
  /\ want \in [Consumers -> Nat]
  /\ copied \in [Consumers -> Seq(Int)]
  /\ result \in [Consumers -> Results]
  /\ \A c \in Consumers : pc[c] = "copy" => cursor[c] # Detached

\* The frame a successful read should have put at index k of its buffer.
Wanted(c, k) == result[c].from + k - 1

\* A frame that a read returns is the one it asked for whenever the frame was
\* still in the window a write of MaxBatch frames cannot reach: with fewer than
\* Capacity - MaxBatch frames of lag at the second check, nothing is torn.
SafeWindow ==
  \A c \in Consumers : \A k \in 1 .. Len(result[c].frames) :
    Wanted(c, k) + Capacity >= result[c].at + MaxBatch
      => result[c].frames[k] = Wanted(c, k)

\* With slices no longer than the ring, a frame that is not the one asked for
\* is the one that replaced it, exactly one lap newer: never an uninitialised
\* slot, never an older epoch, never two laps on.
OneLapAtMost ==
  MaxBatch <= Capacity =>
    \A c \in Consumers : \A k \in 1 .. Len(result[c].frames) :
      result[c].frames[k] \in {Wanted(c, k), Wanted(c, k) + Capacity}

\* The ring refines the log: consumers move only by contiguous reads, or by a
\* skip to the end when more than Capacity behind (read_frames' cursor updates).
Log == INSTANCE FrameLog WITH length <- seq, position <- cursor

\* RefinesLog: the cursors and the sequence number behave as FrameLog says.
RefinesLog == Log!Spec

\* A consumer that keeps reading is not overrun for ever: once the producer is
\* quiet every attached consumer reaches the end of the ring.
CatchesUp ==
  \A c \in Consumers :
    (cursor[c] # Detached /\ batch = 0) ~> (cursor[c] = seq \/ batch # 0)

\* What a consumer gets is sound: SafeWindow and OneLapAtMost, with the types.
ReadsAreSound == RingTypeOK /\ SafeWindow /\ OneLapAtMost
=============================================================================
