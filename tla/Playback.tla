------------------------------ MODULE Playback ------------------------------
(***************************************************************************)
(* Local files, from the queue to the loudspeaker: LocalSource::run with   *)
(* its queue, decode_stream with its resampler, the overwriting PcmRing,   *)
(* and the callback of the audio device with a resampler of its own.       *)
(*                                                                         *)
(* Frames of a file are numbered from 0, frames written to the ring from   *)
(* 1; number 0 in the ring's numbering is silence.  Positions between      *)
(* frames are exact: a cursor counts parts of a frame, RingRate parts in   *)
(* the decoder and device parts in the callback.                           *)
(***************************************************************************)
EXTENDS Integers, Sequences

CONSTANTS
  RingRate,     \* sample rate of the ring
  Rates,        \* sample rates of files and devices
  RingFrames,   \* capacity of the ring
  Scratch,      \* SCRATCH_CAPACITY_FRAMES
  Files,        \* bound on the files found
  MaxPacket,    \* bound on the frames of a packet
  MaxFed,       \* bound on the frames of a file
  Asks,         \* how many frames the device may ask for
  MaxUnderruns  \* bound on the underruns counted

VARIABLES
  pc,         \* where LocalSource::run is
  files,      \* how many files the scan found
  stop,       \* source_stop
  played, current, upcoming,   \* the queue; current = 0: none
  rate,       \* sample rate of this file
  fed,        \* frames of this file pushed into the decoder's resampler
  emitted,    \* frames it has put out
  cursor,     \* its pos_in
  prev,       \* its prev: a frame of the file, None before the first
  stretch,    \* (history) what its last push put out
  written,    \* frames written to the ring
  head,       \* frames that have left it
  device,     \* the negotiated sample rate
  pos,        \* pos_in of the callback's resampler
  tail,       \* its prev
  sound,      \* (history) what the last callback interpolated between
  heard,      \* (history) the newest frame the device has been given
  silent,     \* (history) frames it was given without one from the ring
  underruns,
  dropped     \* (history) frames overwritten in the ring

queueVars == <<files, played, current, upcoming>>
decoderVars == <<rate, fed, emitted, cursor, prev, stretch>>
deviceVars == <<device, pos, tail, sound, heard, silent, underruns>>
vars == <<pc, stop, queueVars, decoderVars, written, head, deviceVars, dropped>>

None == -1
Silence == 0
Lesser(a, b) == IF a < b THEN a ELSE b
Greater(a, b) == IF a > b THEN a ELSE b

\* LocalSource::new has found at least one file.
Init ==
  /\ pc = "next"
  /\ stop = FALSE
  /\ played = <<>> /\ current = 0
  /\ files \in 1 .. Files
  /\ upcoming = [i \in 1 .. files |-> i]
  /\ device \in Rates
  /\ rate = RingRate /\ fed = 0 /\ emitted = 0 /\ cursor = 0 /\ prev = None /\ stretch = {}
  /\ written = 0 /\ head = 0
  /\ pos = 0 /\ tail = Silence /\ sound = <<>> /\ heard = 0
  /\ silent = 0 /\ underruns = 0 /\ dropped = 0

-----------------------------------------------------------------------------
(* The queue and LocalSource::run.                                        *)

Advance ==
  /\ played' = IF current = 0 THEN played ELSE Append(played, current)
  /\ current' = IF upcoming = <<>> THEN 0 ELSE Head(upcoming)
  /\ upcoming' = IF upcoming = <<>> THEN <<>> ELSE Tail(upcoming)
  /\ UNCHANGED files

NextTrack ==
  /\ pc = "next"
  /\ Advance
  /\ pc' = IF upcoming = <<>> \/ stop THEN "done" ELSE "open"
  /\ UNCHANGED <<stop, decoderVars, written, head, deviceVars, dropped>>

\* The file cannot be opened, or nothing in it can be decoded.
Skip ==
  /\ pc = "open"
  /\ pc' = "next"
  /\ UNCHANGED <<stop, queueVars, decoderVars, written, head, deviceVars, dropped>>

\* decode_stream begins with a resampler of its own.
Open ==
  /\ pc = "open"
  /\ pc' = "decode"
  /\ rate' \in Rates
  /\ fed' = 0 /\ emitted' = 0 /\ cursor' = 0 /\ prev' = None /\ stretch' = {}
  /\ UNCHANGED <<stop, queueVars, written, head, deviceVars, dropped>>

\* Defect: the stop flag is not looked at between two packets.
CloseIgnoresStop ==
  /\ pc = "decode"
  /\ ~stop
  /\ pc' = "next"
  /\ UNCHANGED <<stop, queueVars, decoderVars, written, head, deviceVars, dropped>>

\* The end of the file, a fatal error, or the stop flag between two packets.
Close ==
  /\ pc = "decode"
  /\ pc' = "next"
  /\ UNCHANGED <<stop, queueVars, decoderVars, written, head, deviceVars, dropped>>

-----------------------------------------------------------------------------
(* LinearResampler::push: m frames come out of the n that go in, the      *)
(* first that would lie beyond them being left to the next push.          *)

Passthrough == rate = RingRate

Yields(n, m) ==
  IF Passthrough
  THEN m = n
  ELSE /\ m = 0 \/ cursor + (m - 1) * rate < n * RingRate
       /\ cursor + m * rate >= n * RingRate

\* Output k of a push: which frames of the file it lies between.
Between(k) ==
  LET i == (cursor + k * rate) \div RingRate
  IN [out |-> emitted + k,
      from |-> IF i > 0 THEN fed + i - 1 ELSE IF prev = None THEN 0 ELSE prev,
      to |-> fed + i]

Stretched(m) ==
  IF Passthrough
  THEN {[out |-> emitted + k, from |-> fed + k, to |-> fed + k] : k \in 0 .. m - 1}
  ELSE {Between(k) : k \in 0 .. m - 1}

\* Defect: every packet starts on a frame of its own.
PushRestarts(n, m) ==
  /\ Yields(n, m)
  /\ fed' = fed + n /\ emitted' = emitted + m
  /\ prev' = fed + n - 1
  /\ cursor' = 0
  /\ stretch' = Stretched(m)
  /\ UNCHANGED rate

Push(n, m) ==
  /\ Yields(n, m)
  /\ fed' = fed + n /\ emitted' = emitted + m
  /\ prev' = fed + n - 1
  /\ cursor' = IF Passthrough THEN cursor ELSE cursor + m * rate - n * RingRate
  /\ stretch' = Stretched(m)
  /\ UNCHANGED rate

\* PcmRingWriter::write pops the oldest frame for each one too many.
Write(m) ==
  /\ written' = written + m
  /\ head' = Greater(head, written + m - RingFrames)
  /\ dropped' = dropped + head' - head

\* One packet; one that does not decode changes nothing.  Nothing here
\* waits for the device.
Decode ==
  /\ pc = "decode"
  /\ ~stop
  /\ \E n \in 1 .. MaxPacket :
       /\ fed + n <= MaxFed
       /\ \E m \in 0 .. n * RingRate : Push(n, m) /\ Write(m)
  /\ UNCHANGED <<pc, stop, queueVars, deviceVars>>

Stop ==
  /\ ~stop
  /\ stop' = TRUE
  /\ UNCHANGED <<pc, queueVars, decoderVars, written, head, deviceVars, dropped>>

-----------------------------------------------------------------------------
(* The callback.  It drains up to n frames and takes silence for the rest. *)

Drained(n) == Lesser(n, written - head)
Buffer(n) == [i \in 1 .. n |-> IF i <= Drained(n) THEN head + i ELSE Silence]

\* The last frame of the ring that was played, or the one before it.
Newest(frames) ==
  LET audible == {k \in DOMAIN frames : frames[k] # Silence}
  IN IF audible = {} THEN heard ELSE frames[CHOOSE k \in audible : \A j \in audible : j <= k]

\* Defect: looks at the frames without taking them out.
PlayDirectPeeks(asked) ==
  LET n == Lesser(asked, Scratch)
  IN /\ head' = head
     /\ sound' = Buffer(n)
     /\ heard' = Newest(Buffer(n))
     /\ silent' = silent + asked - Drained(n)
     /\ underruns' = underruns + (asked - n) + (n - Drained(n))
     /\ UNCHANGED <<device, pos, tail>>

PlayDirect(asked) ==
  LET n == Lesser(asked, Scratch)
  IN /\ head' = head + Drained(n)
     /\ sound' = Buffer(n)
     /\ heard' = Newest(Buffer(n))
     /\ silent' = silent + asked - Drained(n)
     /\ underruns' = underruns + (asked - n) + (n - Drained(n))
     /\ UNCHANGED <<device, pos, tail>>

\* Frames wanted from the ring for n of the device: rounded up, and two more.
Wanted(n) == Lesser((n * RingRate + device - 1) \div device + 2, Scratch)

\* LinearResampler::resample: at most n frames, each between two neighbours.
Resampled(n, in) ==
  LET At(k) == (pos + k * RingRate) \div device
      fits == {k \in 1 .. n : pos + (k - 1) * RingRate < Len(in) * device}
  IN [k \in fits |-> [from |-> IF At(k - 1) <= 0 THEN tail ELSE in[At(k - 1)],
                      to |-> in[Greater(At(k - 1), 0) + 1]]]

PlayResampled(asked) ==
  LET n == Lesser(asked, Scratch)
      need == Wanted(n)
      in == Buffer(need)
      out == Resampled(n, in)
      made == Len(out)
  IN /\ head' = head + Drained(need)
     /\ sound' = [k \in 1 .. made |-> out[k].to]
     /\ heard' = Newest(sound')
     /\ pos' = pos + made * RingRate - need * device
     /\ tail' = in[need]
     /\ UNCHANGED device
     /\ underruns' = underruns + (asked - n) + (need - Drained(need)) + (n - made)
     /\ silent' = silent + (asked - made)

Callback ==
  /\ underruns < MaxUnderruns
  /\ \E asked \in Asks :
       /\ IF RingRate = device THEN PlayDirect(asked) ELSE PlayResampled(asked)
       /\ UNCHANGED <<pc, stop, queueVars, decoderVars, written, dropped>>

Next ==
  \/ NextTrack \/ Skip \/ Open \/ Close
  \/ Decode \/ Stop \/ Callback

Spec == Init /\ [][Next]_vars

\* The source's thread goes on; the device and the user need not.
Run == NextTrack \/ Skip \/ Open \/ Close \/ Decode
FairSpec == Spec /\ WF_vars(Run)

-----------------------------------------------------------------------------
(* Properties.                                                            *)

TypeOK ==
  /\ pc \in {"next", "open", "decode", "done"} /\ stop \in BOOLEAN
  /\ files \in 1 .. Files
  /\ played \in Seq(1 .. files) /\ upcoming \in Seq(1 .. files) /\ current \in 0 .. files
  /\ rate \in Rates \cup {RingRate} /\ device \in Rates
  /\ fed \in 0 .. MaxFed /\ emitted \in Nat
  /\ cursor \in 0 .. rate
  /\ prev \in -1 .. fed - 1
  /\ written \in Nat /\ head \in 0 .. written /\ written - head <= RingFrames
  /\ pos \in Int /\ tail \in 0 .. written /\ heard \in 0 .. written
  /\ silent \in Nat /\ underruns \in Nat /\ dropped \in 0 .. head

\* However a file is cut into packets, output j of the decoder's resampler
\* lies at j * rate / RingRate in the file: nothing is lost, repeated or
\* shifted at a packet boundary, and after any number of packets the outputs
\* are as many as the frames fed are worth.
ResamplerExact ==
  /\ \A o \in stretch :
       IF Passthrough
       THEN o.from = o.out /\ o.to = o.out
       ELSE LET i == (o.out * rate) \div RingRate
            IN o.to = i /\ o.from = Greater(i - 1, 0)
  /\ fed > 0 => (emitted - 1) * rate < fed * RingRate /\ fed * RingRate <= emitted * rate

\* Every file the scan found is tried once and in its order, whichever of
\* them cannot be opened or break off in the middle.
QueueKeepsOrder ==
  /\ played \o (IF current = 0 THEN <<>> ELSE <<current>>) \o upcoming = [i \in 1 .. files |-> i]
  /\ (pc = "done" /\ ~stop) => Len(played) = files

\* Whatever the ring drops and whatever the callback's resampler does to the
\* frames, the device never goes back to an older frame.
HeardInOrder ==
  [][sound' # sound =>
       \A i, j \in DOMAIN sound' :
         (i <= j /\ sound'[i] # Silence /\ sound'[j] # Silence)
           => heard <= sound'[i] /\ sound'[i] <= sound'[j]]_vars

\* Without resampling, every frame of silence the device gets is counted,
\* also those its request exceeds the scratch buffer by (cpal_output.rs:454-456).
UnderrunsCounted == RingRate = device => silent = underruns

\* The device hears the files in order and the gaps are known: QueueKeepsOrder,
\* UnderrunsCounted and HeardInOrder, with the types.
FolderIsHeard == [](TypeOK /\ QueueKeepsOrder /\ UnderrunsCounted) /\ HeardInOrder
=============================================================================
