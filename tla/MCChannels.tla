----------------------------- MODULE MCChannels -----------------------------
(***************************************************************************)
(* The two ways from the daemon to its clients: the shared ring (SpmcRing) *)
(* and the control socket (ControlServer).  A behaviour is one of one of   *)
(* them, for TLC.                                                          *)
(*                                                                         *)
(* Consumers of the ring share nothing they write, so one consumer and a   *)
(* ring the producer can go round twice show every interleaving of a read  *)
(* with a write.                                                           *)
(***************************************************************************)
EXTENDS ControlServer, SpmcRing

ASSUME TwoLaps == MaxFrames >= 2 * Capacity
ASSUME ReadersWrap == \E n \in BufLens : n > 1

VARIABLE channel \* "ring" or "socket"

channelVars == <<channel, ringVars, vars>>

ChannelInit == channel \in {"ring", "socket"} /\ RingInit /\ Init
RingRuns == channel = "ring" /\ RingNext /\ UNCHANGED <<channel, vars>>
SocketRuns == channel = "socket" /\ Next /\ UNCHANGED <<channel, ringVars>>
ChannelNext == RingRuns \/ SocketRuns

\* The fairness of each module, for the channel that is used.
OnRing(A) == channel = "ring" /\ A
OnSocket(A) == channel = "socket" /\ A
ProducerFairness == WF_ringVars(OnRing(WriteSlot)) /\ WF_ringVars(OnRing(Publish))
ReaderFairness == \A c \in Consumers : WF_ringVars(OnRing(ReadFrames(c)))
SocketFairness ==
  /\ WF_vars(OnSocket(Broadcast))
  /\ WF_vars(OnSocket(Dispatch))
  /\ \A c \in Conns : WF_vars(OnSocket(Session(c)))

ChannelSpec ==
  ChannelInit /\ [][ChannelNext]_channelVars /\ ProducerFairness /\ ReaderFairness /\ SocketFairness
=============================================================================
