----------------------------- MODULE MCPipeline -----------------------------
(***************************************************************************)
(* The two tasks that decide what plays: the source pipeline, and the      *)
(* Spotify Connect receiver, in which a pipeline of one command stands for *)
(* this one.  A behaviour is one of one of them, for TLC.                  *)
(***************************************************************************)
EXTENDS SourcePipeline

CONSTANTS MaxPicks, MaxVerbs, ChannelCapacity

ASSUME ReceiverAssumption == MaxPicks \in Nat /\ MaxVerbs \in Nat /\ ChannelCapacity \in Nat

VARIABLES
  part, \* "pipeline" or "receiver"
  script, picks, spirc, task, playback, announced, stopped, asked, slot, view, player, target,
  binding, source, held, pcm, binds, fill, selected, inbox, verbs

Receiver == INSTANCE Connect WITH channel <- pcm

receiverVars ==
  <<script, picks, spirc, task, playback, announced, stopped, asked, slot, view, player, target,
    binding, source, held, pcm, binds, fill, selected, inbox, verbs>>
partVars == <<part, vars, receiverVars>>

PartInit ==
  /\ part \in {"pipeline", "receiver"}
  /\ Init /\ Receiver!Init
  /\ part = "receiver" => senders = {"dispatcher"}
PipelineNext == part = "pipeline" /\ Next /\ UNCHANGED <<part, receiverVars>>
ReceiverNext == part = "receiver" /\ Receiver!Next /\ UNCHANGED <<part, vars>>
PartNext == PipelineNext \/ ReceiverNext

\* The fairness of each module, for the part that runs.
ReceiverFairness ==
  /\ WF_receiverVars(part = "receiver" /\ Receiver!Runtime)
  /\ WF_receiverVars(part = "receiver" /\ Receiver!Source)
  /\ SF_receiverVars(part = "receiver" /\ Receiver!ReceiveEmpty)
  /\ WF_receiverVars(part = "receiver" /\ Receiver!AwaitedEnds)
  /\ \A n \in 1 .. MaxPicks : WF_receiverVars(part = "receiver" /\ Receiver!Deliver(n))

PipelineFairness ==
  /\ WF_vars(part = "pipeline" /\ Watcher)
  /\ WF_vars(part = "pipeline" /\ MainInControl)
  /\ WF_vars(part = "pipeline" /\ (SendVerb \/ ResolveFails))
  /\ WF_vars(part = "pipeline" /\ StopServing)
  /\ WF_vars(part = "pipeline" /\ JoinSource)

PartSpec == PartInit /\ [][PartNext]_partVars /\ PipelineFairness /\ ReceiverFairness

-----------------------------------------------------------------------------
(* The properties of SourcePipeline, and those of Connect.                *)

\* Connect: the session, what is announced and what clients see agree.
ReceiverAgrees == Receiver!ReceiverAgrees

\* Connect: every arm of the runtime ends, and the source follows its sink.
ReceiverGoesOn == Receiver!ReceiverGoesOn
=============================================================================
