------------------------------ MODULE FrameLog ------------------------------
(***************************************************************************)
(* What the PCM ring promises its readers, with the ring abstracted away:  *)
(* an append-only log of audio frames, numbered from 0, and one position   *)
(* per reader.  A reader takes the next frames in order, or, when it has   *)
(* fallen more than Capacity frames behind, gives up on everything it has  *)
(* not read and resumes at the end of the log.  It never goes back, never  *)
(* reads beyond the end and never skips for any other reason.              *)
(***************************************************************************)
EXTENDS Integers

CONSTANTS
  Consumers,   \* the readers
  Capacity     \* how far behind a reader may be and still read

VARIABLES
  length,      \* frames appended so far
  position     \* position[c]: next frame c will read, Detached before it attaches

logVars == <<length, position>>

Detached == -1

Init ==
  /\ length = 0
  /\ position = [c \in Consumers |-> Detached]

Append ==
  /\ length' \in Nat
  /\ length' > length
  /\ UNCHANGED position

\* A reader starts at the end of the log: it hears only what comes after it.
Attach(c) ==
  /\ position[c] = Detached
  /\ position' = [position EXCEPT ![c] = length]
  /\ UNCHANGED length

Read(c, n) ==
  /\ position[c] # Detached
  /\ position[c] + n <= length
  /\ position' = [position EXCEPT ![c] = @ + n]
  /\ UNCHANGED length

SkipToEnd(c) ==
  /\ position[c] # Detached
  /\ length - position[c] > Capacity
  /\ position' = [position EXCEPT ![c] = length]
  /\ UNCHANGED length

Next ==
  \/ Append
  \/ \E c \in Consumers :
        \/ Attach(c)
        \/ \E n \in 1 .. Capacity : Read(c, n)
        \/ SkipToEnd(c)

Spec == Init /\ [][Next]_logVars
=============================================================================
