----------------------------- MODULE CommandBar -----------------------------
(***************************************************************************)
(* The `:` command bar (client/command_bar.rs).  What a buffer names is    *)
(* left open here: Enter takes the outcome of parsing and matching it as   *)
(* an argument, "nothing", "error" or the visualiser it names.             *)
(***************************************************************************)
EXTENDS Integers, SequencesExt

Nothing == "nothing"

NewBar == [active |-> FALSE, buffer |-> <<>>, error |-> Nothing, pending |-> Nothing]

Open(bar) == [NewBar EXCEPT !.active = TRUE]
Cancel(bar) == NewBar
SetError(bar, message) == [bar EXCEPT !.error = message, !.pending = Nothing]

\* Defect: any change of visualiser counts as the answer.
OnVizChangedAny(bar, name) == IF bar.active THEN NewBar ELSE bar

OnVizChanged(bar, name) ==
  IF bar.pending = name THEN NewBar ELSE bar

\* The deadline of a pending submit has passed.
Expire(bar) == IF bar.pending = Nothing THEN bar ELSE SetError(bar, "daemon not responding")

Insert(bar, c) == [bar EXCEPT !.buffer = Append(@, c), !.error = Nothing]
Erase(bar) == [bar EXCEPT !.buffer = IF @ = <<>> THEN @ ELSE Front(@), !.error = Nothing]

IsBlank(bar) == \A i \in DOMAIN bar.buffer : bar.buffer[i] = " "

\* Only a buffer that names one visualiser is submitted.
Outcomes(bar, vizs) == IF IsBlank(bar) THEN {Nothing} ELSE {Nothing, "error"} \union vizs

Submit(bar, outcome) ==
  CASE outcome = Nothing -> bar
    [] outcome = "error" -> [bar EXCEPT !.error = "no match"]
    [] OTHER             -> [bar EXCEPT !.pending = outcome]

BarKey(bar, key, chars, outcome) ==
  CASE key = "Escape"    -> Cancel(bar)
    [] key = "Enter"     -> Submit(bar, outcome)
    [] key = "Backspace" -> Erase(bar)
    [] key \in chars     -> Insert(bar, key)
    [] key = "Toggle"    -> Insert(bar, "s")
    [] key = "Quit"      -> Insert(bar, "q")
    [] OTHER             -> bar

=============================================================================
