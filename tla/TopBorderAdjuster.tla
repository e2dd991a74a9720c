------------------------- MODULE TopBorderAdjuster -------------------------
(***************************************************************************)
(* top_border_adjuster.sv: the border adjuster and the state machine that  *)
(* starts it, on one clock.  It pulses start, waits for the adjuster's     *)
(* done pulse and begins again.  The counts come from a shift register     *)
(* whose feedback reads bits it does not have: any count may come.         *)
(***************************************************************************)
EXTENDS BorderAdjuster

CONSTANT MaxRounds   \* bound on the number of rounds that are started

VARIABLES
  rounds,         \* history: the rounds started
  start_sm_state,
  dut_start       \* the register on the adjuster's start input

topVars == <<vars, rounds, start_sm_state, dut_start>>

TopInit ==
  /\ Init
  /\ rounds = 0
  /\ start_sm_state = "IDLE"
  /\ dut_start = FALSE

\* The done and start registers are read as they are before the edge.
StartPulse_Eager ==  \* mutant: start again before done is seen
  /\ start_sm_state' = CASE start_sm_state = "IDLE"  -> "START"
                         [] start_sm_state = "START" -> "WAIT"
                         [] start_sm_state = "WAIT"  ->
                              IF rounds < MaxRounds THEN "IDLE" ELSE "WAIT"
  /\ dut_start' = (start_sm_state = "START")
  /\ rounds' = IF dut_start' THEN rounds + 1 ELSE rounds

StartPulse ==
  /\ start_sm_state' = CASE start_sm_state = "IDLE"  -> "START"
                         [] start_sm_state = "START" -> "WAIT"
                         [] start_sm_state = "WAIT"  ->
                              IF done /\ rounds < MaxRounds THEN "IDLE" ELSE "WAIT"
  /\ dut_start' = (start_sm_state = "START")
  /\ rounds' = IF dut_start' THEN rounds + 1 ELSE rounds

TopNext == StartPulse /\ \E w \in Words : Clock(dut_start, w)

\* The clock keeps running.
TopSpec == TopInit /\ [][TopNext]_topVars /\ WF_topVars(TopNext)

-----------------------------------------------------------------------------
(***************************************************************************)
(* Properties                                                              *)
(***************************************************************************)

\* A start pulse meets an adjuster that waits for it: the adjuster looks at
\* start in S_WAIT_START only, and a pulse at any other clock would be lost.
StartNeverLost == dut_start => state = "WAIT_START"

\* Rounds follow each other up to the bound: the loops of the adjuster all end,
\* and its done pulse, one clock long, is never missed.
RoundsGoOn == <>(rounds = MaxRounds /\ state = "DONE")
=============================================================================
