-------------------------------- MODULE Relays --------------------------------
(***************************************************************************)
(* The two relays of the controller in one program: an iteration of           *)
(* Applictaion::Loop in HenHouseController.ino reads the temperature and the   *)
(* clock and calls HeaterMutator and LightMutator one after the other on the   *)
(* same State.  The time of day is unknown until the first fix and may then be *)
(* set to any second; a reset forgets it together with everything else.        *)
(***************************************************************************)
EXTENDS LightMutator

CONSTANTS ClockWidth, Lockout, LoopPeriod, ReadGap, HeatGoal, Heats

VARIABLES
  millis, sinceCall, gap, Heat, HeaterOn, HeaterChangedTime, HEATER_PIN, sinceChange

H == INSTANCE HeaterMutator

ASSUME RelaysAssumption == H!HeaterAssumption

relays == <<vars, H!vars>>

RelaysInit == Init /\ H!Init

Loop ==
  /\ H!MutateState
  /\ Next

(* The clock of the board ticks between two iterations. *)
Wait == H!Tick /\ UNCHANGED vars

RelaysReset ==
  /\ H!Reset
  /\ Time' = NoTime /\ LightsOn' = FALSE
  /\ LIGHT_PIN' = HIGH

RelaysNext == Loop \/ Wait \/ RelaysReset

(* loop() is called over and over and the clock advances. *)
RelaysSpec ==
  RelaysInit /\ [][RelaysNext]_relays /\ WF_relays(Loop) /\ WF_relays(Wait)

-----------------------------------------------------------------------------
(* The fields of State, the clock and the levels of both pins stay in range, and
   the heater's field tells what its relay does. *)
RelaysTypeOK == TypeOK /\ H!TypeOK /\ H!RelayMatchesState

(* The relay of the heater is not moved again within the lockout, except by a
   reset, which only opens it. *)
NoRapidChange == H!NoRapidChange

(* A temperature that stays outside the dead band is answered for good. *)
HeatAnswered == H!HeatAnswered

=============================================================================
