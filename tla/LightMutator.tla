----------------------------- MODULE LightMutator -----------------------------
(***************************************************************************)
(* LightMutator::MutateState of libraries/HenHouseLib/LightMutator.cpp: the   *)
(* lamp follows a daily schedule that may span midnight.  The clock is        *)
(* unknown until the first GPS fix and may then show any second: a fix sets   *)
(* it forward or back.                                                        *)
(***************************************************************************)
EXTENDS Integers

CONSTANTS
  SecondsPerDay,  \* 86400 in the code
  LightsOnTime,   \* 16:00 in the code
  LightsOffTime   \* 10:00 in the code, the next morning

ASSUME LightAssumption ==
  /\ SecondsPerDay \in Nat \ {0}
  /\ {LightsOnTime, LightsOffTime} \subseteq 0 .. SecondsPerDay - 1

VARIABLES
  Time,      \* state.Time of the last call
  LightsOn,  \* State.LightsOn
  LIGHT_PIN  \* the level of the pin; the relay closes on LOW

vars == <<Time, LightsOn, LIGHT_PIN>>

LOW == 0
HIGH == 1
NoTime == -1

Times == 0 .. SecondsPerDay - 1

Init ==
  /\ Time = NoTime
  /\ LightsOn = FALSE
  /\ LIGHT_PIN = HIGH

(* Bug: no case for a period that spans midnight. *)
lightOnSameDay(t) == LightsOnTime < t /\ t < LightsOffTime

(* Open at both ends within a day, closed at both ends across midnight. *)
lightOn(t) ==
  IF LightsOnTime < LightsOffTime
    THEN LightsOnTime < t /\ t < LightsOffTime
    ELSE ~(LightsOffTime < t /\ t < LightsOnTime)

TurnOnLight == LIGHT_PIN' = LOW /\ LightsOn' = TRUE

TurnOffLight == LIGHT_PIN' = HIGH /\ LightsOn' = FALSE

(* One call; the relay is written only when the lamp has to change. *)
MutateState(t) ==
  /\ Time' = t
  /\ \/ t # NoTime /\ lightOn(t) /\ ~LightsOn /\ TurnOnLight
     \/ t # NoTime /\ ~lightOn(t) /\ LightsOn /\ TurnOffLight
     \/ /\ t = NoTime \/ (lightOn(t) <=> LightsOn)
        /\ UNCHANGED <<LightsOn, LIGHT_PIN>>

Next ==
  \/ Time = NoTime /\ MutateState(NoTime)
  \/ \E t \in Times : MutateState(t)

Spec == Init /\ [][Next]_vars

-----------------------------------------------------------------------------
(* The relay is only given digital levels, and the fields stay in range. *)
TypeOK ==
  /\ Time \in Times \cup {NoTime}
  /\ LightsOn \in BOOLEAN
  /\ LIGHT_PIN \in {LOW, HIGH}

(* The lamp itself, not only the field, is what the clock last asked for: it
   burns exactly while less time has passed around the dial since LightsOnTime
   than LightsOffTime is ahead of it.  The two switching seconds are left open:
   the code counts them in when the period spans midnight and out otherwise. *)
Burning == LIGHT_PIN = LOW

FollowsSchedule ==
  Time \notin {NoTime, LightsOnTime, LightsOffTime} =>
    Burning <=>
      \/ LightsOnTime = LightsOffTime
      \/ (Time - LightsOnTime) % SecondsPerDay
           < (LightsOffTime - LightsOnTime) % SecondsPerDay

=============================================================================
