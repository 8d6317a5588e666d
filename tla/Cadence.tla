------------------------------ MODULE Cadence ------------------------------
(***************************************************************************)
(* A schedule's cadence (orchestration/schedules.py): five cron fields,    *)
(* read when the schedule is created and matched against every minute.     *)
(* A part of a field is its body, <<>> for a star or its two ends, and the *)
(* step written after it, if any; a field is the set of its parts.  The    *)
(* sweep runs every minute; a step of the model is one day of sweeps.      *)
(***************************************************************************)
EXTENDS Integers, Sequences, FiniteSets, FiniteSetsExt

CONSTANT Expressions    \* cadences as callers write them: field -> parts

VARIABLES cadence,      \* the schedule's parsed cadence
          today,        \* the day being swept: month, day, weekday
          fired         \* it has fired since it was created

cadenceVars == <<cadence, today, fired>>

FieldRange ==
    [minute |-> 0 .. 59, hour |-> 0 .. 23, day |-> 1 .. 31, month |-> 1 .. 12,
     weekday |-> 0 .. 6]

Star == [body |-> <<>>, step |-> {}]

Start(part, range) == IF part.body = <<>> THEN Min(range) ELSE part.body[1]
Stop(part, range) == IF part.body = <<>> THEN Max(range) ELSE part.body[2]

Refused == [refused |-> TRUE]

(* CadenceError: a step that never fires, or a range outside the field's.  *)
ReadablePart(part, range) ==
    /\ \A n \in part.step : n >= 1
    /\ Start(part, range) >= Min(range) /\ Stop(part, range) <= Max(range)
    /\ Start(part, range) <= Stop(part, range)

FieldValues(field, range) ==
    {v \in range : \E part \in field :
        /\ v \in Start(part, range) .. Stop(part, range)
        /\ \A n \in part.step : (v - Start(part, range)) % n = 0}

ParseCadence(expression) ==
    IF \A f \in DOMAIN FieldRange : \A part \in expression[f] :
          ReadablePart(part, FieldRange[f])
    THEN [values |-> [f \in DOMAIN FieldRange |->
                        FieldValues(expression[f], FieldRange[f])],
          expression |-> expression,
          dayUnrestricted |-> expression.day = {Star} /\ expression.weekday = {Star}]
    ELSE Refused

IntersectDays(c, date) ==                         \* mutant of MatchesDay
    /\ date.month \in c.values.month
    /\ c.dayUnrestricted \/ ( /\ date.day \in c.values.day
                              /\ date.weekday \in c.values.weekday )

(* Cadence.matches, the fields of the date.                                *)
MatchesDay(c, date) ==
    /\ date.month \in c.values.month
    /\ c.dayUnrestricted \/ date.day \in c.values.day
                         \/ date.weekday \in c.values.weekday

(* Some minute of the day is matched.                                      *)
FiresOn(c, date) ==
    /\ MatchesDay(c, date)
    /\ c.values.hour # {} /\ c.values.minute # {}

DaysIn(month) == CASE month \in {4, 6, 9, 11} -> 30
                   [] month = 2 -> 28             \* the year is no leap year
                   [] OTHER -> 31

NextDate(date) ==
    [weekday |-> (date.weekday + 1) % 7,
     day |-> IF date.day < DaysIn(date.month) THEN date.day + 1 ELSE 1,
     month |-> IF date.day < DaysIn(date.month) THEN date.month
               ELSE (date.month % 12) + 1]

-----------------------------------------------------------------------------
(* The year may begin on any day of the week.                              *)
CadenceInit ==
    /\ \E expression \in Expressions : cadence = ParseCadence(expression)
    /\ today \in [month : {1}, day : {1}, weekday : 0 .. 6]
    /\ fired = FALSE

(* sweep_schedules, through one day.                                       *)
SweepDay ==
    /\ cadence # Refused /\ ~fired
    /\ fired' = FiresOn(cadence, today)
    /\ today' = NextDate(today)
    /\ UNCHANGED cadence

CadenceNext == SweepDay

CadenceFair == WF_cadenceVars(SweepDay)

CadenceSpec == CadenceInit /\ [][CadenceNext]_cadenceVars /\ CadenceFair

-----------------------------------------------------------------------------
(* A cadence that is accepted fires: no combination of a day, a month and  *)
(* a weekday makes a standing order that waits for ever, as "31 of         *)
(* February" does in cron (schedules.py refuses what it cannot read        *)
(* "because a standing order that silently never fires is                  *)
(* indistinguishable from one that works until someone checks").           *)
EveryCadenceFires == [](cadence # Refused => <>fired)

Restricts(c, f) == c.expression[f] # {Star}

(* schedules.py, Cadence.matches: "when both day fields are restricted the *)
(* match is a union".  When one of them is, the schedule fires on the days *)
(* it names.                                                               *)
SoleDayFieldDecides ==
    (cadence # Refused /\ FiresOn(cadence, today)) =>
       /\ (Restricts(cadence, "day") /\ ~Restricts(cadence, "weekday"))
            => today.day \in cadence.values.day
       /\ (Restricts(cadence, "weekday") /\ ~Restricts(cadence, "day"))
            => today.weekday \in cadence.values.weekday
=============================================================================
