------------------------------ MODULE TimeTools ------------------------------
(***************************************************************************)
(* asTime (code/time): seconds since 1970, and their division into days    *)
(* for a zone that is eight hours ahead.  A day is scaled to 6 seconds,    *)
(* the zone to 2; the parts of a time (asTime's YMDHMS) are days, and the  *)
(* seconds of the day.  gmtime and mktime are external: mktime takes parts *)
(* for the zone of the system, not for s_timeZone.                         *)
(***************************************************************************)
EXTENDS Integers, Sequences

Day == 6                   \* 86400
s_timeZone == 2            \* 8 * 60 * 60
Parts(t) == [day |-> t \div Day, sec |-> t % Day]                  \* gmtime
Mktime(p, sysZone) == p.day * Day + p.sec - sysZone

GetTime(t) == Parts(t)
GetLocalTime(t) == Parts(t + s_timeZone)

\* No time at all for parts that are all zero.
GetTimeStamp(p, sysZone) ==
  IF p = [day |-> 0, sec |-> 0] THEN 0 ELSE Mktime(p, sysZone)

\* A year of three months of two days.  The month starts at 0.
GetDateNum(p) ==
  (p.day \div 6) * 10000 + ((p.day % 6) \div 2) * 100 + (p.day % 2) + 1

\* Three hours of two minutes of one second; 1900 is added to the hour.
GetTimeNum(p) == (p.sec \div 2 + 1900) * 10000 + (p.sec % 2) * 100

GetDayZero(t) == t - ((t + s_timeZone) % Day)
GetDaySecDiff(t1, t2) == GetDayZero(t2) - GetDayZero(t1)

\* The seconds of the day, not the number of the day.
GetDays(t) == (t + s_timeZone) % Day
GetDaysDiff(now, last, begintm) ==
  GetDays(now - begintm + Day) - GetDays(last - begintm + Day)
GetWeeks(t) == (GetDays(t) + 3) \div 7

-----------------------------------------------------------------------------
Times == 0..40

\* The start of the day is a local midnight, at most a day back, and the
\* distance between two of them is one of whole days.
ASSUME DayZeroIsMidnight ==
  \A t \in Times :
    /\ GetLocalTime(GetDayZero(t)).sec = 0
    /\ GetLocalTime(GetDayZero(t)).day = GetLocalTime(t).day
    /\ \A u \in Times : GetDaySecDiff(t, u) =
                          Day * (GetLocalTime(u).day - GetLocalTime(t).day)

\* Later days have greater date numbers, though January is 0.
ASSUME DatesAscend ==
  \A t, u \in Times : /\ GetTime(t).day < GetTime(u).day <=>
                           GetDateNum(GetTime(t)) < GetDateNum(GetTime(u))
                      /\ GetTime(t).sec < GetTime(u).sec =>
                           GetTimeNum(GetTime(t)) < GetTimeNum(GetTime(u))

\* Local parts turn into the time they came from where the system's zone is
\* the library's, and are off by the difference elsewhere.
ASSUME LocalTimeStamp ==
  \A t \in Times, zone \in 0..3 :
    GetTimeStamp(GetLocalTime(t), zone) = t + s_timeZone - zone

\* GetDaysDiff does not count days: it is 0 between times whole days apart.
ASSUME DaysDiffIgnoresDays ==
  \A t \in Times, days \in 0..3, begintm \in 0..5 :
    GetDaysDiff(t + days * Day, t, begintm) = 0
=============================================================================
