----------------------------- MODULE Statistics -----------------------------
(***************************************************************************)
(* The two parts of a profile's statistics: the solve charts               *)
(* (SolveCounts) and the attendance table (Attendance).  One request asks  *)
(* for both (build_profile_stats of services/codeforces.rs), one sync      *)
(* stores what both are made of, and nothing one part does reaches the     *)
(* state of the other: so a behaviour is followed in one of them, and the  *)
(* other stays as it was.                                                  *)
(***************************************************************************)
EXTENDS SolveCounts, Attendance

VARIABLE part  \* the part that is followed

statisticsVars == <<countVars, attendanceVars, part>>

\* The charts are counted by one rule on both platforms: one of them will do.
StatisticsInit ==
    /\ CountInit /\ AttendanceInit
    /\ part \in {"charts", "attendance"}
    /\ part = "charts" => platform = "codeforces"

StatisticsNext ==
    \/ part = "charts" /\ CountNext /\ UNCHANGED <<attendanceVars, part>>
    \/ part = "attendance" /\ AttendanceNext /\ UNCHANGED <<countVars, part>>

StatisticsSpec == StatisticsInit /\ [][StatisticsNext]_statisticsVars

=============================================================================
