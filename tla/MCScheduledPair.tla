--------------------------- MODULE MCScheduledPair ---------------------------
(* Constants for model checking ScheduledPair. *)
EXTENDS ScheduledPair

CONSTANTS q1, q2, broken, daily, hourly, sa1, sa2

AllKinds == {"SqlJob", "Snapshot", "IngestJob", "ExportJob"}
SqlJobs == {"SqlJob"}
TwoQueries == {q1, q2}
AllQueries == {q1, q2, broken}
OneQuery == {q1}
TwoSchedules == {daily, hourly}
OneSchedule == {daily}
OneIdentity == {sa1}
TwoIdentities == {sa1, sa2}

=============================================================================
