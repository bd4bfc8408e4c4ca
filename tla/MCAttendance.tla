---------------------------- MODULE MCAttendance ----------------------------
\* Instance of Attendance: the service runs over some days of a few moments.
EXTENDS Attendance
=============================================================================
