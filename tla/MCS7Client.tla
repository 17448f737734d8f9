----------------------------- MODULE MCS7Client -----------------------------
(***************************************************************************)
(* Instances of S7Client for TLC.                                          *)
(***************************************************************************)
EXTENDS S7Client

Job(fn, area, start, amount) == [fn |-> fn, area |-> area, start |-> start, amount |-> amount]
Unit(fn) == Job(fn, "DB", 0, 0)

\* All calls, and reads of several lengths, so that an answer may come late for
\* one that fits it and for one that does not.  A PDU of 56 bytes carries 38 bytes
\* of a read: the first read and the write take two chunks each.
MCJobs ==
  {Job("ReadArea", "DB", 0, 76), Job("ReadArea", "DB", 9, 20), Job("WriteArea", "DB", 5, 22),
   Unit("PlcStop"), Unit("GetPlcStatus"), Unit("GetDBSize")}
MCPdu == {0, 56}

\* With the 240 bytes the client asks for: reads of two chunks, one of them of
\* timers, which count two bytes each
MCWideJobs ==
  {Job("ReadArea", "DB", 0, 300), Job("ReadArea", "TM", 0, 150), Job("WriteArea", "DB", 7, 0),
   Unit("PlcStart")}
MCWidePdu == {0, 240}
=============================================================================
