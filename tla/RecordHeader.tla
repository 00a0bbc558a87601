----------------------------- MODULE RecordHeader -----------------------------
(***************************************************************************)
(* The in-band telemetry header of onos-p4-cpu/p4src/main.p4, as the       *)
(* operations the pipeline performs on it.                                 *)
(*                                                                         *)
(* Behind the ethernet header a recorded packet carries                    *)
(*     records_t { records; ether_type }  data[0] .. data[records-1]       *)
(* and then the packet the host sent.  Everything behind records_t is here *)
(* the sequence "body" of 15-byte cells: a cell is what one record_data_t  *)
(* occupies, be it a switch's metrics or 15 bytes of the host's packet.    *)
(***************************************************************************)
EXTENDS Naturals, Sequences

CONSTANT MaxRec   \* MAX_REC, the size of the header stack data[]

ASSUME MaxRecAssumption == MaxRec \in Nat /\ MaxRec >= 5

\* What set_metrics writes into data[0] at switch s: its dpid identifies s.
Metric(s) == <<"metric", s>>

\* A cell is a switch's metrics or a piece of the host's packet.
Cell == {"metric", "data"} \X Nat

\* A bit<8> field.
Byte(x) == x % 256

(***************************************************************************)
(* parse_record and parse_record_data.  remaining starts at records + 1,   *)
(* so a packet with records > 0 has one cell more extracted than it has    *)
(* records, and the loop stops early at the end of the packet and at the   *)
(* end of the stack.                                                       *)
(***************************************************************************)
Extracted(n, body) ==
  IF n = 0 THEN 0
  ELSE CHOOSE k \in {n + 1, MaxRec, Len(body)} :
         \A j \in {n + 1, MaxRec, Len(body)} : k <= j

Stack(n, body) == SubSeq(body, 1, Extracted(n, body))

Unparsed(n, body) == SubSeq(body, Extracted(n, body) + 1, Len(body))

\* data.push_front(1) and the assignment to data[0]: a full stack loses its last cell.
PushFront(cell, stack) ==
  <<cell>> \o (IF Len(stack) < MaxRec THEN stack ELSE SubSeq(stack, 1, MaxRec - 1))

\* Mutant: clear_records forgets the sink's own record.
ClearTwoRecords(stack) == SubSeq(stack, 3, Len(stack))

\* clear_records invalidates data[0], data[1] and data[2], whatever they hold.
ClearRecords(stack) == SubSeq(stack, 4, Len(stack))

\* DeparserImpl: the valid cells of the stack, then what the parser left alone.
Emit(stack, rest) == stack \o rest

(***************************************************************************)
(* MetricRecorder.extractRecords: the records a packet-in yields.  A cell  *)
(* past the end of the packet raises, and what was read before it stays.   *)
(***************************************************************************)
ReadRecords(n, body) == SubSeq(body, 1, IF n <= Len(body) THEN n ELSE Len(body))

=============================================================================
