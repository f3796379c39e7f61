------------------------------ MODULE GbtCodec ------------------------------
(***************************************************************************)
(* The numbers of the charge engine (Core/Src/gbt_27930_bms.c): what RSET  *)
(* and the display may store in the fields of g_runtime, what BCL, BCS and *)
(* BSM carry of them, what CCS leaves in them, and when the tail request   *)
(* is made.  Identifiers and payloads are the integers that the code puts  *)
(* together from bytes.  Widths matter here, so they are modelled.         *)
(***************************************************************************)
EXTENDS Integers

U16 == {n \in Nat : n < 65536}
I16 == {n \in Int : -32768 <= n /\ n < 32768}

\* (int16_t)n
ToI16(n) == ((n + 32768) % 65536) - 32768

Clamp(v, lo, hi) == IF v < lo THEN lo ELSE IF v > hi THEN hi ELSE v

Magnitude(i) == IF i < 0 THEN -i ELSE i

-----------------------------------------------------------------------------
(* The fields *)

Voltages     == {"DEMAND_VOLTAGE", "PACK_VOLTAGE", "TAIL_SWITCH_VOLTAGE",
                 "TAIL_VOLTAGE"}
Currents     == {"DEMAND_CURRENT", "PACK_CURRENT", "TAIL_SWITCH_CURRENT",
                 "TAIL_CURRENT"}
Temperatures == {"TEMP_MAX_C", "TEMP_MIN_C"}
Indices      == {"MAX_CELL_INDEX", "TEMP_MAX_INDEX", "TEMP_MIN_INDEX"}
Flags        == {"PERMIT_CHARGE", "BRO_CONFIRM", "BRO_READY", "WAIT_FOR_CHM",
                 "LOCK_BEFORE_START"}
Others       == {"MAX_CELL_MV", "MAX_CELL_GROUP", "SOC_PERCENT",
                 "REMAINING_MIN", "BRO_PRE_DELAY_S", "BRO_WAIT_CONFIRM"}

Fields == Voltages \cup Currents \cup Temperatures \cup Indices \cup Flags
            \cup Others \cup {"MODE"}

Lowest(f) == IF f \in Currents THEN -4000
             ELSE IF f \in Temperatures THEN -50 ELSE 0

Highest(f) ==
  IF f \in Voltages THEN 10000 ELSE IF f \in Currents THEN 4000
  ELSE IF f \in Temperatures THEN 120 ELSE IF f \in Indices THEN 255
  ELSE IF f = "MAX_CELL_MV" THEN 24000 ELSE IF f = "MAX_CELL_GROUP" THEN 15
  ELSE IF f = "SOC_PERCENT" THEN 100 ELSE IF f = "REMAINING_MIN" THEN 600
  ELSE IF f = "BRO_PRE_DELAY_S" THEN 60 ELSE 2

\* GbtSetRuntimeField
Stored(f, v) ==
  IF f = "MODE" THEN IF v = 2 THEN 2 ELSE 1
  ELSE IF f \in Flags THEN IF v # 0 THEN 1 ELSE 0
  ELSE Clamp(v, Lowest(f), Highest(f))

SetField(r, f, v) == [r EXCEPT ![f] = Stored(f, v)]

\* The rows of the editor: a toggle, a sum, or the value again.
ApplyDelta(r, f, delta) ==
  SetField(r, f, IF f = "MODE" THEN 3 - r[f]
                 ELSE IF f = "PERMIT_CHARGE" THEN 1 - r[f]
                 ELSE IF f \in {"TAIL_SWITCH_VOLTAGE", "TAIL_SWITCH_CURRENT",
                                "TAIL_VOLTAGE", "TAIL_CURRENT"} \cup Flags
                                \cup {"BRO_WAIT_CONFIRM"} THEN r[f]
                 ELSE r[f] + delta)

-----------------------------------------------------------------------------
(* Frames *)

EncodeCurrent(i) == Clamp(i + 4000, 0, 65535)

EncodeCell(mV) == Clamp((mV + 5) \div 10, 0, 4095)

BCL(r) == [voltage |-> r["DEMAND_VOLTAGE"],
           current |-> EncodeCurrent(r["DEMAND_CURRENT"]),
           mode    |-> r["MODE"]]

BCS(r) == [voltage   |-> r["PACK_VOLTAGE"],
           current   |-> EncodeCurrent(r["PACK_CURRENT"]),
           cell      |-> (r["MAX_CELL_GROUP"] % 16) * 4096
                           + EncodeCell(r["MAX_CELL_MV"]),
           soc       |-> Clamp(r["SOC_PERCENT"], 0, 100),
           remaining |-> r["REMAINING_MIN"]]

BSM(r) == [maxCell  |-> r["MAX_CELL_INDEX"],
           tempMax  |-> (r["TEMP_MAX_C"] + 50) % 256,
           maxIndex |-> r["TEMP_MAX_INDEX"],
           tempMin  |-> (r["TEMP_MIN_C"] + 50) % 256,
           minIndex |-> r["TEMP_MIN_INDEX"],
           permit   |-> (r["PERMIT_CHARGE"] % 4) * 16]

\* The current of CCS is cut to 16 bits twice.
DecodeCurrent(raw) == ToI16(ToI16(raw) - 4000)

\* CCS with voltage v and current raw, as they are on the wire.
ReadCcs(r, v, raw) == [r EXCEPT !["PACK_VOLTAGE"] = v,
                                !["PACK_CURRENT"] = DecodeCurrent(raw)]

\* maybe_apply_tail_request, before it has been applied.
AtTail(r) == /\ r["PACK_VOLTAGE"] > r["TAIL_SWITCH_VOLTAGE"]
             /\ Magnitude(r["PACK_CURRENT"]) < r["TAIL_SWITCH_CURRENT"]

ApplyTail(r) ==
  IF AtTail(r) THEN [r EXCEPT !["DEMAND_CURRENT"] = r["TAIL_CURRENT"],
                              !["DEMAND_VOLTAGE"] = r["TAIL_VOLTAGE"]]
               ELSE r

-----------------------------------------------------------------------------
(* Identifiers *)

\* make_j1939_id and decode_pgn_from_id; an addressed PGN has 0 in its low byte.
MakeId(prio, pgn, sa, da) ==
  LET pf == (pgn \div 256) % 256
      dp == (pgn \div 65536) % 2
      ps == IF pf < 240 THEN da ELSE pgn % 256
  IN  (prio % 8) * 67108864 + dp * 16777216 + pf * 65536 + ps * 256 + sa

DecodePgn(id) ==
  LET pf == (id \div 65536) % 256
      dp == (id \div 16777216) % 2
      ps == (id \div 256) % 256
  IN  dp * 65536 + pf * 256 + (IF pf < 240 THEN 0 ELSE ps)

-----------------------------------------------------------------------------

\* What a host or an operator may set a field to (CLI_RUNTIME.md).
Allowed(f) == IF f = "MODE" THEN {1, 2} ELSE IF f \in Flags THEN {0, 1}
              ELSE {v \in Int : Lowest(f) <= v /\ v <= Highest(f)}

\* What a field may hold: CCS writes two of them without a look at their range.
Holds(f) == IF f = "PACK_VOLTAGE" THEN U16
            ELSE IF f = "PACK_CURRENT" THEN I16 ELSE Allowed(f)

Runtimes == {r \in [Fields -> Int] : \A f \in Fields : r[f] \in Holds(f)}
=============================================================================
