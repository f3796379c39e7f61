--------------------------- MODULE GbtCodecProofs ---------------------------
(***************************************************************************)
(* Proofs about the numbers of the charge engine, for all values of the    *)
(* fields and of the frames: fields stay in their ranges, the charger reads *)
(* what is meant, and no current that wraps around can make the tail       *)
(* request.                                                                *)
(***************************************************************************)
EXTENDS GbtCodec, TLAPS

\* How a charger reads a current, a cell voltage with its group, a temperature.
Amps(raw)    == raw - 4000
Cell(raw)    == (raw % 4096) * 10
Group(raw)   == raw \div 4096
Celsius(raw) == raw - 50

LEMMA ClampInRange ==
  ASSUME NEW v \in Int, NEW lo \in Int, NEW hi \in Int, lo <= hi
  PROVE  /\ Clamp(v, lo, hi) \in Int
         /\ lo <= Clamp(v, lo, hi) /\ Clamp(v, lo, hi) <= hi
         /\ lo <= v /\ v <= hi => Clamp(v, lo, hi) = v
  BY DEF Clamp

LEMMA RangesFit ==
  \A f \in Fields : Lowest(f) \in Int /\ Highest(f) \in Int /\ Lowest(f) <= Highest(f)
  BY DEF Lowest, Highest

LEMMA AllowedHolds == \A f \in Fields : Allowed(f) \subseteq Holds(f)
<1>1. /\ Lowest("PACK_VOLTAGE") = 0 /\ Highest("PACK_VOLTAGE") = 10000
      /\ Lowest("PACK_CURRENT") = -4000 /\ Highest("PACK_CURRENT") = 4000
  BY DEF Lowest, Highest, Currents, Temperatures, Voltages
<1>2. Allowed("PACK_VOLTAGE") \subseteq Holds("PACK_VOLTAGE")
  BY <1>1 DEF Allowed, Flags, Holds, U16
<1>3. Allowed("PACK_CURRENT") \subseteq Holds("PACK_CURRENT")
  BY <1>1 DEF Allowed, Flags, Holds, I16
<1>4. \A f : f # "PACK_VOLTAGE" /\ f # "PACK_CURRENT" => Holds(f) = Allowed(f)
  BY DEF Holds
<1>. QED
  BY <1>2, <1>3, <1>4, Zenon

LEMMA HoldsIntegers == \A f \in Fields : Holds(f) \subseteq Int
  BY DEF Holds, Allowed, U16, I16

\* Casts to 16 bits.
LEMMA Wraps ==
  ASSUME NEW n \in Int
  PROVE  /\ -32768 <= n /\ n < 32768 => ToI16(n) = n
         /\ 32768 <= n /\ n < 65536 => ToI16(n) = n - 65536
         /\ -98304 <= n /\ n < -32768 => ToI16(n) = n + 65536
<1>1. CASE -32768 <= n /\ n < 32768
  <2>1. (n + 32768) % 65536 = n + 32768
    BY <1>1
  <2>. QED  BY <1>1, <2>1 DEF ToI16
<1>2. CASE 32768 <= n /\ n < 65536
  <2>1. (n + 32768) % 65536 = (n + 32768) - 65536
    BY <1>2
  <2>. QED  BY <1>2, <2>1 DEF ToI16
<1>3. CASE -98304 <= n /\ n < -32768
  <2>1. (n + 32768) % 65536 = (n + 32768) + 65536
    BY <1>3
  <2>. QED  BY <1>3, <2>1 DEF ToI16
<1>. QED  BY <1>1, <1>2, <1>3

\* What the two casts make of the current of CCS.
LEMMA Decoded ==
  ASSUME NEW raw \in U16
  PROVE  DecodeCurrent(raw) = IF raw <= 36767 THEN raw - 4000 ELSE raw - 69536
<1>1. raw \in Int /\ 0 <= raw /\ raw < 65536
  BY DEF U16
<1>2. CASE raw < 32768
  <2>1. ToI16(raw) = raw
    BY <1>1, <1>2, Wraps
  <2>2. ToI16(raw - 4000) = raw - 4000
    BY <1>1, <1>2, Wraps
  <2>. QED  BY <1>1, <1>2, <2>1, <2>2 DEF DecodeCurrent
<1>3. CASE raw >= 32768
  <2> DEFINE n == raw - 69536
  <2>1. ToI16(raw) = raw - 65536
    BY <1>1, <1>3, Wraps
  <2>2. n \in Int /\ ToI16(raw) - 4000 = n
    BY <1>1, <2>1
  <2>. HIDE DEF n
  <2>3. DecodeCurrent(raw) = ToI16(n)
    BY <2>2 DEF DecodeCurrent
  <2>4. /\ n < -32768 /\ -98304 <= n => ToI16(n) = n + 65536
        /\ -32768 <= n /\ n < 32768 => ToI16(n) = n
    BY <2>2, Wraps
  <2>. QED  BY <1>1, <1>3, <2>2, <2>3, <2>4 DEF n
<1>. QED  BY <1>1, <1>2, <1>3

\* A value is stored as it is if CLI_RUNTIME.md allows it, and as an allowed one
\* otherwise (GbtSetRuntimeField).
THEOREM RsetClamps ==
  \A f \in Fields, v \in Int :
    /\ Stored(f, v) \in Allowed(f)
    /\ v \in Allowed(f) => Stored(f, v) = v
<1> SUFFICES ASSUME NEW f \in Fields, NEW v \in Int
             PROVE  /\ Stored(f, v) \in Allowed(f)
                    /\ v \in Allowed(f) => Stored(f, v) = v
  OBVIOUS
<1>1. CASE f = "MODE" \/ f \in Flags
  BY <1>1 DEF Stored, Allowed, Flags
<1>2. CASE f # "MODE" /\ f \notin Flags
  BY <1>2, RangesFit, ClampInRange DEF Stored, Allowed
<1>. QED
  BY <1>1, <1>2

\* Whatever is set, edited, received or requested at the tail, the fields hold
\* what fits into them.
THEOREM RuntimesClosed ==
  ASSUME NEW r \in Runtimes
  PROVE  /\ \A f \in Fields, v \in Int : SetField(r, f, v) \in Runtimes
         /\ \A f \in Fields, delta \in Int : ApplyDelta(r, f, delta) \in Runtimes
         /\ \A v \in U16, raw \in U16 : ReadCcs(r, v, raw) \in Runtimes
         /\ ApplyTail(r) \in Runtimes
<1>0. r \in [Fields -> Int] /\ \A f \in Fields : r[f] \in Holds(f)
  BY DEF Runtimes
<1>1. ASSUME NEW f \in Fields, NEW v \in Int
      PROVE  SetField(r, f, v) \in Runtimes
  <2>1. Stored(f, v) \in Holds(f)
    BY RsetClamps, AllowedHolds
  <2>2. Holds(f) \subseteq Int
    BY HoldsIntegers
  <2>. QED
    BY <1>0, <2>1, <2>2 DEF SetField, Runtimes
<1>2. ASSUME NEW f \in Fields, NEW delta \in Int
      PROVE  ApplyDelta(r, f, delta) \in Runtimes
  <2>1. r[f] \in Int
    BY <1>0
  <2>. QED
    BY <1>1, <2>1 DEF ApplyDelta
<1>3. ASSUME NEW v \in U16, NEW raw \in U16
      PROVE  ReadCcs(r, v, raw) \in Runtimes
  <2>1. DecodeCurrent(raw) \in I16 /\ DecodeCurrent(raw) \in Int /\ v \in Int
    BY Decoded DEF U16, I16
  <2>2. Holds("PACK_VOLTAGE") = U16 /\ Holds("PACK_CURRENT") = I16
    BY DEF Holds
  <2>. QED
    BY <1>0, <2>1, <2>2 DEF ReadCcs, Runtimes
<1>4. ApplyTail(r) \in Runtimes
  <2>1. /\ Holds("TAIL_CURRENT") = Holds("DEMAND_CURRENT")
        /\ Holds("TAIL_VOLTAGE") = Holds("DEMAND_VOLTAGE")
    BY DEF Holds, Allowed, Lowest, Highest, Flags, Currents, Temperatures, Voltages
  <2>2. "TAIL_CURRENT" \in Fields /\ "TAIL_VOLTAGE" \in Fields
    BY DEF Fields, Currents, Voltages
  <2>. QED
    BY <1>0, <2>1, <2>2 DEF ApplyTail, Runtimes
<1>. QED
  BY <1>1, <1>2, <1>3, <1>4

\* What the ranges of the fields come to.
LEMMA Ranges ==
  ASSUME NEW r \in Runtimes
  PROVE  /\ \A f \in Currents \ {"PACK_CURRENT"} :
              r[f] \in Int /\ -4000 <= r[f] /\ r[f] <= 4000
         /\ \A f \in Temperatures : r[f] \in Int /\ -50 <= r[f] /\ r[f] <= 120
         /\ r["MAX_CELL_GROUP"] \in 0 .. 15
         /\ r["MAX_CELL_MV"] \in Int
         /\ 0 <= r["MAX_CELL_MV"] /\ r["MAX_CELL_MV"] <= 24000
<1>1. \A f \in Fields : r[f] \in Holds(f)
  BY DEF Runtimes
<1>2. ASSUME NEW f \in Fields, f \notin {"PACK_VOLTAGE", "PACK_CURRENT", "MODE"},
             f \notin Flags
      PROVE  r[f] \in Int /\ Lowest(f) <= r[f] /\ r[f] <= Highest(f)
  BY <1>1, <1>2 DEF Holds, Allowed
<1>3. ASSUME NEW f \in Currents \ {"PACK_CURRENT"}
      PROVE  r[f] \in Int /\ -4000 <= r[f] /\ r[f] <= 4000
  <2>1. f \in Fields /\ f \notin Flags /\ f \notin {"PACK_VOLTAGE", "PACK_CURRENT", "MODE"}
    BY DEF Fields, Currents, Flags
  <2>2. Lowest(f) = -4000 /\ Highest(f) = 4000
    BY DEF Lowest, Highest, Currents, Voltages
  <2>. QED  BY <1>2, <2>1, <2>2
<1>4. ASSUME NEW f \in Temperatures
      PROVE  r[f] \in Int /\ -50 <= r[f] /\ r[f] <= 120
  <2>1. f \in Fields /\ f \notin Flags /\ f \notin {"PACK_VOLTAGE", "PACK_CURRENT", "MODE"}
    BY DEF Fields, Temperatures, Flags
  <2>2. Lowest(f) = -50 /\ Highest(f) = 120
    BY DEF Lowest, Highest, Currents, Voltages, Temperatures
  <2>. QED  BY <1>2, <2>1, <2>2
<1>5. r["MAX_CELL_GROUP"] \in 0 .. 15
  <2>1. "MAX_CELL_GROUP" \in Fields /\ "MAX_CELL_GROUP" \notin Flags
    BY DEF Fields, Others, Flags
  <2>2. Lowest("MAX_CELL_GROUP") = 0 /\ Highest("MAX_CELL_GROUP") = 15
    BY DEF Lowest, Highest, Currents, Voltages, Temperatures, Indices
  <2>. QED  BY <1>2, <2>1, <2>2
<1>6. r["MAX_CELL_MV"] \in Int /\ 0 <= r["MAX_CELL_MV"] /\ r["MAX_CELL_MV"] <= 24000
  <2>1. "MAX_CELL_MV" \in Fields /\ "MAX_CELL_MV" \notin Flags
    BY DEF Fields, Others, Flags
  <2>2. Lowest("MAX_CELL_MV") = 0 /\ Highest("MAX_CELL_MV") = 24000
    BY DEF Lowest, Highest, Currents, Voltages, Temperatures, Indices
  <2>. QED  BY <1>2, <2>1, <2>2
<1>. QED
  BY <1>3, <1>4, <1>5, <1>6

\* Codes of single values, read back.
LEMMA CurrentRead ==
  ASSUME NEW i \in Int, -4000 <= i, i <= 4000
  PROVE  Amps(EncodeCurrent(i)) = i
  BY DEF Amps, EncodeCurrent, Clamp

LEMMA TemperatureRead ==
  ASSUME NEW t \in Int, -50 <= t, t <= 120
  PROVE  Celsius((t + 50) % 256) = t
<1>1. (t + 50) % 256 = t + 50
  OBVIOUS
<1>. QED  BY <1>1 DEF Celsius

LEMMA CellRead ==
  ASSUME NEW mV \in Int, 0 <= mV, mV <= 24000
  PROVE  /\ EncodeCell(mV) \in Int /\ 0 <= EncodeCell(mV) /\ EncodeCell(mV) < 4096
         /\ Magnitude(EncodeCell(mV) * 10 - mV) <= 5
<1> DEFINE q == (mV + 5) \div 10
<1>1. q \in Int /\ 0 <= q /\ q < 4096 /\ q * 10 <= mV + 5 /\ mV + 5 < q * 10 + 10
  OBVIOUS
<1>. HIDE DEF q
<1>2. Clamp(q, 0, 4095) = q
  BY <1>1 DEF Clamp
<1>3. EncodeCell(mV) = q
  BY <1>2 DEF EncodeCell, q
<1>4. Magnitude(q * 10 - mV) <= 5
  BY <1>1 DEF Magnitude
<1>. QED  BY <1>1, <1>3, <1>4

LEMMA GroupRead ==
  ASSUME NEW g \in 0 .. 15, NEW mV \in Int, 0 <= mV, mV <= 24000
  PROVE  LET w == (g % 16) * 4096 + EncodeCell(mV)
         IN  Group(w) = g /\ Magnitude(Cell(w) - mV) <= 5
<1> DEFINE c == EncodeCell(mV)
           w == (g % 16) * 4096 + c
<1>1. /\ c \in Int /\ 0 <= c /\ c < 4096
      /\ Magnitude(c * 10 - mV) <= 5
  BY CellRead
<1>. HIDE DEF c
<1>2. g % 16 = g
  OBVIOUS
<1>3. w % 4096 = c /\ w \div 4096 = g
  <2>1. (g * 4096 + c) % 4096 = c /\ (g * 4096 + c) \div 4096 = g
    BY <1>1
  <2>. QED  BY <1>2, <2>1
<1>. HIDE DEF w
<1>4. Group(w) = g /\ Magnitude(Cell(w) - mV) <= 5
  <2>1. Group(w) = g /\ Cell(w) = c * 10
    BY <1>3 DEF Group, Cell
  <2>. QED  BY <1>1, <2>1
<1>. QED  BY <1>4 DEF w, c

\* BCL carries the demand and BSM the temperatures exactly, and BCS the cell
\* voltage to half of its 10 mV with its group: no clamp and no mask bites
\* (build_and_send_BCL, build_and_send_BSM, build_and_send_BCS).
THEOREM FramesUnderstood ==
  ASSUME NEW r \in Runtimes
  PROVE  /\ Amps(BCL(r).current) = r["DEMAND_CURRENT"]
         /\ Celsius(BSM(r).tempMax) = r["TEMP_MAX_C"]
         /\ Celsius(BSM(r).tempMin) = r["TEMP_MIN_C"]
         /\ Group(BCS(r).cell) = r["MAX_CELL_GROUP"]
         /\ Magnitude(Cell(BCS(r).cell) - r["MAX_CELL_MV"]) <= 5
<1>1. Amps(BCL(r).current) = r["DEMAND_CURRENT"]
  <2>1. BCL(r).current = EncodeCurrent(r["DEMAND_CURRENT"])
    BY DEF BCL
  <2>2. /\ r["DEMAND_CURRENT"] \in Int
        /\ -4000 <= r["DEMAND_CURRENT"] /\ r["DEMAND_CURRENT"] <= 4000
    BY Ranges DEF Currents
  <2>. QED  BY <2>1, <2>2, CurrentRead
<1>2. Celsius(BSM(r).tempMax) = r["TEMP_MAX_C"]
      /\ Celsius(BSM(r).tempMin) = r["TEMP_MIN_C"]
  <2>1. BSM(r).tempMax = (r["TEMP_MAX_C"] + 50) % 256
        /\ BSM(r).tempMin = (r["TEMP_MIN_C"] + 50) % 256
    BY DEF BSM
  <2>2. \A f \in Temperatures : Celsius((r[f] + 50) % 256) = r[f]
    BY Ranges, TemperatureRead
  <2>. QED  BY <2>1, <2>2 DEF Temperatures
<1>3. /\ Group(BCS(r).cell) = r["MAX_CELL_GROUP"]
      /\ Magnitude(Cell(BCS(r).cell) - r["MAX_CELL_MV"]) <= 5
  <2>1. BCS(r).cell = (r["MAX_CELL_GROUP"] % 16) * 4096 + EncodeCell(r["MAX_CELL_MV"])
    BY DEF BCS
  <2>2. /\ r["MAX_CELL_GROUP"] \in 0 .. 15 /\ r["MAX_CELL_MV"] \in Int
        /\ 0 <= r["MAX_CELL_MV"] /\ r["MAX_CELL_MV"] <= 24000
    BY Ranges
  <2>. QED  BY <2>1, <2>2, GroupRead
<1>. QED  BY <1>1, <1>2, <1>3

\* The current of CCS that comes back in BCS is the charger's own, up to the
\* largest that 16 bits hold; beyond it the report is -400 A (handle_rx_message,
\* encode_current_off400).
THEOREM CurrentEchoed ==
  ASSUME NEW r \in Runtimes, NEW v \in U16, NEW raw \in U16
  PROVE  BCS(ReadCcs(r, v, raw)).current = IF raw <= 36767 THEN raw ELSE 0
<1>1. r \in [Fields -> Int] /\ {"PACK_VOLTAGE", "PACK_CURRENT"} \subseteq Fields
  BY DEF Runtimes, Fields, Voltages, Currents
<1>2. ReadCcs(r, v, raw)["PACK_CURRENT"] = DecodeCurrent(raw)
  BY <1>1 DEF ReadCcs
<1>3. EncodeCurrent(DecodeCurrent(raw)) = IF raw <= 36767 THEN raw ELSE 0
  BY Decoded DEF EncodeCurrent, Clamp, U16
<1>. QED
  BY <1>2, <1>3 DEF BCS

\* A CCS makes the tail request exactly when the pack voltage is over its
\* threshold and the current the charger means is under its own: one that wraps
\* around in int16_t arithmetic is larger than any threshold either way
\* (handle_rx_message, maybe_apply_tail_request).
THEOREM TailNotFooled ==
  ASSUME NEW r \in Runtimes, NEW v \in U16, NEW raw \in U16
  PROVE  AtTail(ReadCcs(r, v, raw))
           <=> /\ v > r["TAIL_SWITCH_VOLTAGE"]
               /\ Magnitude(Amps(raw)) < r["TAIL_SWITCH_CURRENT"]
<1>1. r \in [Fields -> Int] /\ {"PACK_VOLTAGE", "PACK_CURRENT"} \subseteq Fields
  BY DEF Runtimes, Fields, Voltages, Currents
<1> DEFINE s == ReadCcs(r, v, raw)
<1>2. /\ s["PACK_CURRENT"] = DecodeCurrent(raw) /\ s["PACK_VOLTAGE"] = v
      /\ s["TAIL_SWITCH_VOLTAGE"] = r["TAIL_SWITCH_VOLTAGE"]
      /\ s["TAIL_SWITCH_CURRENT"] = r["TAIL_SWITCH_CURRENT"]
  <2>1. {"TAIL_SWITCH_VOLTAGE", "TAIL_SWITCH_CURRENT"} \subseteq Fields
    BY DEF Fields, Voltages, Currents
  <2>. QED
    BY <1>1, <2>1 DEF ReadCcs
<1>3. ASSUME NEW limit \in Int, -4000 <= limit, limit <= 4000
      PROVE  Magnitude(DecodeCurrent(raw)) < limit <=> Magnitude(Amps(raw)) < limit
  BY <1>3, Decoded DEF Magnitude, Amps, U16
<1>. HIDE DEF s
<1>4. AtTail(s) <=> /\ v > r["TAIL_SWITCH_VOLTAGE"]
                    /\ Magnitude(Amps(raw)) < r["TAIL_SWITCH_CURRENT"]
  <2>1. \A f \in Currents \ {"PACK_CURRENT"} :
          Magnitude(DecodeCurrent(raw)) < r[f] <=> Magnitude(Amps(raw)) < r[f]
    BY <1>3, Ranges
  <2>2. "TAIL_SWITCH_CURRENT" \in Currents \ {"PACK_CURRENT"}
    BY DEF Currents
  <2>. QED  BY <1>2, <2>1, <2>2 DEF AtTail
<1>. QED
  BY <1>4 DEF s

\* The receiver finds the PGN that was sent, whatever the priority and the
\* addresses (make_j1939_id, decode_pgn_from_id).
THEOREM PgnKept ==
  ASSUME NEW prio \in Nat, NEW dp \in 0 .. 1, NEW pf \in 0 .. 239, NEW sa \in 0 .. 255,
         NEW da \in 0 .. 255
  PROVE  DecodePgn(MakeId(prio, dp * 65536 + pf * 256, sa, da)) = dp * 65536 + pf * 256
<1> DEFINE pgn == dp * 65536 + pf * 256
           id  == MakeId(prio, pgn, sa, da)
<1>1. (pgn \div 256) % 256 = pf /\ (pgn \div 65536) % 2 = dp
  OBVIOUS
<1>2. PICK p \in 0 .. 7 : prio % 8 = p
  OBVIOUS
<1>3. id = p * 67108864 + dp * 16777216 + pf * 65536 + da * 256 + sa
  BY <1>1, <1>2 DEF MakeId
<1>4. (id \div 65536) % 256 = pf /\ (id \div 16777216) % 2 = dp
  BY <1>3
<1>. QED
  BY <1>4 DEF DecodePgn
=============================================================================
