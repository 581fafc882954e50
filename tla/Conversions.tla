---------------------------- MODULE Conversions ----------------------------
(***************************************************************************)
(* The arithmetic between a sensor's registers and the number the monitor  *)
(* reports.  Temperatures are kept in eightieths of a degree, in which the *)
(* 0.0625 of the sensor, the 1.8 and 32 of Fahrenheit and the 273.5 of     *)
(* KELVIN are whole numbers.                                               *)
(***************************************************************************)
EXTENDS Integers

Degrees(d) == 80 * d

Words == 0..4095

(* Mutated: bit 10 is taken for the sign. *)
Minus_Correction_bit10(w) == IF w >= 1024 THEN 64512 + (w - 1024) ELSE w

(* Read_Temperature on the sensor's 12-bit word.  The build's char is          *)
(* unsigned, so the word arrives as a number from 0 to 4095, and the           *)
(* "correction" of a set bit 11 sets bits 11 to 15 of a 32-bit int.            *)
Minus_Correction(w) == IF w >= 2048 THEN 63488 + (w - 2048) ELSE w

Final_temperature(w) == 5 * Minus_Correction(w)

(* times 1.8, plus 32; plus KELVIN, 273.5 *)
Fahrenheit(temp) == (temp * 9) \div 5 + Degrees(32)
Kelvin(temp) == temp + 21880

(* Unit 2 is converted to Fahrenheit and unit 3 to Kelvin; zero degrees come   *)
(* back as EXIT_FAILURE, the number 1.                                         *)
Temp_Conversion(temp, unit) ==
    IF temp = 0 THEN Degrees(1)
    ELSE IF unit = 2 THEN Fahrenheit(temp) ELSE Kelvin(temp)

Read_Temperature(w, unit) ==
    IF unit = 1 THEN Final_temperature(w)
                ELSE Temp_Conversion(Final_temperature(w), unit)

(* The word as the sensor means it, a two's complement number of sixteenths,   *)
(* and what a reply with a label should say.                                   *)
Measured(w) == 5 * (IF w < 2048 THEN w ELSE w - 4096)
InUnit(w, label) ==
    CASE label = "C" -> Measured(w)
      [] label = "F" -> Fahrenheit(Measured(w))
      [] label = "K" -> Kelvin(Measured(w))
-----------------------------------------------------------------------------
(* The lux formula Read_Light_Sensor picks for the ratio ADC = data1/data0.    *)
(* C reads 0 < ADC < 0.50 as (0 < ADC) < 0.50: the truth value 0 or 1 is what  *)
(* is compared, so the branch is taken when the first comparison is false;     *)
(* 1 < 1.30 makes the last one always true.                                    *)
Above(data0, data1, hundredths) == 100 * data1 > hundredths * data0

Lux_branch(data0, data1) ==
    IF ~Above(data0, data1, 0) THEN 1
    ELSE IF ~Above(data0, data1, 50) THEN 2
    ELSE IF ~Above(data0, data1, 61) THEN 3
    ELSE 4

(* The interval the source writes for each formula; 5 is the final else.       *)
Lux_interval(data0, data1) ==
    IF Above(data0, data1, 0) /\ 100 * data1 < 50 * data0 THEN 1
    ELSE IF Above(data0, data1, 50) /\ 100 * data1 < 61 * data0 THEN 2
    ELSE IF Above(data0, data1, 61) /\ 100 * data1 < 80 * data0 THEN 3
    ELSE IF Above(data0, data1, 80) /\ 100 * data1 < 130 * data0 THEN 4
    ELSE 5
-----------------------------------------------------------------------------
(* The state logged with a temperature: above the unit's threshold or not.     *)
CELSIUS_THRESHOLD == Degrees(25)
KELVIN_THRESHOLD == Degrees(298)
FARHENIET_THRESHOLD == Degrees(77)
Threshold(unit) ==
    CASE unit = 1 -> CELSIUS_THRESHOLD
      [] unit = 2 -> KELVIN_THRESHOLD
      [] unit = 3 -> FARHENIET_THRESHOLD

temp_state(temp_value, unit) == IF temp_value > Threshold(unit) THEN "hot" ELSE "cool"
=============================================================================
