------------------------------- MODULE Regmap -------------------------------
(***************************************************************************)
(* The register map of linux/regmap.h: what __regmap_init() makes of a     *)
(* configuration, and what a raw write does with the map's work buffer.    *)
(* Formats other than 8-bit ones are disabled in the header.               *)
(***************************************************************************)
EXTENDS Integers

(* struct regmap_config, as far as the format depends on it.               *)
Config == [reg_bits : Nat, pad_bits : Nat, val_bits : Nat]

(* enum regmap_endian                                                      *)
Endians == {"DEFAULT", "BIG", "LITTLE", "NATIVE"}

RoundUp8(bits) == (bits + 7) \div 8

(* Variant: there is no room for a value.                                  *)
BufSizeRegister(c) == RoundUp8(c.reg_bits + c.pad_bits)

BufSize(c) == RoundUp8(c.reg_bits + c.val_bits + c.pad_bits)

RegShift(c) == c.pad_bits % 8

(* regmap_get_val_endian(), and the same for registers: the local variable *)
(* is set only if the bus names an endianness, and is read all the same.   *)
GetEndian(default) ==
    LET read == IF default # "DEFAULT" THEN {default} ELSE Endians
    IN  {IF e = "DEFAULT" THEN "BIG" ELSE e : e \in read}

(* The two switches: the cases of other widths are compiled out.           *)
HasFormatReg(c) == c.reg_bits + RegShift(c) = 8
HasFormatVal(c) == c.val_bits = 8

(* No case sets format_write, so both are needed.                          *)
Accepted(c) == HasFormatReg(c) /\ HasFormatVal(c)

(* format.parse_inplace: set for native values, then for 8-bit values.     *)
ParseInplace(c, val_endian) ==
    IF val_endian = "NATIVE" \/ HasFormatVal(c) THEN "noop" ELSE "null"

(* The map of an accepted configuration.                                   *)
Map(c, val_endian) ==
    [reg_bytes |-> RoundUp8(c.reg_bits),
     pad_bytes |-> c.pad_bits \div 8,
     val_bytes |-> RoundUp8(c.val_bits),
     buf_size |-> BufSize(c),
     reg_shift |-> RegShift(c),
     parse_inplace |-> ParseInplace(c, val_endian)]

(* _regmap_raw_write(): a value of one register is copied behind the       *)
(* register and goes out with it.                                          *)
Single(map, len) == len = map.val_bytes

(* The bytes of work_buf that a raw write of this length touches.          *)
WorkUse(map, len) ==
    map.reg_bytes + map.pad_bytes + (IF Single(map, len) THEN len ELSE 0)
=============================================================================
