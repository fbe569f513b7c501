---------------------------- MODULE MCCodecSetup ----------------------------
(* Start of InitializeSGTL: the identification, then a register written and    *)
(* read back, then another one written.                                        *)
EXTENDS CodecSetup

Access(op, reg, data) == [op |-> op, reg |-> reg, data |-> data]
MCCalls == <<Access("read", "CHIP_ID", "reset"), Access("write", "PLL_CTRL", "pll"),
             Access("read", "PLL_CTRL", "reset"), Access("write", "ANA_POWER", "power")>>
=============================================================================
