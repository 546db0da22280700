------------------------------ MODULE Exceptions ------------------------------
(***************************************************************************)
(* The exceptions of the tools, by the names of their classes              *)
(* (mt_exception.h).  A model throws one by name; what it says is left out. *)
(***************************************************************************)

\* Of the assembler.
AsmExceptions == {"mt_bad_escape", "mt_multidef_symbol", "mt_bad_imm", "mt_bad_reg_format",
                  "mt_bad_mnemonic", "mt_asm_bad_arg_count", "mt_parse_unexpected",
                  "mt_program_size_violation", "mt_illegal_file_error"}
=============================================================================
