---------------------------- MODULE Instructions ----------------------------
(***************************************************************************)
(* The instructions of the virtual machine as bytes: the opcode table      *)
(* (opcode.c), the writer of one instruction (generate.c), and the walkers *)
(* that step over instructions by the table: label fixing, the size of the *)
(* stack a function needs, the shift of local variables at load time, and  *)
(* the disassembler.                                                       *)
(*                                                                         *)
(* Code is a sequence of cells; the cell of address a is code[a + 1].      *)
(* BYTE is the number of values of a byte (256 in the program; smaller     *)
(* here, so that the largest operands are reached).  A cell that holds an  *)
(* opcode is not bounded by BYTE.                                          *)
(***************************************************************************)
EXTENDS Integers, Sequences, SequencesExt

CONSTANT BYTE

(* name, parameters (b: one byte, s and p: two), stack increment. *)
dvm_opcode_info == <<
    <<"push_int_1byte", "b", 1>>, <<"push_int_2byte", "s", 1>>,
    <<"push_int", "p", 1>>, <<"push_double_0", "", 1>>,
    <<"push_double_1", "", 1>>, <<"push_double", "p", 1>>,
    <<"push_string", "p", 1>>, <<"push_null", "", 1>>,
    <<"push_stack_int", "s", 1>>, <<"push_stack_double", "s", 1>>,
    <<"push_stack_object", "s", 1>>, <<"pop_stack_int", "s", -1>>,
    <<"pop_stack_double", "s", -1>>, <<"pop_stack_object", "s", -1>>,
    <<"push_static_int", "s", 1>>, <<"push_static_double", "s", 1>>,
    <<"push_static_object", "s", 1>>, <<"pop_static_int", "s", -1>>,
    <<"pop_static_double", "s", -1>>, <<"pop_static_object", "s", -1>>,
    <<"push_constant_int", "s", 1>>, <<"push_constant_double", "s", 1>>,
    <<"push_constant_object", "s", 1>>, <<"pop_constant_int", "s", -1>>,
    <<"pop_constant_double", "s", -1>>, <<"pop_constant_object", "s", -1>>,
    <<"push_array_int", "", 1>>, <<"push_array_double", "", 1>>,
    <<"push_array_object", "", 1>>, <<"pop_array_int", "", -1>>,
    <<"pop_array_double", "", -1>>, <<"pop_array_object", "", -1>>,
    <<"push_character_in_string", "", -1>>, <<"push_field_int", "s", 1>>,
    <<"push_field_double", "s", 1>>, <<"push_field_object", "s", 1>>,
    <<"pop_field_int", "s", -1>>, <<"pop_field_double", "s", -1>>,
    <<"pop_field_object", "s", -1>>, <<"add_int", "", -1>>,
    <<"add_double", "", -1>>, <<"add_string", "", -1>>, <<"sub_int", "", -1>>,
    <<"sub_double", "", -1>>, <<"mul_int", "", -1>>, <<"mul_double", "", -1>>,
    <<"div_int", "", -1>>, <<"div_double", "", -1>>, <<"mod_int", "", -1>>,
    <<"mod_double", "", -1>>, <<"bit_and", "", -1>>, <<"bit_or", "", -1>>,
    <<"bit_xor", "", -1>>, <<"minus_int", "", 0>>, <<"minus_double", "", 0>>,
    <<"bit_not", "", 0>>, <<"increment", "", 0>>, <<"decrement", "", 0>>,
    <<"cast_int_to_double", "", 0>>, <<"cast_double_to_int", "", 0>>,
    <<"cast_boolean_to_string", "", 0>>, <<"cast_int_to_string", "", 0>>,
    <<"cast_double_to_string", "", 0>>, <<"cast_enum_to_string", "s", 0>>,
    <<"up_cast", "s", 0>>, <<"down_cast", "s", 0>>, <<"eq_int", "", -1>>,
    <<"eq_double", "", -1>>, <<"eq_object", "", -1>>, <<"eq_string", "", -1>>,
    <<"gt_int", "", -1>>, <<"gt_double", "", -1>>, <<"gt_string", "", -1>>,
    <<"ge_int", "", -1>>, <<"ge_double", "", -1>>, <<"ge_string", "", -1>>,
    <<"lt_int", "", -1>>, <<"lt_double", "", -1>>, <<"lt_string", "", -1>>,
    <<"le_int", "", -1>>, <<"le_double", "", -1>>, <<"le_string", "", -1>>,
    <<"ne_int", "", -1>>, <<"ne_double", "", -1>>, <<"ne_object", "", -1>>,
    <<"ne_string", "", -1>>, <<"logical_and", "", -1>>,
    <<"logical_or", "", -1>>, <<"logical_not", "", 0>>, <<"pop", "", -1>>,
    <<"duplicate", "", 1>>, <<"duplicate_offset", "s", 1>>,
    <<"jump", "s", 0>>, <<"jump_if_true", "s", -1>>,
    <<"jump_if_false", "s", -1>>, <<"push_function", "s", 1>>,
    <<"push_method", "s", 1>>, <<"push_delegate", "s", 1>>,
    <<"push_method_delegate", "s", 1>>, <<"invoke", "", -1>>,
    <<"invoke_delegate", "", -1>>, <<"return", "", -1>>, <<"new", "s", 1>>,
    <<"new_array", "bs", 0>>, <<"new_array_literal_int", "s", 1>>,
    <<"new_array_literal_double", "s", 1>>,
    <<"new_array_literal_object", "s", 1>>, <<"super", "", 0>>,
    <<"instanceof", "s", 0>>, <<"throw", "", -1>>, <<"rethrow", "", -1>>,
    <<"go_finally", "s", 1>>, <<"finally_end", "", -1>>>>

OpcodeCount == Len(dvm_opcode_info)
Number == [n \in {dvm_opcode_info[i][1] : i \in 1..OpcodeCount} |->
             CHOOSE i \in 1..OpcodeCount : dvm_opcode_info[i][1] = n]
Mnemonic(opcode)  == dvm_opcode_info[opcode][1]
Parameter(opcode) == dvm_opcode_info[opcode][2]
Increment(opcode) == dvm_opcode_info[opcode][3]

Width(opcode) == CASE Parameter(opcode) = ""   -> 0
                   [] Parameter(opcode) = "b"  -> 1
                   [] Parameter(opcode) = "bs" -> 3
                   [] OTHER                    -> 2

High(value) == (value \div BYTE) % BYTE
Low(value)  == value % BYTE
Two(code, a) == code[a + 1] * BYTE + code[a + 2]    \* GET_2BYTE_INT

(* generate_code: an opcode and its operands; high bytes are cut off. *)
Emit(opcode, args) ==
    <<opcode>> \o
    CASE Parameter(opcode) = ""   -> <<>>
      [] Parameter(opcode) = "b"  -> <<Low(args[1])>>
      [] Parameter(opcode) = "bs" -> <<Low(args[1]), High(args[2]), Low(args[2])>>
      [] OTHER                    -> <<High(args[1]), Low(args[1])>>

(* The opcode `offset` places after `base`: how typed instructions are
   chosen (DVM_ADD_INT + get_opcode_type_offset(type)). *)
Typed(base, offset) == Number[base] + offset

(* The address after the instruction at a (dvm_dump_instruction). *)
dvm_dump_instruction(code, a) == a + 1 + Width(code[a + 1])

(* The addresses of the instructions, from first to last. *)
RECURSIVE Addresses(_, _)
Addresses(code, a) ==
    IF a >= Len(code) THEN <<>>
    ELSE <<a>> \o Addresses(code, dvm_dump_instruction(code, a))

(* Faulty variant: the increments are added up with their signs. *)
NeedAtEnd(code) ==
    FoldSeq(LAMBDA a, sum : sum + Increment(code[a + 1]), 0, Addresses(code, 0))
calc_need_stack_size(code) ==
    LET at == Addresses(code, 0)
    IN FoldSeq(LAMBDA a, sum : LET inc == Increment(code[a + 1])
                               IN IF inc > 0 THEN sum + inc ELSE sum,
               0, at)

Jumps == {Number[n] : n \in {"jump", "jump_if_true", "jump_if_false", "go_finally"}}

(* fix_labels: the operand of a jump, a label, becomes its address. *)
fix_labels(code, label_address) ==
    LET jumps == {a \in ToSet(Addresses(code, 0)) : code[a + 1] \in Jumps}
        Address(a) == label_address[Two(code, a + 1)]
    IN [i \in 1..Len(code) |->
          IF i - 2 \in jumps THEN High(Address(i - 2))
          ELSE IF i - 3 \in jumps THEN Low(Address(i - 3))
          ELSE code[i]]
=============================================================================
