---------------------------- MODULE MemoryLayout ----------------------------
(* How values lie in the memory of an emulated address space: the layout of types           *)
(* (memory_layout.c), the loads and stores generated for them (lower_physical_ptrs.c), the  *)
(* address arithmetic (lower_lea.c) and the copies (lower_memcpy.c).                        *)
(*                                                                                          *)
(* The memory is an array of words.  A word is whatever it contains.  A value is a function *)
(* from paths to words: the words of an integer have numbers, the low word first, and word  *)
(* q of member i of a record or an array has the path <<i, q>>.  Pointers are integers of   *)
(* PtrBytes by then, and there are no Booleans in memory.                                   *)
EXTENDS Integers, Sequences, FiniteSetsExt

WordBytes == 4
PtrBytes == 8

Int_TAG(bytes) == [tag |-> "Int", bytes |-> bytes]
RecordType(members) == [tag |-> "Record", members |-> members]
ArrType(element, size) == [tag |-> "Arr", element |-> element, size |-> size]

CONSTANT Types   \* the types of the program, each once and after those it is made of

TypesBefore(n) == { Types[i] : i \in 1..(n - 1) }
ProgramTypes == { Types[i] : i \in DOMAIN Types }

ASSUME TypesAssumption ==
    /\ Types \in Seq(ProgramTypes)
    /\ \A i, j \in DOMAIN Types : Types[i] = Types[j] => i = j
    /\ \A n \in DOMAIN Types : LET t == Types[n] IN
        \/ \E bytes \in {1, 2, 4, 8} : t = Int_TAG(bytes)
        \/ t.tag = "Record" /\ t = RecordType(t.members) /\ t.members \in Seq(TypesBefore(n))
        \/ t.tag = "Arr" /\ t = ArrType(t.element, t.size) /\ t.element \in TypesBefore(n)
           /\ t.size \in Nat

larger(a, b) == IF a > b THEN a ELSE b
round_up(a, b) == IF b = 0 THEN a ELSE ((a + b - 1) \div b) * b

(* A layout: size and alignment in bytes, the offsets of the members, and where each word   *)
(* of a value lies.  An integer narrower than a word shares one, and has none of its own:   *)
(* no such integer is loaded or stored here.                                                *)
IntLayout(bytes) ==
    [size |-> bytes, alignment |-> larger(bytes, WordBytes), offsets |-> <<>>,
     words |-> [w \in 1..(bytes \div WordBytes) |-> WordBytes * (w - 1)]]

(* words[i] are those of member i.                                                          *)
member_words(offsets, words) ==
    [path \in UNION { {i} \X DOMAIN words[i] : i \in DOMAIN words } |->
        offsets[path[1]] + words[path[1]][path[2]]]

(* Places the members one after the other; layout is that of each of their types.           *)
place_members(members, layout) ==
    LET placed[i \in 0..Len(members)] ==
            IF i = 0 THEN [size |-> 0, alignment |-> 0, offsets |-> <<>>]
            ELSE LET before == placed[i - 1]
                     member == layout[members[i]]
                     offset == round_up(before.size, member.alignment)
                 IN  [size |-> offset + member.size,
                      alignment |-> larger(before.alignment, member.alignment),
                      offsets |-> Append(before.offsets, offset)]
    IN  placed[Len(members)]

(* The size of a record is a multiple of its alignment.                                     *)
RecordLayout(placed, words) ==
    [size |-> round_up(placed.size, placed.alignment), alignment |-> placed.alignment,
     offsets |-> placed.offsets, words |-> member_words(placed.offsets, words)]

get_record_layout(members, layout) ==
    RecordLayout(place_members(members, layout), [i \in DOMAIN members |-> layout[members[i]].words])

ArrLayout(size, element) ==
    LET offsets == [i \in 1..size |-> (i - 1) * element.size]
    IN  [size |-> size * element.size, alignment |-> element.alignment, offsets |-> offsets,
         words |-> member_words(offsets, [i \in 1..size |-> element.words])]

mem_layout(t, layout) ==
    CASE t.tag = "Int" -> IntLayout(t.bytes)
      [] t.tag = "Record" -> get_record_layout(t.members, layout)
      [] t.tag = "Arr" -> ArrLayout(t.size, layout[t.element])

(* The layouts of the first n types.                                                        *)
layouts[n \in 0..Len(Types)] ==
    IF n = 0 THEN <<>>
    ELSE LET before == layouts[n - 1]
         IN  [t \in DOMAIN before \cup {Types[n]} |->
                IF t = Types[n] THEN mem_layout(t, before) ELSE before[t]]

get_mem_layout == layouts[Len(Types)]

size_of(t) == get_mem_layout[t].size
offset_of(t, i) == get_mem_layout[t].offsets[i]
words_of(t) == get_mem_layout[t].words

(* lower_lea.c: pointer arithmetic on a pointer to t, and on a pointer into a t.            *)
lower_ptr_offset(t, base, offset) == base + offset * size_of(t)
lower_ptr_index(t, base, i) ==
    IF t.tag = "Arr" THEN base + (i - 1) * size_of(t.element) ELSE base + offset_of(t, i)
MemberType(t, i) == IF t.tag = "Arr" THEN t.element ELSE t.members[i]
Members(t) == IF t.tag = "Arr" THEN 1..t.size ELSE DOMAIN t.members

bytes_to_words(bytes) == bytes \div WordBytes

(* What is outside of the array is nobody's: a store there is lost and a load is garbage.   *)
Garbage == -1
LoadWord(memory, i) == IF i \in DOMAIN memory THEN memory[i] ELSE Garbage

(* Where in the array each word of a value at an address is.                                *)
element_of(words, address) == [path \in DOMAIN words |-> bytes_to_words(address + words[path])]
elements_of(t, address) == element_of(words_of(t), address)

gen_deserialisation(t, memory, address) ==
    LET at == elements_of(t, address) IN [path \in DOMAIN at |-> LoadWord(memory, at[path])]

gen_serialisation(t, memory, address, value) ==
    LET at == elements_of(t, address)
    IN  [i \in DOMAIN memory |->
            IF \E path \in DOMAIN at : at[path] = i
            THEN value[CHOOSE path \in DOMAIN at : at[path] = i] ELSE memory[i]]

(* lower_memcpy.c: words are copied one by one, the first before the count is looked at.    *)
(* Source and destination do not overlap.                                                   *)
num_in_words(num_in_bytes) == larger(1, bytes_to_words(num_in_bytes))

copy_bytes(memory, dst, src, num_in_bytes) ==
    LET copied(i) == i - bytes_to_words(dst)
    IN  [i \in DOMAIN memory |->
            IF copied(i) \in 0..(num_in_words(num_in_bytes) - 1)
            THEN LoadWord(memory, bytes_to_words(src) + copied(i)) ELSE memory[i]]

(* The source is an integer of one word.                                                    *)
fill_bytes(memory, dst, src_type, src, num_in_bytes) ==
    [i \in DOMAIN memory |->
        IF \E n \in 0..(num_in_words(num_in_bytes) - 1) :
                i = bytes_to_words(lower_ptr_offset(src_type, dst, n))
        THEN src[1] ELSE memory[i]]

-----------------------------------------------------------------------------
(* Generic pointers (lower_generic_ptrs.c): a pointer into any address space as an integer  *)
(* whose top bits name the address space and whose other bits are the low bits of the       *)
(* pointer.  Global pointers are canonical: their top bits all equal the highest of the     *)
(* bits that are kept.                                                                      *)

CONSTANT SignBit   \* the highest of the bits that are kept: 2^60 in the code

ASSUME SignBitAssumption == SignBit \in Nat \ {0}

(* The tag has three bits.                                                                  *)
AddressSpan == 2 * SignBit
PtrSpan == 8 * AddressSpan

generic_ptr_tags ==
    [tag \in 0..7 |-> CASE tag \in {0, 7} -> "Global"
                        [] tag = 1 -> "Shared"
                        [] tag = 2 -> "Subgroup"
                        [] tag = 3 -> "Private"
                        [] OTHER -> "Generic"]

get_tag_for_addr_space(as) == Min({tag \in DOMAIN generic_ptr_tags : generic_ptr_tags[tag] = as})

convert_to_generic(as, ptr) == (ptr % AddressSpan) + get_tag_for_addr_space(as) * AddressSpan

(* Dropping the tag and extending the sign: all ones above are (2^8 - 1) shifted, of which  *)
(* the high bits overflow.                                                                  *)
recover_full_pointer_NoSign(nptr) == nptr % AddressSpan

recover_full_pointer(nptr) ==
    LET first_non_tag_bit == (nptr \div SignBit) % 2
        sign_extension_patch == (255 * AddressSpan) % PtrSpan
    IN  (nptr % AddressSpan) + (IF first_non_tag_bit = 1 THEN sign_extension_patch ELSE 0)

(* The address space whose case the switch of an access function takes.                     *)
accessed_addr_space(nptr) == generic_ptr_tags[nptr \div AddressSpan]
=============================================================================
