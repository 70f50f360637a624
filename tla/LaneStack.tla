----------------------------- MODULE LaneStack ------------------------------
(* What one lane keeps in memory while lowered functions call each other: the stack         *)
(* protocol of setup_stack_frames.c, lower_callf.c, lift_indirect_targets.c and             *)
(* lower_tailcalls.c, the stack of lower_stack.c and lower_alloca.c, and the private memory *)
(* of lower_physical_ptrs.c in which the stack lies.  The lane's program is arbitrary; the  *)
(* code of the passes around what it does is not.  Where control goes when lanes diverge is *)
(* the matter of SubgroupScheduler: the stack belongs to one lane.                          *)
(*                                                                                          *)
(* A value of the running function carries what it is, as loaded from memory, and what the  *)
(* source program means it to be.                                                           *)
EXTENDS MemoryLayout, SequencesExt

CONSTANTS
    StackBytes,      \* config->per_thread_stack_size
    DataTypes,       \* types of the values the program computes
    FrameTypes,      \* the allocas of a function: sequences of types
    AllocaAnywhere,  \* whether functions entered with something on the stack have allocas
    EntryTypes,      \* the parameters of the entry point: sequences of types
    YieldTypes,      \* what joins yield: sequences of types
    MaxWork,         \* bound on the program's controls, calls, computations and stores
    MaxValues        \* bound on the values a function computes

VARIABLES
    memory_private,  \* the words of the emulated private memory
    memory_global,   \* some words of global memory, by address
    stack_ptr,       \* the logical variable of lower_stack.c, in bytes
    values,          \* the values held by the running function
    conts,           \* the lifted tails made so far, with what they spilled and expect
    next,            \* what the dispatcher enters next, or Running
    holds,           \* what the source program last stored into each variable
    steps

vars == <<memory_private, memory_global, stack_ptr, values, conts, next, holds, steps>>

U8 == Int_TAG(1)
U32 == Int_TAG(4)
U64 == Int_TAG(8)
Ptr == Int_TAG(PtrBytes)

(* scheduler.slim, with masks of 64 bits.                                                   *)
TreeNode == RecordType(<<U64, U32>>)
JoinPoint == RecordType(<<TreeNode, U32, U32>>)

(* The private variables become one record; the stack is declared first.                    *)
Globals == RecordType(<<ArrType(U8, StackBytes), U32, U64>>)
stack == offset_of(Globals, 1)

(* A variable a pointer can point to.  Variables 1 and 2 are private, 3 and 4 in global     *)
(* memory below and above the sign; the others are slots of the stack.                      *)
Place(id, as, address, t) == [id |-> id, as |-> as, address |-> address, type |-> t]
LowGlobal == SignBit - WordBytes
HighGlobal == PtrSpan - WordBytes
StaticPlaces ==
    { Place(1, "Private", offset_of(Globals, 2), U32), Place(2, "Private", offset_of(Globals, 3), U64),
      Place(3, "Global", LowGlobal, U32), Place(4, "Global", HighGlobal, U32) }

NoPlace == Place(0, "Private", 0, U32)

Value(t, role, is, to) == [type |-> t, role |-> role, is |-> is, meant |-> is, to |-> to]

(* Words that differ from those of another value.                                           *)
Fresh(t, n) == [path \in DOMAIN words_of(t) |-> n + 100 * (1 + bytes_to_words(words_of(t)[path]))]

Filled(t, word) == [path \in DOMAIN words_of(t) |-> word]

(* What lies in memory is made of whole words.  The types of variables have some, and the   *)
(* private memory ends below the addresses whose highest bit is set.                        *)
WholeTypes == { t \in ProgramTypes : size_of(t) % WordBytes = 0 }

ASSUME LaneStackAssumption ==
    /\ StackBytes \in Nat /\ StackBytes % WordBytes = 0
    /\ {U8, U32, U64, TreeNode, JoinPoint, ArrType(U8, StackBytes), Globals} \subseteq ProgramTypes
    /\ DataTypes \subseteq WholeTypes
    /\ EntryTypes \cup YieldTypes \subseteq Seq(WholeTypes)
    /\ \A frame \in FrameTypes :
        /\ frame \in Seq({ t \in WholeTypes : size_of(t) > 0 })
        /\ RecordType(frame) \in WholeTypes
    /\ size_of(Globals) < SignBit

Running == [kind |-> "running"]

-----------------------------------------------------------------------------
(* lower_stack.c.  A lane here is its memory, its stack pointer and the values it popped.   *)
Lane(memory, sp) == [memory |-> memory, sp |-> sp, popped |-> <<>>]

stack_element(sp) == lower_ptr_index(ArrType(U8, StackBytes), stack, sp + 1)

push(lane, v) ==
    [lane EXCEPT !.memory = gen_serialisation(v.type, @, stack_element(lane.sp), v.is),
                 !.sp = @ + size_of(v.type)]

pop(lane, v) ==
    LET sp == lane.sp - size_of(v.type)
    IN  [lane EXCEPT !.sp = sp,
            !.popped = Append(@, [v EXCEPT !.is =
                            gen_deserialisation(v.type, lane.memory, stack_element(sp))])]

get_stack_base_addr(lane) == stack_element(lane.sp)

(* ir/stack.c: the last value first, so that the first is popped first.                     *)
push_values(lane, vs) ==
    LET pushed[n \in 0..Len(vs)] ==
            IF n = 0 THEN lane ELSE push(pushed[n - 1], vs[Len(vs) + 1 - n])
    IN  pushed[Len(vs)]
pop_values(lane, vs) ==
    LET rest[n \in 0..Len(vs)] == IF n = 0 THEN lane ELSE pop(rest[n - 1], vs[n])
    IN  rest[Len(vs)]

(* Nothing checks that the stack is large enough.                                           *)
Room(lane) == lane.sp <= StackBytes

(* lower_alloca.c: the slots of a function that is entered, all in its first block.  Each   *)
(* StackAlloc sets the size of the stack to that of the whole frame.                        *)
frame_size(frame) == size_of(RecordType(frame))
alloca(entered, frame) ==
    [i \in DOMAIN frame |->
        LET address == lower_ptr_offset(U8, get_stack_base_addr(entered),
                                        entered.sp + offset_of(RecordType(frame), i))
        IN  Value(Ptr, "slot", <<address, 0>>,
                  Place(4 + 10 * Len(conts) + i, "Private", address, frame[i]))]

WithFrame(entered, lane, frame) ==
    IF frame = <<>> THEN lane ELSE [lane EXCEPT !.sp = entered.sp + frame_size(frame)]

Frames(entered) == IF AllocaAnywhere \/ entered.sp = 0 THEN FrameTypes \cup {<<>>} ELSE {<<>>}

(* setup_stack_frames.c: the stack pointer a function saves when it is entered.             *)
saved_stack_ptr(lane) == Value(U32, "saved", <<lane.sp>>, NoPlace)

(* builtin_entry_join_point and builtin_create_control_point: a tree node, the function to  *)
(* enter and the payload, the stack pointer.                                                *)
destination_path == <<2, 1>>
payload_path == <<3, 1>>
join_point(role, destination, sp) ==
    Value(JoinPoint, role,
          [Fresh(JoinPoint, Len(conts)) EXCEPT ![destination_path] = destination, ![payload_path] = sp],
          NoPlace)

-----------------------------------------------------------------------------
(* generated_init stores the initial values and zeroes the stack pointer; lift_entry_point  *)
(* pushes the arguments.                                                                    *)
Init ==
    /\ \E params \in EntryTypes :
        LET args == [i \in DOMAIN params |-> Value(params[i], "data", Fresh(params[i], 90), NoPlace)]
            words == [w \in 0..(bytes_to_words(size_of(Globals)) - 1) |-> 0]
            lane == push_values(
                        Lane(gen_serialisation(U32, words, offset_of(Globals, 2), Fresh(U32, 91)), 0),
                        args)
        IN  /\ Room(lane)
            /\ memory_private = lane.memory
            /\ stack_ptr = lane.sp
            /\ next = [kind |-> "entry", args |-> args]
    /\ memory_global = [a \in {LowGlobal, HighGlobal} |-> 0]
    /\ holds = [id \in {1} |-> Fresh(U32, 91)]
    /\ values = <<>>
    /\ conts = <<>>
    /\ steps = 0

MoreWork == Len(conts) + steps < MaxWork
Step == MoreWork /\ steps' = steps + 1

SetLane(lane) == memory_private' = lane.memory /\ stack_ptr' = lane.sp

(* New slots hold nothing yet.                                                              *)
HoldNothing(slots) ==
    holds' = [id \in DOMAIN holds \ { v.to.id : v \in ToSet(slots) } |-> holds[id]]

(* A lowered function pops its parameters; the entry point asks for its join point.  The    *)
(* stack pointer is saved after that, the frame is laid out from what it was before.        *)
EnterFunction ==
    /\ next.kind \in {"entry", "function"}
    /\ LET entered == Lane(memory_private, stack_ptr)
           lane == pop_values(entered, next.args)
           return_jp == IF next.kind = "entry" THEN <<join_point("return", 0, 0)>> ELSE <<>>
       IN  \E frame \in Frames(entered) :
            /\ Room(WithFrame(entered, lane, frame))
            /\ SetLane(WithFrame(entered, lane, frame))
            /\ values' = lane.popped \o return_jp \o <<saved_stack_ptr(lane)>> \o alloca(entered, frame)
            /\ HoldNothing(alloca(entered, frame))
    /\ next' = Running
    /\ UNCHANGED <<steps, memory_global, conts>>

(* A lifted tail pops the payload and what it was given, sets the stack size to the payload *)
(* and pops what was spilled, the last first.                                               *)
lambda_lift_InOrder(lane, sp, spilled) ==
    pop_values([lane EXCEPT !.sp = sp, !.popped = <<>>], spilled)

lambda_lift(lane, sp, spilled) ==
    LET recovered == pop_values([lane EXCEPT !.sp = sp, !.popped = <<>>], Reverse(spilled))
    IN  [recovered EXCEPT !.popped = Reverse(@)]

EnterContinuation ==
    /\ next.kind = "continuation"
    /\ LET entered == Lane(memory_private, stack_ptr)
           popped == pop_values(entered, <<next.payload>> \o next.args)
           lane == lambda_lift(popped, Head(popped.popped).is[1], conts[next.destination].spilled)
       IN  \E frame \in Frames(entered) :
            /\ Room(WithFrame(entered, lane, frame))
            /\ SetLane(WithFrame(entered, lane, frame))
            /\ values' = lane.popped \o Tail(popped.popped) \o alloca(entered, frame)
            /\ HoldNothing(alloca(entered, frame))
    /\ next' = Running
    /\ UNCHANGED <<steps, memory_global, conts>>

-----------------------------------------------------------------------------
(* The free frontier of a lifted tail comes out of a hash set, in whatever order: here all  *)
(* that the function holds, in order or reversed, or all but one value.                     *)
Frontiers ==
    {values, Reverse(values)} \cup
    { RemoveAt(values, i) : i \in { j \in DOMAIN values : values[j].role \in {"data", "slot"} } }

add_spill_instrs(lane, spilled) == push_values(lane, Reverse(spilled))

(* lift_indirect_targets.c: the frontier of the control's tail is spilled, and the stack    *)
(* size is the payload of the join point.                                                   *)
Lift_SizeBeforeSpills(lane, role, spilled, yields) ==
    [lane |-> add_spill_instrs(lane, spilled),
     jp |-> join_point(role, Len(conts) + 1, lane.sp),
     cont |-> [spilled |-> spilled, yields |-> yields]]

Lift(lane, role, spilled, yields) ==
    LET lane2 == add_spill_instrs(lane, spilled)
    IN  [lane |-> lane2,
         jp |-> join_point(role, Len(conts) + 1, lane2.sp),
         cont |-> [spilled |-> spilled, yields |-> yields]]

Control ==
    /\ next = Running
    /\ MoreWork
    /\ \E spilled \in Frontiers, yields \in YieldTypes :
        LET lifted == Lift(Lane(memory_private, stack_ptr), "jp", spilled, yields)
        IN  /\ Room(lifted.lane)
            /\ SetLane(lifted.lane)
            /\ values' = Append(values, lifted.jp)
            /\ conts' = Append(conts, lifted.cont)
    /\ UNCHANGED <<steps, memory_global, next, holds>>

Passed == { v \in ToSet(values) : v.role \in {"data", "slot"} }
Data(types) == { vs \in UNION { [1..n -> Passed] : n \in {Len(types)} } :
                    \A i \in DOMAIN types : vs[i].role = "data" /\ vs[i].type = types[i] }

(* lower_callf.c: a call is a control whose body is a tail call with the join point as the  *)
(* last argument; lower_tailcalls.c pushes the arguments and forks.                         *)
Call ==
    /\ next = Running
    /\ MoreWork
    /\ \E spilled \in Frontiers, yields \in YieldTypes,
          args \in { <<>> } \cup { <<v>> : v \in Passed } :
        LET lifted == Lift(Lane(memory_private, stack_ptr), "return", spilled, yields)
            nargs == Append(args, lifted.jp)
            lane == push_values(lifted.lane, nargs)
        IN  /\ Room(lane)
            /\ SetLane(lane)
            /\ conts' = Append(conts, lifted.cont)
            /\ next' = [kind |-> "function", args |-> nargs]
    /\ values' = <<>>
    /\ UNCHANGED <<steps, memory_global, holds>>

(* lower_tailcalls.c: a join pushes what it yields, then the payload.                       *)
JoinTo(lane, jp, args) ==
    LET payload == Value(U32, "data", <<jp.is[payload_path]>>, NoPlace)
        lane2 == push(push_values(lane, args), payload)
        destination == jp.meant[destination_path]
    IN  /\ Room(lane2)
        /\ SetLane(lane2)
        /\ next' = IF destination = 0 THEN [kind |-> "exit"]
                   ELSE [kind |-> "continuation", destination |-> destination,
                         payload |-> payload, args |-> args]

yield_types(jp) ==
    LET destination == jp.meant[destination_path]
    IN  IF destination = 0 THEN <<>> ELSE conts[destination].yields

Join ==
    /\ next = Running
    /\ \E i \in DOMAIN values :
        /\ values[i].role = "jp"
        /\ \E args \in Data(yield_types(values[i])) :
            JoinTo(Lane(memory_private, stack_ptr), values[i], args)
    /\ values' = <<>>
    /\ UNCHANGED <<steps, memory_global, conts, holds>>

(* A return first sets the stack size back to what it was on entry, then joins.             *)
Return ==
    /\ next = Running
    /\ \E i, j \in DOMAIN values :
        /\ values[i].role = "return"
        /\ values[j].role = "saved"
        /\ \E args \in Data(yield_types(values[i])) :
            JoinTo(Lane(memory_private, values[j].is[1]), values[i], args)
    /\ values' = <<>>
    /\ UNCHANGED <<steps, memory_global, conts, holds>>

-----------------------------------------------------------------------------
Compute ==
    /\ next = Running
    /\ Step
    /\ Len(values) < MaxValues
    /\ \E t \in DataTypes : values' = Append(values, Value(t, "data", Fresh(t, steps), NoPlace))
    /\ UNCHANGED <<memory_private, memory_global, stack_ptr, conts, next, holds>>

(* The variables the function has pointers to, where its pointers say they are.             *)
Places ==
    StaticPlaces \cup
    { [v.to EXCEPT !.address = v.is[1]] : v \in { w \in ToSet(values) : w.role = "slot" } }

LoadFrom(as, address, t) ==
    IF as = "Private" THEN gen_deserialisation(t, memory_private, address)
    ELSE IF address \in DOMAIN memory_global THEN <<memory_global[address]>> ELSE <<Garbage>>

StoreTo(as, address, t, value) ==
    /\ memory_private' = IF as = "Private" THEN gen_serialisation(t, memory_private, address, value)
                         ELSE memory_private
    /\ memory_global' = [a \in DOMAIN memory_global |->
                            IF as = "Global" /\ a = address THEN value[1] ELSE memory_global[a]]

Hold(id, value) == holds' = [i \in DOMAIN holds \cup {id} |-> IF i = id THEN value ELSE holds[i]]

(* A store through a pointer, or through the generic pointer it converts to.                *)
Store ==
    /\ next = Running
    /\ Step
    /\ \E p \in Places : LET value == Fresh(p.type, steps) IN
        /\ Hold(p.id, value)
        /\ \/ StoreTo(p.as, p.address, p.type, value)
           \/ LET nptr == convert_to_generic(p.as, p.address)
              IN  StoreTo(accessed_addr_space(nptr), recover_full_pointer(nptr), p.type, value)
    /\ UNCHANGED <<stack_ptr, values, conts, next>>

(* A store to one member, whose address lower_lea.c computes.                               *)
StoreMember ==
    /\ next = Running
    /\ Step
    /\ \E p \in { q \in Places : q.type.tag \in {"Record", "Arr"} /\ q.id \in DOMAIN holds } :
        \E i \in Members(p.type) :
            LET value == Fresh(MemberType(p.type, i), steps) IN
            /\ StoreTo(p.as, lower_ptr_index(p.type, p.address, i), MemberType(p.type, i), value)
            /\ Hold(p.id, [path \in DOMAIN holds[p.id] |->
                            IF path[1] = i THEN value[path[2]] ELSE holds[p.id][path]])
    /\ UNCHANGED <<stack_ptr, values, conts, next>>

(* A copy of a whole variable to one of the same type.                                      *)
CopyBytes ==
    /\ next = Running
    /\ Step
    /\ \E src, dst \in { p \in Places : p.as = "Private" } :
        /\ src.id # dst.id /\ src.type = dst.type /\ src.id \in DOMAIN holds
        /\ memory_private' = copy_bytes(memory_private, dst.address, src.address, size_of(src.type))
        /\ Hold(dst.id, holds[src.id])
    /\ UNCHANGED <<memory_global, stack_ptr, values, conts, next>>

(* All words of a variable are set.                                                         *)
FillBytes ==
    /\ next = Running
    /\ Step
    /\ \E dst \in { p \in Places : p.as = "Private" } :
        /\ memory_private' = fill_bytes(memory_private, dst.address, U32, <<500 + steps>>, size_of(dst.type))
        /\ Hold(dst.id, Filled(dst.type, 500 + steps))
    /\ UNCHANGED <<memory_global, stack_ptr, values, conts, next>>

Next ==
    \/ EnterFunction \/ EnterContinuation
    \/ Control \/ Call \/ Join \/ Return
    \/ Compute \/ Store \/ StoreMember \/ CopyBytes \/ FillBytes

Spec == Init /\ [][Next]_vars

-----------------------------------------------------------------------------
(* What a function popped is what was pushed for it: arguments, yielded values, join        *)
(* points, saved stack pointers and spilled values come back in the same order, whatever    *)
(* was called or joined in between.                                                         *)
ValuesSurvive == \A i \in DOMAIN values : values[i].is = values[i].meant

(* A variable the running function can reach holds what was last stored into it: pushes,    *)
(* slots and variables do not overlap, and a pointer leads to the same place through its    *)
(* generic form, its members and copies.                                                    *)
MemoryHolds ==
    \A p \in Places : p.id \in DOMAIN holds => LoadFrom(p.as, p.address, p.type) = holds[p.id]

(* The stack pointer a function restores when it returns is the one its caller's tail goes  *)
(* on with: setup_stack_frames.c and lift_indirect_targets.c agree, although the one counts *)
(* from the callee's entry and the other from the caller's spills.                          *)
ReturnRestoresCaller ==
    \A i, j \in DOMAIN values :
        values[i].role = "return" /\ values[j].role = "saved" => values[j].is[1] = values[i].is[payload_path]
=============================================================================
