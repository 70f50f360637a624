----------------------------- MODULE VkRuntime -----------------------------
(***************************************************************************)
(* The Vulkan runtime: one application thread, one device, one program.    *)
(* A command is recorded, submitted with a fence, executed by the device   *)
(* at its own pace, waited for with a timeout and destroyed.  A launch     *)
(* first specialises the program, whose constants live in buffers: a block *)
(* of pointers and the data they point to, both filled by copy commands.   *)
(*                                                                         *)
(* Any Vulkan call the code checks may fail.  Where the code goes on with  *)
(* a null pointer, or asserts, the process crashes.                        *)
(*                                                                         *)
(* The application is well behaved: it destroys its buffer and shuts the   *)
(* runtime down only when it has waited for all it launched.               *)
(***************************************************************************)
EXTENDS Naturals, FiniteSets, Sequences

CONSTANTS
  Cmd,           \* commands that exist at a time, at most
  Value,         \* what the application writes into its buffer
  MaxCalls,      \* calls of the application, at most
  MaxFailures,   \* Vulkan calls that fail, at most
  MaxTimeouts    \* waits that time out, at most

Kinds == {"cmd_buf", "fence", "query_pool", "staging"}
app == <<"app", "buffer">>
pipeline == <<"program", "pipeline">>   \* with its module, layouts and sets
block == <<"program", "block">>
data == <<"program", "data">>
Handle == (Cmd \X Kinds) \cup {app, pipeline, block, data}

(* The constants as extract_resources_layout lists them: a block, then the *)
(* data its one pointer points to.                                         *)
resources == <<block, data>>

VARIABLES
  importing,   \* the device can import host memory
  job,         \* what each command does
  submitted,   \* the field of VkrCommand
  pending,     \* submitted, and not finished by the device
  signalled,   \* commands whose fence is signalled
  held,        \* launches the application has yet to wait for
  abandoned,   \* copies given up when the wait for them failed
  created, freed,    \* how often each handle was made and destroyed
  content,     \* what is in each buffer
  lost,        \* buffers a copy was to fill when it failed
  expects, readback, \* what the application's buffer should hold, and held
  call,        \* where the application's call is
  copy,        \* where the copy that call makes is
  budget,      \* calls, failures and timeouts left
  state        \* "up", "down" after the shutdown, or "crashed"

commands == <<job, submitted, pending, signalled, held, abandoned>>
handles == <<created, freed>>
memory == <<content, lost, expects, readback>>
vars == <<importing, commands, handles, memory, call, copy, budget, state>>

NoJob == [kind |-> "none", src |-> app, dst |-> app]
Launching == [kind |-> "launch", src |-> block, dst |-> app]
Copying(from, to) == [kind |-> "copy", src |-> from, dst |-> to]
At(where) == [at |-> where, cmd |-> "none", n |-> 1]
Idle == At("idle")
Returned(ok) == [at |-> "idle", cmd |-> "none", ok |-> ok]

Init ==
  /\ importing \in BOOLEAN
  /\ job = [c \in Cmd |-> NoJob] /\ submitted = [c \in Cmd |-> FALSE]
  /\ pending = {} /\ signalled = {} /\ held = {} /\ abandoned = {}
  /\ created = [h \in Handle |-> 0] /\ freed = [h \in Handle |-> 0]
  /\ content = [h \in Handle |-> "garbage"] /\ lost = {}
  /\ expects = "unknown" /\ readback = "unknown"
  /\ call = Idle /\ copy = Returned(TRUE) /\ state = "up"
  /\ budget = [calls |-> MaxCalls, failures |-> MaxFailures, timeouts |-> MaxTimeouts]

-----------------------------------------------------------------------------
Spend(what) == budget[what] > 0 /\ budget' = [budget EXCEPT ![what] = @ - 1]
Fails == Spend("failures")
Succeeds == UNCHANGED budget
Crash == state' = "crashed"
Up == state = "up" /\ UNCHANGED importing
Running(where) == Up /\ call.at = where /\ copy.at = "idle"

Live(h) == created[h] > freed[h]
More(count, H) == [h \in Handle |-> IF h \in H THEN count[h] + 1 ELSE count[h]]
Create(H) == created' = More(created, H) /\ UNCHANGED freed
Free(H) == freed' = More(freed, H) /\ UNCHANGED created
Of(c) == {c} \X Kinds
Unused(c) == job[c] = NoJob

(* A slot taken for a new command, whose handles are H so far.             *)
Take(c, what, H) ==
  /\ Unused(c)
  /\ job' = [job EXCEPT ![c] = what]
  /\ created' = [h \in Handle |-> IF h \in H THEN 1 ELSE IF h \in Of(c) THEN 0 ELSE created[h]]
  /\ freed' = [h \in Handle |-> IF h \in Of(c) THEN 0 ELSE freed[h]]

(* VkrCommand comes from calloc.                                           *)
Cleared_Malloc(c) == submitted
Cleared(c) == [submitted EXCEPT ![c] = FALSE]

(* shd_rt_vk_destroy_command: the fence of a submitted command only, for a *)
(* submission that failed has released it.                                 *)
CommandHandles_NoPool(c) ==
  {<<c, "cmd_buf">>} \cup {h \in {<<c, "fence">>} : submitted[c]}
CommandHandles(c) ==
  {<<c, "cmd_buf">>} \cup {h \in {<<c, "fence">>} : submitted[c]}
    \cup {h \in {<<c, "query_pool">>} : Live(h)}

(* shd_rt_vk_submit_command when it succeeds.                              *)
Submit(c) ==
  /\ Succeeds
  /\ Create({<<c, "fence">>})
  /\ submitted' = [submitted EXCEPT ![c] = TRUE]
  /\ pending' = pending \cup {c} /\ signalled' = signalled \ {c}

(* What vkWaitForFences returns success on.                                *)
FenceSignalled_NotWaited(c) == TRUE
FenceSignalled(c) == c \in signalled

(* The device executes submitted commands, and with no barrier between     *)
(* them finishes them in any order.  A kernel writes the application's     *)
(* buffer.  What was in a buffer that has been destroyed is garbage.       *)
Effect(c) ==
  IF job[c].kind = "launch" THEN "kernel"
  ELSE IF Live(job[c].src) THEN content[job[c].src] ELSE "garbage"

Finish(c) ==
  /\ Up /\ c \in pending
  /\ pending' = pending \ {c} /\ signalled' = signalled \cup {c}
  /\ content' = IF Live(job[c].dst) THEN [content EXCEPT ![job[c].dst] = Effect(c)] ELSE content
  /\ UNCHANGED <<job, submitted, held, abandoned, handles, lost, expects, readback, call, copy,
                 budget, state>>

-----------------------------------------------------------------------------
(* A copy: the staging buffer is made and mapped, or the host's memory     *)
(* imported as one, and v is in it; when that fails there is no command    *)
(* yet.  A buffer that cannot be mapped is destroyed (only without         *)
(* importing is one mapped).                                               *)
CannotMap_Kept(c) ==
  ~importing /\ created' = More(created, {<<c, "staging">>}) /\ UNCHANGED freed
CannotMap(c) ==
  /\ ~importing
  /\ created' = More(created, {<<c, "staging">>}) /\ freed' = More(freed, {<<c, "staging">>})

CopyStarts(c, from, to, v) ==
  /\ copy.at = "idle"
  /\ \/ /\ Succeeds
        /\ Take(c, Copying(from, to), {<<c, "staging">>})
        /\ submitted' = Cleared(c)
        /\ content' = [content EXCEPT ![<<c, "staging">>] = v]
        /\ copy' = [at |-> "begin", cmd |-> c, ok |-> FALSE]
     \/ /\ Fails /\ Unused(c)
        /\ UNCHANGED handles \/ CannotMap(c)
        /\ copy' = Returned(FALSE)
        /\ UNCHANGED <<job, submitted, content>>
  /\ UNCHANGED <<pending, signalled, held, abandoned>>

CopyTo(c, b, v) == CopyStarts(c, <<c, "staging">>, b, v)
CopyFrom(c, b) == CopyStarts(c, b, <<c, "staging">>, "garbage")

(* submit_buffer_copy: when the command cannot be begun or submitted it is *)
(* NULL, and shd_rt_wait_completion goes through it.                       *)
CopyBegin ==
  /\ Up /\ copy.at = "begin"
  /\ \/ /\ Succeeds
        /\ copy' = [copy EXCEPT !.at = "submit"]
        /\ Create({<<copy.cmd, "cmd_buf">>})
        /\ UNCHANGED state
     \/ Fails /\ Crash /\ UNCHANGED <<copy, handles>>
  /\ UNCHANGED <<commands, memory, call>>

CopySubmit ==
  /\ Up /\ copy.at = "submit"
  /\ \/ Submit(copy.cmd) /\ copy' = [copy EXCEPT !.at = "wait"] /\ UNCHANGED state
     \/ Fails /\ Crash /\ UNCHANGED <<copy, handles, submitted, pending, signalled>>
  /\ UNCHANGED <<job, held, abandoned, memory, call>>

(* The command is destroyed, what it brought is read, the staging buffer   *)
(* is destroyed.                                                           *)
CopyDone ==
  /\ Up /\ copy.at = "wait" /\ FenceSignalled(copy.cmd)
  /\ Free(CommandHandles(copy.cmd) \cup {<<copy.cmd, "staging">>})
  /\ job' = [job EXCEPT ![copy.cmd] = NoJob]
  /\ copy' = Returned(TRUE)
  /\ readback' = IF job[copy.cmd].src = app THEN content[job[copy.cmd].dst] ELSE readback
  /\ content' = [content EXCEPT ![<<copy.cmd, "staging">>] = "garbage"]
  /\ signalled' = signalled \ {copy.cmd}
  /\ UNCHANGED <<submitted, pending, held, abandoned, lost, expects, call, budget, state>>

(* The wait fails: the staging buffer goes, the command stays.             *)
CopyTimesOut ==
  /\ Up /\ copy.at = "wait" /\ copy.cmd \notin signalled
  /\ Spend("timeouts")
  /\ Free({<<copy.cmd, "staging">>})
  /\ abandoned' = abandoned \cup {copy.cmd}
  /\ copy' = Returned(FALSE)
  /\ UNCHANGED <<job, submitted, pending, signalled, held, memory, call, state>>

-----------------------------------------------------------------------------
(* A launch specialises the program unless the device has it already.      *)
(* When that fails, get_specialized_program asserts.                       *)
Specialise ==
  /\ Running("specialise")
  /\ \/ Succeeds /\ Create({pipeline}) /\ call' = At("allocate") /\ UNCHANGED state
     \/ Fails /\ Crash /\ UNCHANGED <<handles, call>>
  /\ UNCHANGED <<commands, memory, copy>>

(* prepare_resources, one resource after the other.  A buffer that could   *)
(* not be made is NULL, and shd_rt_copy_to_buffer goes through it.         *)
Allocate ==
  /\ Running("allocate")
  /\ \/ Succeeds /\ Create({resources[call.n]}) /\ call' = [call EXCEPT !.at = "fill"] /\ UNCHANGED state
     \/ Fails /\ Crash /\ UNCHANGED <<handles, call>>
  /\ UNCHANGED <<commands, memory, copy>>

(* The default value, or zeroes.                                           *)
InitialValue(b) == IF b = block THEN "zero" ELSE "default"

Fill(c) ==
  /\ Running("fill")
  /\ CopyTo(c, resources[call.n], InitialValue(resources[call.n]))
  /\ call' = [call EXCEPT !.at = "filled"]
  /\ UNCHANGED <<lost, expects, readback, state>>

(* The pointer to the data goes to the block's memory when the host has    *)
(* it, and otherwise to the block's staging copy, which is never read.     *)
Stored_Staging == content
Stored == IF importing THEN [content EXCEPT ![block] = "pointers"] ELSE content

(* What a copy to b returned is not looked at.                             *)
Missed(b) == lost' = IF copy.ok THEN lost ELSE lost \cup {b}

Filled ==
  /\ Running("filled")
  /\ Missed(resources[call.n])
  /\ content' = IF resources[call.n] = data THEN Stored ELSE content
  /\ call' = IF call.n < Len(resources) THEN [call EXCEPT !.at = "allocate", !.n = @ + 1]
             ELSE At(IF importing THEN "begin" ELSE "flush")
  /\ UNCHANGED <<commands, handles, expects, readback, copy, budget, state>>

(* flush_staged_data: the source passed is the VkrBuffer, not the staging  *)
(* copy.                                                                   *)
Flush(c) ==
  /\ Running("flush")
  /\ CopyTo(c, block, "VkrBuffer")
  /\ call' = At("flushed")
  /\ UNCHANGED <<lost, expects, readback, state>>

Flushed ==
  /\ Running("flushed")
  /\ Missed(block)
  /\ call' = At("begin")
  /\ UNCHANGED <<commands, handles, content, expects, readback, copy, budget, state>>

-----------------------------------------------------------------------------
(* The launch proper: shd_rt_vk_begin_command.                             *)
LaunchBegin(c) ==
  /\ Running("begin")
  /\ \/ /\ Succeeds
        /\ Take(c, Launching, {<<c, "cmd_buf">>})
        /\ submitted' = Cleared(c)
        /\ call' = [at |-> "record", cmd |-> c, n |-> 1]
     \/ /\ Fails /\ Unused(c)
        /\ call' = Idle
        /\ UNCHANGED <<job, submitted, handles>>
  /\ UNCHANGED <<pending, signalled, held, abandoned, memory, copy, state>>

(* A profiled launch makes a query pool and resets it, even when it could  *)
(* not be made.                                                            *)
Record ==
  /\ Running("record")
  /\ \/ Succeeds /\ UNCHANGED <<handles, state>>
     \/ Succeeds /\ Create({<<call.cmd, "query_pool">>}) /\ UNCHANGED state
     \/ Fails /\ (Crash \/ UNCHANGED state) /\ UNCHANGED handles
  /\ call' = [call EXCEPT !.at = "submit"]
  /\ UNCHANGED <<commands, memory, copy>>

(* The fence could not be made, or it was and the queue refused: then it   *)
(* is destroyed on the spot.                                               *)
SubmitFails(c) ==
  /\ Fails
  /\ \/ Free(CommandHandles(c))
     \/ created' = More(created, {<<c, "fence">>})
        /\ freed' = More(freed, CommandHandles(c) \cup {<<c, "fence">>})
  /\ UNCHANGED <<submitted, pending, signalled>>

LaunchSubmit ==
  /\ Running("submit")
  /\ \/ /\ Submit(call.cmd)
        /\ held' = held \cup {call.cmd}
        /\ expects' = IF held = {} \/ expects = "kernel" THEN "kernel" ELSE "unknown"
        /\ UNCHANGED job
     \/ /\ SubmitFails(call.cmd)
        /\ job' = [job EXCEPT ![call.cmd] = NoJob]
        /\ UNCHANGED <<held, expects>>
  /\ call' = Idle
  /\ UNCHANGED <<abandoned, content, lost, readback, copy, state>>

-----------------------------------------------------------------------------
(* The application's calls.  There is room for the command of the call and *)
(* for those that may yet be abandoned.  A buffer that cannot be allocated *)
(* is NULL and changes nothing.                                            *)
Calls == Running("idle") /\ Spend("calls")
Room == Cardinality({c \in Cmd : Unused(c)}) > budget.timeouts

AllocateBuffer ==
  /\ Calls /\ created[app] = 0
  /\ Create({app})
  /\ UNCHANGED <<commands, memory, call, copy, state>>

LaunchKernel ==
  /\ Calls /\ Live(app) /\ Room
  /\ call' = At(IF Live(pipeline) THEN "begin" ELSE "specialise")
  /\ UNCHANGED <<commands, handles, memory, copy, state>>

(* shd_rt_wait_completion on a launch.  When it gives up instead, nothing  *)
(* changes: the application still has the command, and may wait again.     *)
WaitCompletion(c) ==
  /\ Running("idle") /\ c \in held /\ FenceSignalled(c)
  /\ Free(CommandHandles(c))
  /\ job' = [job EXCEPT ![c] = NoJob]
  /\ held' = held \ {c} /\ signalled' = signalled \ {c}
  /\ UNCHANGED <<submitted, pending, abandoned, memory, call, copy, budget, state>>

(* shd_rt_copy_to_buffer and shd_rt_copy_from_buffer: called, under way,   *)
(* and returning whether they succeeded.                                   *)
CallCopy(which) ==
  /\ Calls /\ Live(app) /\ Room
  /\ call' = At(which)
  /\ UNCHANGED <<commands, handles, memory, copy, state>>

CopyToBuffer(c, v) ==
  /\ Running("copy_to")
  /\ CopyTo(c, app, v)
  /\ expects' = IF held = {} THEN v ELSE "unknown"
  /\ call' = At("copied_to")
  /\ UNCHANGED <<lost, readback, state>>

CopyFromBuffer(c) ==
  /\ Running("copy_from")
  /\ CopyFrom(c, app)
  /\ readback' = "unknown"
  /\ call' = At("copied_from")
  /\ UNCHANGED <<lost, expects, state>>

CopyReturns ==
  /\ Running(call.at) /\ call.at \in {"copied_to", "copied_from"}
  /\ IF call.at = "copied_to" THEN Missed(app) ELSE UNCHANGED lost
  /\ call' = Idle
  /\ UNCHANGED <<commands, handles, content, expects, readback, copy, budget, state>>

DestroyBuffer ==
  /\ Running("idle") /\ Live(app) /\ held = {}
  /\ Free({app})
  /\ UNCHANGED <<commands, memory, call, copy, budget, state>>

(* shd_rt_shutdown: shutdown_vkr_device destroys the specialised program.  *)
ProgramHandles == {h \in {pipeline, block, data} : Live(h)}

Shutdown ==
  /\ Running("idle") /\ held = {} /\ ~Live(app)
  /\ Free(ProgramHandles)
  /\ state' = "down"
  /\ UNCHANGED <<commands, memory, call, copy, budget>>

(* The application makes no more calls.                                    *)
Ends == (state # "up" \/ call = Idle) /\ UNCHANGED vars

Next ==
  \/ \E c \in Cmd :
       \/ Finish(c) \/ Fill(c) \/ Flush(c) \/ LaunchBegin(c) \/ WaitCompletion(c)
       \/ CopyFromBuffer(c) \/ \E v \in Value : CopyToBuffer(c, v)
  \/ CopyBegin \/ CopySubmit \/ CopyDone \/ CopyTimesOut
  \/ Specialise \/ Allocate \/ Filled \/ Flushed \/ Record \/ LaunchSubmit
  \/ AllocateBuffer \/ LaunchKernel \/ CallCopy("copy_to") \/ CallCopy("copy_from") \/ CopyReturns
  \/ DestroyBuffer \/ Shutdown \/ Ends

Spec == Init /\ [][Next]_vars

-----------------------------------------------------------------------------
(* No Vulkan object is destroyed more often than it was made.              *)
ReleasedOnce == \A h \in Handle : freed[h] <= created[h]

(* What the device is executing keeps its command buffer, its fence and    *)
(* the buffers it reads and writes.  (A copy that was given up does not:   *)
(* see the README.)                                                        *)
Uses(c) ==
  {<<c, "cmd_buf">>, <<c, "fence">>} \cup
    (IF job[c].kind = "launch" THEN {pipeline, block, data, app} ELSE {job[c].src, job[c].dst})
NothingReleasedInUse ==
  \A c \in pending \ abandoned : \A h \in Uses(c) : Live(h)

(* A command that is over, successfully or not, leaves no object behind,   *)
(* and neither does the program after the shutdown.                        *)
NothingLeaked ==
  /\ \A c \in Cmd : Unused(c) => \A h \in Of(c) : ~Live(h)
  /\ state = "down" => ~Live(pipeline) /\ ~Live(block) /\ ~Live(data)

(* Whichever call failed (vk_runtime_dispatch.c, vk_runtime_buffer.c), and *)
(* on whichever path what it was for was given up, each object is          *)
(* destroyed exactly once.                                                 *)
ReleasedExactly == ReleasedOnce /\ NothingLeaked

(* A kernel finds in its constants what prepare_resources put there: the   *)
(* data, and on a device that imports host memory the pointers to it,      *)
(* unless a copy that failed was to fill them.                             *)
KernelSeesItsConstants ==
  \A c \in pending : job[c].kind = "launch" =>
    /\ data \in lost \/ content[data] = "default"
    /\ importing => block \in lost \/ content[block] = "pointers"

(* shd_rt_copy_from_buffer brings what the last completed call left in the *)
(* buffer, be it a copy or a kernel, when none is under way.               *)
ReadsBack ==
  call.at = "copied_from" /\ copy.at = "idle" /\ copy.ok /\ held = {} /\ app \notin lost
    => expects \in {"unknown", readback}
=============================================================================
