--------------------------- MODULE VkRuntimeProof ---------------------------
(***************************************************************************)
(* Proofs about VkRuntime, for any number of commands, any values and any  *)
(* number of calls, failures and timeouts.                                 *)
(***************************************************************************)
EXTENDS VkRuntime, TLAPS

(* The objects that exist.                                                 *)
alive == {h \in Handle : Live(h)}

Program == {pipeline, block, data}

CopyPlaces == {"filled", "flushed", "copied_to", "copied_from"}
LaunchPlaces == {"specialise", "allocate", "fill", "filled", "flush", "flushed"}
RecordPlaces == {"record", "submit"}
Places ==
  LaunchPlaces \cup CopyPlaces \cup RecordPlaces \cup {"idle", "begin", "copy_to", "copy_from"}

Job == [kind : {"none", "launch", "copy"}, src : Handle, dst : Handle]

Contents == {"garbage", "zero", "default", "pointers", "VkrBuffer", "kernel"} \cup Value

TypeOK ==
  /\ importing \in BOOLEAN
  /\ job \in [Cmd -> Job] /\ submitted \in [Cmd -> BOOLEAN]
  /\ pending \subseteq Cmd /\ signalled \subseteq Cmd
  /\ held \subseteq Cmd /\ abandoned \subseteq Cmd
  /\ content \in [Handle -> Contents]
  /\ call \in [at : Places, cmd : Cmd \cup {"none"}, n : {1, 2}]
  /\ copy \in [at : {"idle", "begin", "submit", "wait"}, cmd : Cmd \cup {"none"}, ok : BOOLEAN]

(* What exists was made once more than it was destroyed.                   *)
CountsInv ==
  /\ created \in [Handle -> Nat] /\ freed \in [Handle -> Nat]
  /\ \A h \in Handle : created[h] = freed[h] \/ created[h] = freed[h] + 1

-----------------------------------------------------------------------------
(* The buffer the call in progress copies to or from.                      *)
Target ==
  IF call.at \in {"fill", "filled"} THEN resources[call.n]
  ELSE IF call.at \in {"flush", "flushed"} THEN block ELSE app
CopyJob(c) ==
  IF call.at = "copied_from" THEN Copying(app, <<c, "staging">>)
  ELSE Copying(<<c, "staging">>, Target)

(* Each command is in one hand: nobody's, the copy's, the launch's, the    *)
(* application's, or it was given up.  Each hand knows what exists of it.  *)
UnusedInv == \A c \in Cmd : Unused(c) => \A k \in Kinds : <<c, k>> \notin alive
HeldInv ==
  \A c \in held : /\ job[c] = Launching /\ submitted[c]
                  /\ <<c, "cmd_buf">> \in alive /\ <<c, "fence">> \in alive
                  /\ <<c, "staging">> \notin alive
AbandonedInv ==
  \A c \in abandoned : job[c].kind = "copy" /\ <<c, "staging">> \notin alive
CopyInv ==
  copy.at # "idle" =>
    /\ copy.cmd \in Cmd \ abandoned /\ call.at \in CopyPlaces
    /\ job[copy.cmd] = CopyJob(copy.cmd)
    /\ <<copy.cmd, "staging">> \in alive /\ <<copy.cmd, "query_pool">> \notin alive
    /\ <<copy.cmd, "cmd_buf">> \in alive <=> copy.at # "begin"
    /\ <<copy.cmd, "fence">> \in alive <=> copy.at = "wait"
    /\ submitted[copy.cmd] <=> copy.at = "wait"
LaunchInv ==
  call.at \in RecordPlaces =>
    /\ call.cmd \in Cmd \ held /\ job[call.cmd] = Launching
    /\ <<call.cmd, "cmd_buf">> \in alive /\ <<call.cmd, "fence">> \notin alive
    /\ <<call.cmd, "staging">> \notin alive
    /\ call.at = "record" => <<call.cmd, "query_pool">> \notin alive
    /\ ~ submitted[call.cmd]
SubmittedInv ==
  /\ \A c \in pending \cup signalled :
       c \in held \/ c \in abandoned \/ (copy.at = "wait" /\ c = copy.cmd)
  /\ pending \cap signalled = {}

CommandSide ==
  UnusedInv /\ HeldInv /\ AbandonedInv /\ CopyInv /\ LaunchInv /\ SubmittedInv

(* How much of the specialised program exists at which place.              *)
ProgramInv ==
  /\ call.at = "specialise" => alive \cap Program = {}
  /\ call.at = "allocate" => alive \cap Program = IF call.n = 1 THEN {pipeline} ELSE {pipeline, block}
  /\ call.at \in {"fill", "filled"} =>
       alive \cap Program = IF call.n = 1 THEN {pipeline, block} ELSE Program
  /\ call.at \in {"flush", "flushed", "begin"} \cup RecordPlaces => Program \subseteq alive
  /\ call.at \in {"idle", "copy_to", "copy_from", "copied_to", "copied_from"} =>
       alive \cap Program = {} \/ Program \subseteq alive
  /\ held # {} => Program \subseteq alive /\ call.at \notin LaunchPlaces
AppInv == held # {} \/ call.at # "idle" => app \in alive
DownInv == state = "down" => alive \cap Program = {}

ProgramSide == ProgramInv /\ AppInv /\ DownInv

IInv == TypeOK /\ CountsInv /\ CommandSide /\ ProgramSide

-----------------------------------------------------------------------------
(* A copy that was given up may still write, when nobody counts on what    *)
(* its buffer holds, or is about to find that the copy failed.             *)
Failed == copy.at = "idle" /\ ~ copy.ok /\ call.at \in {"filled", "flushed", "copied_to"}
StrayInv ==
  /\ lost \subseteq {app, block, data}
  /\ \A c \in abandoned :
       job[c].dst \in lost \cup {<<c, "staging">>} \/ (Failed /\ job[c].dst = Target)

(* The copy of the initial data: its staging copy, then its target.        *)
FillInv ==
  call.at = "filled" /\ call.n = 2 =>
    /\ copy.at # "idle" =>
         /\ content[<<copy.cmd, "staging">>] = "default"
         /\ copy.cmd \in signalled => data \in lost \/ content[data] = "default"
    /\ copy.at = "idle" /\ copy.ok => data \in lost \/ content[data] = "default"
Ready == call.at \notin LaunchPlaces /\ created[data] # 0
ConstantsInv ==
  /\ Ready \/ call.at \in {"flush", "flushed"} => data \in lost \/ content[data] = "default"
  /\ importing => call.at \notin {"flush", "flushed"}
  /\ importing /\ Ready => block \in lost \/ content[block] = "pointers"

(* The application's buffer.                                               *)
AppKnown == app \notin lost /\ expects # "unknown"
Settled == ~ (call.at = "copied_to" /\ (copy.at # "idle" \/ ~ copy.ok))
BufferInv ==
  /\ held # {} => expects \in {"kernel", "unknown"}
  /\ AppKnown /\ Settled => content[app] = expects \/ (expects = "kernel" /\ held \cap pending # {})
  /\ call.at = "copied_to" /\ copy.at # "idle" /\ AppKnown =>
       /\ held = {} /\ content[<<copy.cmd, "staging">>] = expects
       /\ copy.cmd \in signalled => content[app] = expects
  /\ call.at = "copied_from" /\ copy.at # "idle" /\ AppKnown /\ held = {} /\ copy.cmd \in signalled =>
       content[<<copy.cmd, "staging">>] = expects

DInv == StrayInv /\ FillInv /\ ConstantsInv /\ BufferInv /\ ReadsBack

-----------------------------------------------------------------------------
(* The handles are apart.                                                  *)
LEMMA HandleFacts ==
  /\ app \in Handle /\ pipeline \in Handle /\ block \in Handle /\ data \in Handle
  /\ app # pipeline /\ app # block /\ app # data
  /\ pipeline # block /\ pipeline # data /\ block # data
  /\ \A c \in Cmd : \A k \in Kinds : <<c, k>> \in Handle /\ <<c, k>> \notin Program \cup {app}
  /\ \A c \in Cmd : Of(c) \subseteq Handle /\ Of(c) \cap (Program \cup {app}) = {}
  /\ \A c, d \in Cmd, k \in Kinds : <<c, k>> \in Of(d) => c = d
  /\ \A c, d \in Cmd, k \in Kinds, l \in Kinds : <<c, k>> = <<d, l>> => c = d /\ k = l
  /\ "cmd_buf" \in Kinds /\ "fence" \in Kinds /\ "query_pool" \in Kinds /\ "staging" \in Kinds
<1>1. /\ app \in Handle /\ pipeline \in Handle /\ block \in Handle /\ data \in Handle
      /\ app # pipeline /\ app # block /\ app # data
      /\ pipeline # block /\ pipeline # data /\ block # data
  BY DEF Handle, app, pipeline, block, data
<1>2. \A c \in Cmd : \A k \in Kinds :
        <<c, k>> \in Handle /\ <<c, k>> \notin Program \cup {app}
  BY DEF Handle, Kinds, Program, app, pipeline, block, data
<1>3. \A c, d \in Cmd, k \in Kinds : <<c, k>> \in Of(d) => c = d
  BY DEF Of
<1>4. \A c \in Cmd : Of(c) \subseteq Handle /\ Of(c) \cap (Program \cup {app}) = {}
  BY <1>2 DEF Of
<1>5. "cmd_buf" \in Kinds /\ "fence" \in Kinds /\ "query_pool" \in Kinds /\ "staging" \in Kinds
  BY DEF Kinds
<1> QED
  BY <1>1, <1>2, <1>3, <1>4, <1>5

(* What making and destroying do to the objects that exist, and that they  *)
(* may be made when they do not exist and destroyed when they do.          *)
LEMMA CreateAlive ==
  ASSUME CountsInv, NEW H \in SUBSET Handle, H \cap alive = {}, Create(H)
  PROVE  CountsInv' /\ alive' = alive \cup H
  BY DEF CountsInv, Create, More, alive, Live

LEMMA FreeAlive ==
  ASSUME CountsInv, NEW H \in SUBSET alive, Free(H)
  PROVE  CountsInv' /\ alive' = alive \ H
  BY DEF CountsInv, Free, More, alive, Live

(* A slot taken: what its last command left counted is forgotten.          *)
LEMMA TakeAlive ==
  ASSUME CountsInv, NEW c \in Cmd, NEW what, NEW H \in SUBSET Of(c), Take(c, what, H)
  PROVE  CountsInv' /\ alive' = (alive \ Of(c)) \cup H
<1>1. Of(c) \subseteq Handle
  BY HandleFacts
<1>2. /\ created' = [h \in Handle |-> IF h \in H THEN 1 ELSE IF h \in Of(c) THEN 0 ELSE created[h]]
      /\ freed' = [h \in Handle |-> IF h \in Of(c) THEN 0 ELSE freed[h]]
  BY DEF Take
<1>3. ASSUME NEW h \in Handle
      PROVE  /\ created'[h] \in Nat /\ freed'[h] \in Nat
             /\ created'[h] = freed'[h] \/ created'[h] = freed'[h] + 1
             /\ created'[h] > freed'[h] <=> h \in (alive \ Of(c)) \cup H
  BY <1>2 DEF CountsInv, alive, Live
<1>4. alive' = (alive \ Of(c)) \cup H
  BY <1>1, <1>3 DEF alive, Live
<1> QED
  BY <1>2, <1>3, <1>4 DEF CountsInv

LEMMA KeepAlive ==
  ASSUME CountsInv, UNCHANGED handles
  PROVE  CountsInv' /\ alive' = alive
  BY DEF CountsInv, handles, alive, Live

LEMMA MapFailsAlive ==
  ASSUME CountsInv, NEW c, CannotMap(c)
  PROVE  CountsInv' /\ alive' = alive
<1> DEFINE H == {<<c, "staging">>}
<1>1. /\ \A h \in Handle : created'[h] = IF h \in H THEN created[h] + 1 ELSE created[h]
      /\ \A h \in Handle : freed'[h] = IF h \in H THEN freed[h] + 1 ELSE freed[h]
      /\ created' \in [Handle -> Nat] /\ freed' \in [Handle -> Nat]
  BY DEF CannotMap, More, CountsInv
<1> HIDE DEF H
<1>2. \A h \in Handle : created[h] \in Nat /\ freed[h] \in Nat
  BY DEF CountsInv
<1> QED
  BY <1>1, <1>2 DEF CountsInv, alive, Live

-----------------------------------------------------------------------------
LEMMA InitIInv == Init => IInv
<1> SUFFICES ASSUME Init PROVE IInv
  OBVIOUS
<1>1. alive = {}
  BY DEF Init, alive, Live
<1>2. TypeOK
  BY HandleFacts
  DEF Init, TypeOK, Job, NoJob, Contents, Idle, At, Returned, Places
<1>3. CountsInv
  BY DEF Init, CountsInv
<1>4. CommandSide
  BY <1>1 DEF Init, CommandSide, UnusedInv, HeldInv, AbandonedInv, CopyInv, LaunchInv, SubmittedInv,
     Idle, At, Returned, RecordPlaces
<1>5. ProgramSide
  BY <1>1 DEF Init, ProgramSide, ProgramInv, AppInv, DownInv, Idle, At, RecordPlaces
<1> QED
  BY <1>2, <1>3, <1>4, <1>5 DEF IInv

-----------------------------------------------------------------------------
(* A step that neither touches a command nor moves the copy and the launch *)
(* in progress.                                                            *)
LEMMA CommandsFrame ==
  ASSUME TypeOK, CommandSide, UNCHANGED commands,
         \A c \in Cmd : \A k \in Kinds : <<c, k>> \in alive' <=> <<c, k>> \in alive,
         copy.at = "idle", copy'.at = "idle", call'.at \notin RecordPlaces
  PROVE  CommandSide'
<1>1. UnusedInv'
  BY DEF CommandSide, UnusedInv, commands, Unused
<1>2. HeldInv'
  BY DEF CommandSide, HeldInv, commands, TypeOK, Kinds
<1>3. AbandonedInv'
  BY DEF CommandSide, AbandonedInv, commands, TypeOK, Kinds
<1>4. CopyInv' /\ LaunchInv'
  BY DEF CopyInv, LaunchInv
<1>5. SubmittedInv'
  BY DEF CommandSide, SubmittedInv, commands
<1> QED
  BY <1>1, <1>2, <1>3, <1>4, <1>5 DEF CommandSide

(* A step of a command.                                                    *)
LEMMA ProgramFrame ==
  ASSUME ProgramSide, call' = call, held' \subseteq held, state' \in {state, "crashed"},
         alive' \cap (Program \cup {app}) = alive \cap (Program \cup {app})
  PROVE  ProgramSide'
<1>1. /\ alive' \cap Program = alive \cap Program /\ (Program \subseteq alive' <=> Program \subseteq alive)
      /\ app \in alive' <=> app \in alive
  OBVIOUS
<1>2. ProgramInv'
  BY <1>1 DEF ProgramSide, ProgramInv
<1>3. AppInv' /\ DownInv'
  BY <1>1 DEF ProgramSide, AppInv, DownInv
<1> QED
  BY <1>2, <1>3 DEF ProgramSide

-----------------------------------------------------------------------------
(* The steps between commands, in the application or in a launch before it *)
(* has one.                                                                *)
LEMMA SpecialiseInv == ASSUME IInv, Specialise PROVE IInv'
<1>1. /\ UNCHANGED <<importing, commands, memory, copy>> /\ copy.at = "idle" /\ call.at = "specialise"
  BY DEF Specialise, Running, Up
<1>2. CASE Create({pipeline}) /\ call' = At("allocate") /\ UNCHANGED state
  <2>1. alive \cap Program = {} /\ pipeline \notin alive
    BY <1>1 DEF IInv, ProgramSide, ProgramInv, Program
  <2>2. CountsInv' /\ alive' = alive \cup {pipeline}
    BY <1>2, <2>1, CreateAlive, HandleFacts DEF IInv
  <2>3. TypeOK'
    BY <1>1, <1>2 DEF IInv, TypeOK, commands, memory, At, Places, LaunchPlaces
  <2>4. CommandSide'
    BY <1>1, <1>2, <2>2, HandleFacts, CommandsFrame DEF IInv, At, RecordPlaces, Program
  <2>5. ProgramSide'
    <3>1. alive' \cap Program = {pipeline} /\ app \in alive' /\ held' = {} /\ state # "down"
      BY <1>1, <2>1, <2>2, HandleFacts
      DEF IInv, ProgramSide, ProgramInv, AppInv, Program, LaunchPlaces, commands, Specialise, Running, Up
    <3> QED
      BY <1>2, <3>1 DEF ProgramSide, ProgramInv, AppInv, DownInv, At, LaunchPlaces, RecordPlaces
  <2> QED
    BY <2>2, <2>3, <2>4, <2>5 DEF IInv
<1>3. CASE Crash /\ UNCHANGED <<handles, call>>
  <2>1. CountsInv' /\ alive' = alive
    BY <1>3, KeepAlive DEF IInv
  <2>2. TypeOK'
    BY <1>1, <1>3 DEF IInv, TypeOK, commands, memory
  <2>3. CommandSide'
    BY <1>1, <1>3, <2>1, CommandsFrame DEF IInv, RecordPlaces
  <2>4. ProgramSide'
    BY <1>1, <1>3, <2>1, ProgramFrame DEF IInv, commands, Crash
  <2> QED
    BY <2>1, <2>2, <2>3, <2>4 DEF IInv
<1> QED
  BY <1>2, <1>3 DEF Specialise

LEMMA AllocateInv == ASSUME IInv, Allocate PROVE IInv'
<1>1. /\ UNCHANGED <<importing, commands, memory, copy>> /\ copy.at = "idle" /\ call.at = "allocate"
      /\ call.n \in {1, 2} /\ state = "up"
  BY DEF Allocate, Running, Up, IInv, TypeOK
<1> DEFINE b == resources[call.n]
<1>2. b = IF call.n = 1 THEN block ELSE data
  BY <1>1 DEF resources
<1>3. CASE Create({b}) /\ call' = [call EXCEPT !.at = "fill"] /\ UNCHANGED state
  <2>1. alive \cap Program = IF call.n = 1 THEN {pipeline} ELSE {pipeline, block}
    BY <1>1 DEF IInv, ProgramSide, ProgramInv
  <2>2. b \in Program /\ b \notin alive /\ b \in Handle
    BY <1>1, <1>2, <2>1, HandleFacts DEF Program
  <2>3. CountsInv' /\ alive' = alive \cup {b}
    BY <1>3, <2>2, CreateAlive DEF IInv
  <2>4. call'.at = "fill" /\ call'.n = call.n
    BY <1>1, <1>3 DEF IInv, TypeOK
  <2>5. TypeOK'
    BY <1>1, <1>3 DEF IInv, TypeOK, commands, memory, Places, LaunchPlaces
  <2>6. CommandSide'
    BY <1>1, <1>3, <2>2, <2>3, <2>4, HandleFacts, CommandsFrame DEF IInv, RecordPlaces
  <2>7. ProgramSide'
    <3>1. /\ alive' \cap Program = IF call.n = 1 THEN {pipeline, block} ELSE Program
          /\ app \in alive' /\ held' = {}
      BY <1>1, <1>2, <2>1, <2>2, <2>3
      DEF IInv, ProgramSide, ProgramInv, AppInv, Program, LaunchPlaces, commands
    <3> QED
      BY <1>1, <1>3, <2>4, <3>1 DEF ProgramSide, ProgramInv, AppInv, DownInv, LaunchPlaces, RecordPlaces
  <2> QED
    BY <2>3, <2>5, <2>6, <2>7 DEF IInv
<1>4. CASE Crash /\ UNCHANGED <<handles, call>>
  <2>1. CountsInv' /\ alive' = alive
    BY <1>4, KeepAlive DEF IInv
  <2>2. TypeOK'
    BY <1>1, <1>4 DEF IInv, TypeOK, commands, memory
  <2>3. CommandSide'
    BY <1>1, <1>4, <2>1, CommandsFrame DEF IInv, RecordPlaces
  <2>4. ProgramSide'
    BY <1>1, <1>4, <2>1, ProgramFrame DEF IInv, commands, Crash
  <2> QED
    BY <2>1, <2>2, <2>3, <2>4 DEF IInv
<1> QED
  BY <1>3, <1>4 DEF Allocate

(* Where a launch goes on to, and where the application's calls begin and  *)
(* end: nothing is made or destroyed.                                      *)
LEMMA MovesInv ==
  ASSUME IInv, UNCHANGED <<importing, commands, handles, copy, state>>, state = "up",
         copy.at = "idle", content' \in [Handle -> Contents],
         call' \in [at : Places \ RecordPlaces, cmd : Cmd \cup {"none"}, n : {1, 2}],
         ProgramInv', AppInv'
  PROVE  IInv'
<1>1. CountsInv' /\ alive' = alive
  BY KeepAlive DEF IInv
<1>2. TypeOK'
  BY <1>1 DEF IInv, TypeOK, commands
<1>3. CommandSide'
  BY <1>1, CommandsFrame DEF IInv
<1>4. DownInv'
  BY DEF DownInv
<1> QED
  BY <1>1, <1>2, <1>3, <1>4 DEF IInv, ProgramSide

LEMMA FilledInv == ASSUME IInv, Filled PROVE IInv'
<1>1. /\ UNCHANGED <<importing, commands, handles, copy, state>> /\ state = "up"
      /\ copy.at = "idle" /\ call.at = "filled" /\ call.n \in {1, 2}
  BY DEF Filled, Running, Up, IInv, TypeOK
<1>2. content' \in [Handle -> Contents]
  BY HandleFacts DEF Filled, Stored, IInv, TypeOK, Contents
<1>3. call' = IF call.n < 2 THEN [call EXCEPT !.at = "allocate", !.n = @ + 1]
              ELSE At(IF importing THEN "begin" ELSE "flush")
  BY DEF Filled, resources
<1>4. /\ call' \in [at : Places \ RecordPlaces, cmd : Cmd \cup {"none"}, n : {1, 2}]
      /\ call.n = 1 => call'.at = "allocate" /\ call'.n = 2
      /\ call.n = 2 => call'.at \in {"begin", "flush"}
  <2>1. CASE call.n = 1
    <3>1. call \in [at : Places, cmd : Cmd \cup {"none"}, n : {1, 2}]
      BY DEF IInv, TypeOK
    <3>2. call' = [call EXCEPT !.at = "allocate", !.n = @ + 1]
      BY <1>3, <2>1
    <3>3. "allocate" \in Places \ RecordPlaces
      BY DEF Places, LaunchPlaces, RecordPlaces
    <3>4. call'.at = "allocate" /\ call'.n = call.n + 1
      BY <3>1, <3>2
    <3>5. call'.n = 2 /\ call.n + 1 = 2
      BY <2>1, <3>4
    <3>6. call' = [at |-> "allocate", cmd |-> call.cmd, n |-> 2]
      BY <3>1, <3>2, <3>5
    <3>7. call' \in [at : Places \ RecordPlaces, cmd : Cmd \cup {"none"}, n : {1, 2}]
      BY <3>1, <3>3, <3>6
    <3> QED
      BY <2>1, <3>4, <3>5, <3>7
  <2>2. CASE call.n = 2
    <3>1. call' = At(IF importing THEN "begin" ELSE "flush")
      BY <1>3, <2>2
    <3> QED
      BY <2>2, <3>1 DEF At, Places, LaunchPlaces, RecordPlaces
  <2> QED
    BY <1>1, <2>1, <2>2
<1>5. /\ alive \cap Program = IF call.n = 1 THEN {pipeline, block} ELSE Program
      /\ held = {} /\ app \in alive
  BY <1>1 DEF IInv, ProgramSide, ProgramInv, AppInv, LaunchPlaces
<1>6. ProgramInv' /\ AppInv'
  <2>1. alive' = alive /\ held' = {}
    BY <1>1, <1>5, KeepAlive DEF IInv, commands
  <2> QED
    BY <1>1, <1>4, <1>5, <2>1 DEF ProgramInv, AppInv, LaunchPlaces, RecordPlaces
<1> QED
  BY <1>1, <1>2, <1>4, <1>6, MovesInv

LEMMA FlushedInv == ASSUME IInv, Flushed PROVE IInv'
<1>1. /\ UNCHANGED <<importing, commands, handles, content, copy, state>> /\ state = "up"
      /\ copy.at = "idle" /\ call.at = "flushed" /\ call' = At("begin")
  BY DEF Flushed, Running, Up
<1>2. alive' = alive
  BY <1>1, KeepAlive DEF IInv
<1>3. ProgramInv' /\ AppInv'
  BY <1>1, <1>2
  DEF IInv, ProgramSide, ProgramInv, AppInv, At, commands, LaunchPlaces, RecordPlaces
<1> QED
  BY <1>1, <1>3, MovesInv DEF IInv, TypeOK, At, Places, RecordPlaces, LaunchPlaces

LEMMA LaunchKernelInv == ASSUME IInv, LaunchKernel PROVE IInv'
<1>1. /\ UNCHANGED <<importing, commands, handles, memory, copy, state>> /\ state = "up"
      /\ copy.at = "idle" /\ call.at = "idle"
      /\ call' = At(IF Live(pipeline) THEN "begin" ELSE "specialise") /\ Live(app)
  BY DEF LaunchKernel, Calls, Running, Up
<1>2. alive' = alive /\ app \in alive /\ (pipeline \in alive <=> Live(pipeline))
  BY <1>1, KeepAlive, HandleFacts DEF IInv, alive
<1>3. alive \cap Program = {} \/ Program \subseteq alive
  BY <1>1 DEF IInv, ProgramSide, ProgramInv
<1>4. CASE pipeline \in alive
  <2>1. Program \subseteq alive /\ call'.at = "begin"
    BY <1>1, <1>2, <1>3, <1>4 DEF Program, At
  <2> QED
    BY <1>1, <1>2, <2>1, MovesInv
    DEF IInv, TypeOK, ProgramInv, AppInv, At, Places, LaunchPlaces, RecordPlaces, memory
<1>5. CASE pipeline \notin alive
  <2>1. alive \cap Program = {} /\ call'.at = "specialise" /\ held = {}
    BY <1>1, <1>2, <1>3, <1>5 DEF IInv, ProgramSide, ProgramInv, Program, At
  <2> QED
    BY <1>1, <1>2, <2>1, MovesInv
    DEF IInv, TypeOK, ProgramInv, AppInv, At, Places, LaunchPlaces, RecordPlaces, memory, commands
<1> QED
  BY <1>4, <1>5

LEMMA CallCopyInv ==
  ASSUME IInv, NEW which \in {"copy_to", "copy_from"}, CallCopy(which) PROVE IInv'
<1>1. /\ UNCHANGED <<importing, commands, handles, memory, copy, state>> /\ state = "up"
      /\ copy.at = "idle" /\ call.at = "idle" /\ call' = At(which) /\ Live(app)
  BY DEF CallCopy, Calls, Running, Up
<1>2. alive' = alive /\ app \in alive
  BY <1>1, KeepAlive, HandleFacts DEF IInv, alive
<1>3. ProgramInv' /\ AppInv'
  BY <1>1, <1>2
  DEF IInv, ProgramSide, ProgramInv, AppInv, At, commands, LaunchPlaces, RecordPlaces
<1> QED
  BY <1>1, <1>3, MovesInv DEF IInv, TypeOK, At, Places, RecordPlaces, LaunchPlaces, memory

LEMMA CopyReturnsInv == ASSUME IInv, CopyReturns PROVE IInv'
<1>1. /\ UNCHANGED <<importing, commands, handles, content, copy, state>> /\ state = "up"
      /\ copy.at = "idle" /\ call.at \in {"copied_to", "copied_from"} /\ call' = Idle
  BY DEF CopyReturns, Running, Up
<1>2. alive' = alive
  BY <1>1, KeepAlive DEF IInv
<1>3. ProgramInv' /\ AppInv'
  BY <1>1, <1>2
  DEF IInv, ProgramSide, ProgramInv, AppInv, Idle, At, commands, LaunchPlaces, RecordPlaces
<1> QED
  BY <1>1, <1>3, MovesInv DEF IInv, TypeOK, Idle, At, Places, RecordPlaces, LaunchPlaces

(* The application's buffer and the program come and go.                   *)
LEMMA AllocateBufferInv == ASSUME IInv, AllocateBuffer PROVE IInv'
<1>1. /\ UNCHANGED <<importing, commands, memory, call, copy, state>>
      /\ copy.at = "idle" /\ call.at = "idle" /\ created[app] = 0 /\ Create({app})
  BY DEF AllocateBuffer, Calls, Running, Up
<1>2. app \notin alive
  BY <1>1, HandleFacts DEF IInv, CountsInv, alive, Live
<1>3. CountsInv' /\ alive' = alive \cup {app}
  BY <1>1, <1>2, CreateAlive, HandleFacts DEF IInv
<1>4. TypeOK'
  BY <1>1 DEF IInv, TypeOK, commands, memory
<1>5. CommandSide'
  BY <1>1, <1>3, HandleFacts, CommandsFrame DEF IInv, RecordPlaces
<1>6. ProgramSide'
  <2>1. alive' \cap Program = alive \cap Program
    BY <1>3, HandleFacts DEF Program
  <2> QED
    BY <1>1, <1>3, <2>1 DEF IInv, ProgramSide, ProgramInv, AppInv, DownInv, commands
<1> QED
  BY <1>3, <1>4, <1>5, <1>6 DEF IInv

LEMMA DestroyBufferInv == ASSUME IInv, DestroyBuffer PROVE IInv'
<1>1. /\ UNCHANGED <<importing, commands, memory, call, copy, state>>
      /\ copy.at = "idle" /\ call.at = "idle" /\ held = {} /\ Live(app) /\ Free({app})
  BY DEF DestroyBuffer, Running, Up
<1>2. CountsInv' /\ alive' = alive \ {app}
  BY <1>1, FreeAlive, HandleFacts DEF IInv, alive
<1>3. TypeOK'
  BY <1>1 DEF IInv, TypeOK, commands, memory
<1>4. CommandSide'
  BY <1>1, <1>2, HandleFacts, CommandsFrame DEF IInv, RecordPlaces
<1>5. ProgramSide'
  <2>1. alive' \cap Program = alive \cap Program
    BY <1>2, HandleFacts DEF Program
  <2> QED
    BY <1>1, <1>2, <2>1 DEF IInv, ProgramSide, ProgramInv, AppInv, DownInv, commands
<1> QED
  BY <1>2, <1>3, <1>4, <1>5 DEF IInv

LEMMA ShutdownInv == ASSUME IInv, Shutdown PROVE IInv'
<1>1. /\ UNCHANGED <<importing, commands, memory, call, copy>>
      /\ copy.at = "idle" /\ call.at = "idle" /\ held = {} /\ Free(ProgramHandles)
  BY DEF Shutdown, Running, Up
<1>2. ProgramHandles = alive \cap Program
  BY HandleFacts DEF ProgramHandles, alive, Program
<1>3. CountsInv' /\ alive' = alive \ Program
  BY <1>1, <1>2, FreeAlive DEF IInv
<1>4. TypeOK'
  BY <1>1 DEF IInv, TypeOK, commands, memory
<1>5. CommandSide'
  BY <1>1, <1>3, HandleFacts, CommandsFrame DEF IInv, RecordPlaces
<1>6. ProgramSide'
  BY <1>1, <1>3 DEF IInv, ProgramSide, ProgramInv, AppInv, DownInv, commands, RecordPlaces
<1> QED
  BY <1>3, <1>4, <1>5, <1>6 DEF IInv

-----------------------------------------------------------------------------
(* A command is begun: its slot was nobody's.                              *)
LEMMA TakeSlot ==
  ASSUME IInv, NEW c \in Cmd, NEW what \in Job, NEW k \in Kinds,
         Take(c, what, {<<c, k>>}), submitted' = Cleared(c),
         UNCHANGED <<pending, signalled, held, abandoned>>
  PROVE  /\ CountsInv'
         /\ \A d \in Cmd : \A l \in Kinds :
              <<d, l>> \in alive' <=> IF d = c THEN l = k ELSE <<d, l>> \in alive
         /\ alive' \cap (Program \cup {app}) = alive \cap (Program \cup {app})
         /\ job' \in [Cmd -> Job] /\ submitted' \in [Cmd -> BOOLEAN]
         /\ job'[c] = what /\ submitted'[c] = FALSE
         /\ \A d \in Cmd \ {c} : job'[d] = job[d] /\ submitted'[d] = submitted[d]
         /\ c \notin pending \cup signalled \cup held \cup abandoned
         /\ copy.at # "idle" => copy.cmd # c
         /\ call.at \in RecordPlaces => call.cmd # c
         /\ HeldInv' /\ AbandonedInv'
<1>1. {<<c, k>>} \in SUBSET Of(c)
  BY DEF Of
<1>2. CountsInv' /\ alive' = (alive \ Of(c)) \cup {<<c, k>>}
  BY <1>1, TakeAlive DEF IInv
<1>3. /\ job' = [job EXCEPT ![c] = what] /\ job[c] = NoJob
      /\ submitted' = [submitted EXCEPT ![c] = FALSE]
  BY DEF Take, Unused, Cleared
<1>4. \A d \in Cmd : \A l \in Kinds :
        <<d, l>> \in alive' <=> IF d = c THEN l = k ELSE <<d, l>> \in alive
  BY <1>2 DEF Of
<1>5. alive' \cap (Program \cup {app}) = alive \cap (Program \cup {app})
  BY <1>2, HandleFacts
<1>6. /\ job' \in [Cmd -> Job] /\ submitted' \in [Cmd -> BOOLEAN]
      /\ job'[c] = what /\ submitted'[c] = FALSE
      /\ \A d \in Cmd \ {c} : job'[d] = job[d] /\ submitted'[d] = submitted[d]
  BY <1>3 DEF IInv, TypeOK
<1>7. job[c].kind = "none" /\ Launching.kind = "launch" /\ CopyJob(copy.cmd).kind = "copy"
  BY <1>3 DEF NoJob, Launching, CopyJob, Copying
<1>8. c \notin held /\ c \notin abandoned
  BY <1>7 DEF IInv, CommandSide, HeldInv, AbandonedInv
<1>9. copy.at # "idle" => copy.cmd # c
  BY <1>7 DEF IInv, CommandSide, CopyInv
<1>10. call.at \in RecordPlaces => call.cmd # c
  BY <1>7 DEF IInv, CommandSide, LaunchInv
<1>11. c \notin pending \cup signalled
  BY <1>8, <1>9 DEF IInv, CommandSide, SubmittedInv
<1>12. HeldInv'
  BY <1>4, <1>6, <1>8 DEF IInv, TypeOK, CommandSide, HeldInv, Kinds
<1>13. AbandonedInv'
  BY <1>4, <1>6, <1>8 DEF IInv, TypeOK, CommandSide, AbandonedInv, Kinds
<1> QED
  BY <1>2, <1>4, <1>5, <1>6, <1>8, <1>9, <1>10, <1>11, <1>12, <1>13

(* The four calls that copy: the application's, and a launch's.            *)
CopyPlace(from) ==
  CASE from = "fill" -> "filled" [] from = "flush" -> "flushed"
    [] from = "copy_to" -> "copied_to" [] from = "copy_from" -> "copied_from"

LEMMA CopyStartsInv ==
  ASSUME IInv, state = "up", UNCHANGED <<importing, state>>, NEW c \in Cmd,
         NEW here \in {"fill", "flush", "copy_to", "copy_from"}, call.at = here,
         call'.at = CopyPlace(here), call' \in [at : CopyPlaces, cmd : Cmd \cup {"none"}, n : {1, 2}],
         call'.n = call.n \/ here # "fill",
         NEW from \in Handle, NEW to \in Handle, NEW v \in Contents,
         Copying(from, to) = CopyJob(c)', CopyStarts(c, from, to, v)
  PROVE  IInv'
<1>1. UNCHANGED <<pending, signalled, held, abandoned>> /\ copy.at = "idle"
  BY DEF CopyStarts
<1>2. call.at \notin RecordPlaces /\ call'.at \notin RecordPlaces
  BY DEF CopyPlaces, RecordPlaces
<1>3. app \in alive
  BY DEF IInv, ProgramSide, AppInv
<1>4. ASSUME alive' \cap (Program \cup {app}) = alive \cap (Program \cup {app})
      PROVE  ProgramSide'
  <2>1. /\ alive' \cap Program = alive \cap Program
        /\ Program \subseteq alive' <=> Program \subseteq alive
        /\ app \in alive'
    BY <1>3, <1>4
  <2>2. CASE here = "fill"
    BY <1>1, <2>1, <2>2
    DEF IInv, ProgramSide, ProgramInv, AppInv, DownInv, CopyPlace, LaunchPlaces, RecordPlaces
  <2>3. CASE here = "flush"
    BY <1>1, <2>1, <2>3
    DEF IInv, ProgramSide, ProgramInv, AppInv, DownInv, CopyPlace, LaunchPlaces, RecordPlaces
  <2>4. CASE here \in {"copy_to", "copy_from"}
    BY <1>1, <2>1, <2>4
    DEF IInv, ProgramSide, ProgramInv, AppInv, DownInv, CopyPlace, LaunchPlaces, RecordPlaces
  <2> QED
    BY <2>2, <2>3, <2>4
<1>5. CASE /\ Take(c, Copying(from, to), {<<c, "staging">>}) /\ submitted' = Cleared(c)
           /\ content' = [content EXCEPT ![<<c, "staging">>] = v]
           /\ copy' = [at |-> "begin", cmd |-> c, ok |-> FALSE]
  <2> DEFINE what == Copying(from, to)
  <2>1. what \in Job /\ what # NoJob /\ "staging" \in Kinds
    BY DEF Copying, Job, Kinds, NoJob
  <2>1a. /\ Take(c, what, {<<c, "staging">>}) /\ submitted' = Cleared(c)
         /\ UNCHANGED <<pending, signalled, held, abandoned>>
    BY <1>1, <1>5
  <2> HIDE DEF what
  <2>2. /\ CountsInv'
        /\ \A d \in Cmd : \A l \in Kinds :
             <<d, l>> \in alive' <=> IF d = c THEN l = "staging" ELSE <<d, l>> \in alive
        /\ alive' \cap (Program \cup {app}) = alive \cap (Program \cup {app})
        /\ job' \in [Cmd -> Job] /\ submitted' \in [Cmd -> BOOLEAN]
        /\ job'[c] = what /\ submitted'[c] = FALSE
        /\ \A d \in Cmd \ {c} : job'[d] = job[d] /\ submitted'[d] = submitted[d]
        /\ c \notin pending \cup signalled \cup held \cup abandoned
        /\ HeldInv' /\ AbandonedInv'
    BY <2>1, <2>1a, TakeSlot
  <2>3. TypeOK'
    BY <1>1, <1>5, <2>2 DEF IInv, TypeOK, Places, CopyPlaces
  <2>4. UnusedInv'
    BY <2>1, <2>2 DEF IInv, CommandSide, UnusedInv, Unused
  <2>5. CopyInv'
    BY <1>1, <1>5, <2>2 DEF CopyInv, Kinds, what
  <2>6. LaunchInv' /\ SubmittedInv'
    BY <1>1, <1>2, <1>5 DEF IInv, CommandSide, LaunchInv, SubmittedInv
  <2> QED
    BY <1>4, <2>2, <2>3, <2>4, <2>5, <2>6 DEF IInv, CommandSide
<1>6. CASE /\ UNCHANGED handles \/ CannotMap(c)
           /\ copy' = Returned(FALSE) /\ UNCHANGED <<job, submitted, content>>
  <2>1. CountsInv' /\ alive' = alive
    BY <1>6, KeepAlive, MapFailsAlive DEF IInv
  <2>2. TypeOK'
    BY <1>1, <1>6 DEF IInv, TypeOK, Places, CopyPlaces, Returned
  <2>3. CommandSide'
    BY <1>1, <1>2, <1>6, <2>1, CommandsFrame DEF IInv, commands, Returned
  <2> QED
    BY <1>4, <2>1, <2>2, <2>3 DEF IInv
<1> QED
  BY <1>5, <1>6 DEF CopyStarts

LEMMA FillStepInv == ASSUME IInv, NEW c \in Cmd, Fill(c) PROVE IInv'
<1>1. /\ UNCHANGED <<importing, state>> /\ state = "up" /\ call.at = "fill"
      /\ CopyStarts(c, <<c, "staging">>, resources[call.n], InitialValue(resources[call.n]))
      /\ call' = [call EXCEPT !.at = "filled"] /\ call.n \in {1, 2}
      /\ call \in [at : Places, cmd : Cmd \cup {"none"}, n : {1, 2}]
  BY DEF Fill, Running, Up, CopyTo, IInv, TypeOK
<1>2. call'.at = "filled" /\ call'.n = call.n
  BY <1>1
<1>3. call' \in [at : CopyPlaces, cmd : Cmd \cup {"none"}, n : {1, 2}]
  BY <1>1 DEF CopyPlaces
<1>4. /\ resources[call.n] \in Handle /\ InitialValue(resources[call.n]) \in Contents
      /\ <<c, "staging">> \in Handle
  BY <1>1, HandleFacts DEF resources, InitialValue, Contents
<1>5. Copying(<<c, "staging">>, resources[call.n]) = CopyJob(c)'
  BY <1>2 DEF CopyJob, Target
<1>6. call'.at = CopyPlace("fill")
  BY <1>2 DEF CopyPlace
<1> QED
  BY <1>1, <1>2, <1>3, <1>4, <1>5, <1>6, CopyStartsInv

LEMMA FlushInv == ASSUME IInv, NEW c \in Cmd, Flush(c) PROVE IInv'
<1>1. /\ UNCHANGED <<importing, state>> /\ state = "up" /\ call.at = "flush"
      /\ CopyStarts(c, <<c, "staging">>, block, "VkrBuffer") /\ call' = At("flushed")
  BY DEF Flush, Running, Up, CopyTo
<1>2. /\ call' \in [at : CopyPlaces, cmd : Cmd \cup {"none"}, n : {1, 2}]
      /\ call'.at = CopyPlace("flush") /\ call'.at = "flushed"
  BY <1>1 DEF At, CopyPlaces, CopyPlace
<1>3. block \in Handle /\ "VkrBuffer" \in Contents /\ <<c, "staging">> \in Handle
  BY HandleFacts DEF Contents
<1>4. Copying(<<c, "staging">>, block) = CopyJob(c)'
  BY <1>2 DEF CopyJob, Target
<1> QED
  BY <1>1, <1>2, <1>3, <1>4, CopyStartsInv

LEMMA CopyToBufferInv == ASSUME IInv, NEW c \in Cmd, NEW v \in Value, CopyToBuffer(c, v) PROVE IInv'
<1>1. /\ UNCHANGED <<importing, state>> /\ state = "up" /\ call.at = "copy_to"
      /\ CopyStarts(c, <<c, "staging">>, app, v) /\ call' = At("copied_to")
  BY DEF CopyToBuffer, Running, Up, CopyTo
<1>2. /\ call' \in [at : CopyPlaces, cmd : Cmd \cup {"none"}, n : {1, 2}]
      /\ call'.at = CopyPlace("copy_to") /\ call'.at = "copied_to"
  BY <1>1 DEF At, CopyPlaces, CopyPlace
<1>3. app \in Handle /\ v \in Contents /\ <<c, "staging">> \in Handle
  BY HandleFacts DEF Contents
<1>4. Copying(<<c, "staging">>, app) = CopyJob(c)'
  BY <1>2 DEF CopyJob, Target
<1> QED
  BY <1>1, <1>2, <1>3, <1>4, CopyStartsInv

LEMMA CopyFromBufferInv == ASSUME IInv, NEW c \in Cmd, CopyFromBuffer(c) PROVE IInv'
<1>1. /\ UNCHANGED <<importing, state>> /\ state = "up" /\ call.at = "copy_from"
      /\ CopyStarts(c, app, <<c, "staging">>, "garbage") /\ call' = At("copied_from")
  BY DEF CopyFromBuffer, Running, Up, CopyFrom
<1>2. /\ call' \in [at : CopyPlaces, cmd : Cmd \cup {"none"}, n : {1, 2}]
      /\ call'.at = CopyPlace("copy_from") /\ call'.at = "copied_from"
  BY <1>1 DEF At, CopyPlaces, CopyPlace
<1>3. app \in Handle /\ "garbage" \in Contents /\ <<c, "staging">> \in Handle
  BY HandleFacts DEF Contents
<1>4. Copying(app, <<c, "staging">>) = CopyJob(c)'
  BY <1>2 DEF CopyJob
<1> QED
  BY <1>1, <1>2, <1>3, <1>4, CopyStartsInv

-----------------------------------------------------------------------------
(* The device finishes a command.                                          *)
LEMMA FinishInv == ASSUME IInv, NEW c \in Cmd, Finish(c) PROVE IInv'
<1>1. /\ c \in pending /\ pending' = pending \ {c} /\ signalled' = signalled \cup {c}
      /\ UNCHANGED <<importing, job, submitted, held, abandoned, handles, call, copy, state>>
  BY DEF Finish, Up
<1>2. CountsInv' /\ alive' = alive
  BY <1>1, KeepAlive DEF IInv
<1>3. content' \in [Handle -> Contents]
  <2>1. job[c].dst \in Handle /\ job[c].src \in Handle
    BY DEF IInv, TypeOK, Job
  <2>2. Effect(c) \in Contents
    BY <2>1 DEF Effect, Contents, IInv, TypeOK
  <2> QED
    BY <2>1, <2>2 DEF Finish, IInv, TypeOK
<1>4. TypeOK'
  BY <1>1, <1>2, <1>3 DEF IInv, TypeOK
<1>5. CommandSide'
  <2>1. UnusedInv' /\ HeldInv' /\ AbandonedInv' /\ LaunchInv'
    BY <1>1, <1>2
    DEF IInv, CommandSide, UnusedInv, HeldInv, AbandonedInv, LaunchInv, Unused
  <2>2. CopyInv'
    BY <1>1, <1>2 DEF IInv, CommandSide, CopyInv, CopyJob, Target
  <2>3. SubmittedInv'
    BY <1>1 DEF IInv, CommandSide, SubmittedInv
  <2> QED
    BY <2>1, <2>2, <2>3 DEF CommandSide
<1>6. ProgramSide'
  BY <1>1, <1>2, ProgramFrame DEF IInv
<1> QED
  BY <1>2, <1>4, <1>5, <1>6 DEF IInv

(* The copy in progress.  A step of it that crashes leaves everything.     *)
LEMMA CrashInv ==
  ASSUME IInv, Crash, UNCHANGED <<importing, commands, handles, memory, call, copy>> PROVE IInv'
<1>1. CountsInv' /\ alive' = alive
  BY KeepAlive DEF IInv
<1>2. TypeOK'
  BY <1>1 DEF IInv, TypeOK, commands, memory
<1>3. CommandSide'
  BY <1>1 DEF IInv, CommandSide, UnusedInv, HeldInv, AbandonedInv, CopyInv, LaunchInv, SubmittedInv,
     commands, Unused, CopyJob, Target
<1>4. ProgramSide'
  BY <1>1, ProgramFrame DEF IInv, Crash, commands
<1> QED
  BY <1>1, <1>2, <1>3, <1>4 DEF IInv

(* Whose the copy's command is not.                                        *)
LEMMA CopyApart ==
  ASSUME IInv, copy.at # "idle"
  PROVE  /\ copy.cmd \in Cmd /\ copy.cmd \notin held /\ copy.cmd \notin abandoned
         /\ call.at \notin RecordPlaces /\ ~ Unused(copy.cmd)
         /\ \A k \in Kinds : <<copy.cmd, k>> \in Handle
         /\ job[copy.cmd] = CopyJob(copy.cmd) /\ job[copy.cmd].kind = "copy"
         /\ copy.at # "wait" => copy.cmd \notin pending \cup signalled
<1>1. /\ copy.cmd \in Cmd /\ copy.cmd \notin abandoned /\ call.at \in CopyPlaces
      /\ job[copy.cmd] = CopyJob(copy.cmd)
  BY DEF IInv, CommandSide, CopyInv
<1>2. CopyJob(copy.cmd).kind = "copy" /\ Launching.kind = "launch" /\ NoJob.kind = "none"
  BY DEF CopyJob, Copying, Launching, NoJob
<1>3. copy.cmd \notin held /\ ~ Unused(copy.cmd)
  BY <1>1, <1>2 DEF IInv, CommandSide, HeldInv, Unused
<1>4. call.at \notin RecordPlaces
  BY <1>1 DEF CopyPlaces, RecordPlaces
<1>5. copy.at # "wait" => copy.cmd \notin pending \cup signalled
  BY <1>1, <1>3 DEF IInv, CommandSide, SubmittedInv
<1> QED
  BY <1>1, <1>2, <1>3, <1>4, <1>5, HandleFacts

LEMMA CopyBeginInv == ASSUME IInv, CopyBegin PROVE IInv'
<1>1. CASE Fails /\ Crash /\ UNCHANGED <<copy, handles>>
  BY <1>1, CrashInv DEF CopyBegin, Up
<1>2. CASE /\ copy' = [copy EXCEPT !.at = "submit"]
           /\ Create({<<copy.cmd, "cmd_buf">>}) /\ UNCHANGED state
  <2> DEFINE c == copy.cmd
  <2>1. /\ copy.at = "begin" /\ UNCHANGED <<importing, commands, memory, call>>
        /\ copy'.at = "submit" /\ copy'.cmd = c
    BY <1>2 DEF CopyBegin, Up, IInv, TypeOK
  <2>2. /\ c \in Cmd /\ c \notin held /\ c \notin abandoned /\ ~ Unused(c)
        /\ <<c, "cmd_buf">> \in Handle /\ call.at \notin RecordPlaces
        /\ c \notin pending \cup signalled
    BY <2>1, CopyApart, HandleFacts
  <2>3. <<c, "cmd_buf">> \notin alive
    BY <2>1 DEF IInv, CommandSide, CopyInv
  <2>4. CountsInv' /\ alive' = alive \cup {<<c, "cmd_buf">>}
    BY <1>2, <2>2, <2>3, CreateAlive DEF IInv
  <2>5. TypeOK'
    BY <1>2, <2>1, <2>4 DEF IInv, TypeOK, commands, memory
  <2> HIDE DEF c
  <2>6. UnusedInv' /\ HeldInv' /\ AbandonedInv'
    BY <2>1, <2>2, <2>4
    DEF IInv, CommandSide, UnusedInv, HeldInv, AbandonedInv, commands, Unused, TypeOK
  <2>7. CopyInv'
    BY <2>1, <2>4 DEF IInv, CommandSide, CopyInv, CopyJob, Target, commands, c
  <2>8. LaunchInv' /\ SubmittedInv'
    BY <2>1, <2>2 DEF IInv, CommandSide, LaunchInv, SubmittedInv, commands
  <2>9. alive' \cap (Program \cup {app}) = alive \cap (Program \cup {app})
    BY <2>2, <2>4, HandleFacts
  <2>10. ProgramSide'
    BY <1>2, <2>1, <2>9, ProgramFrame DEF IInv, commands
  <2> QED
    BY <2>4, <2>5, <2>6, <2>7, <2>8, <2>10 DEF IInv, CommandSide
<1> QED
  BY <1>1, <1>2 DEF CopyBegin

LEMMA CopySubmitInv == ASSUME IInv, CopySubmit PROVE IInv'
<1>1. CASE Fails /\ Crash /\ UNCHANGED <<copy, handles, submitted, pending, signalled>>
  BY <1>1, CrashInv DEF CopySubmit, Up, commands
<1>2. CASE Submit(copy.cmd) /\ copy' = [copy EXCEPT !.at = "wait"] /\ UNCHANGED state
  <2> DEFINE c == copy.cmd
  <2>1. /\ copy.at = "submit" /\ UNCHANGED <<importing, job, held, abandoned, memory, call>>
        /\ copy'.at = "wait" /\ copy'.cmd = c
        /\ Create({<<c, "fence">>}) /\ submitted' = [submitted EXCEPT ![c] = TRUE]
        /\ pending' = pending \cup {c} /\ signalled' = signalled \ {c}
    BY <1>2 DEF CopySubmit, Submit, Up, IInv, TypeOK
  <2>2. /\ c \in Cmd /\ c \notin held /\ c \notin abandoned /\ ~ Unused(c)
        /\ <<c, "fence">> \in Handle /\ call.at \notin RecordPlaces
        /\ c \notin pending \cup signalled
    BY <2>1, CopyApart, HandleFacts
  <2>3. <<c, "fence">> \notin alive
    BY <2>1 DEF IInv, CommandSide, CopyInv
  <2>4. CountsInv' /\ alive' = alive \cup {<<c, "fence">>}
    BY <2>1, <2>2, <2>3, CreateAlive DEF IInv
  <2>5. TypeOK'
    BY <1>2, <2>1, <2>2, <2>4 DEF IInv, TypeOK, memory
  <2> HIDE DEF c
  <2>6. UnusedInv' /\ HeldInv' /\ AbandonedInv'
    BY <2>1, <2>2, <2>4
    DEF IInv, CommandSide, UnusedInv, HeldInv, AbandonedInv, Unused, TypeOK
  <2>7. CopyInv'
    BY <2>1, <2>2, <2>4 DEF IInv, TypeOK, CommandSide, CopyInv, CopyJob, Target, c
  <2>8. LaunchInv' /\ SubmittedInv'
    BY <2>1, <2>2 DEF IInv, CommandSide, LaunchInv, SubmittedInv
  <2>9. alive' \cap (Program \cup {app}) = alive \cap (Program \cup {app})
    BY <2>2, <2>4, HandleFacts
  <2>10. ProgramSide'
    BY <1>2, <2>1, <2>9, ProgramFrame DEF IInv
  <2> QED
    BY <2>4, <2>5, <2>6, <2>7, <2>8, <2>10 DEF IInv, CommandSide
<1> QED
  BY <1>1, <1>2 DEF CopySubmit

(* What shd_rt_vk_destroy_command frees of a command that was submitted is *)
(* all there is but a staging buffer.                                      *)
LEMMA DestroySubmitted ==
  ASSUME IInv, NEW c \in Cmd, submitted[c], <<c, "cmd_buf">> \in alive, <<c, "fence">> \in alive
  PROVE  /\ CommandHandles(c) \subseteq alive /\ CommandHandles(c) \subseteq Of(c)
         /\ \A k \in Kinds : <<c, k>> \in alive \ CommandHandles(c) => k = "staging"
<1>1. \A k \in Kinds : <<c, k>> \in Handle
  BY HandleFacts
<1>2. <<c, "query_pool">> \in alive <=> Live(<<c, "query_pool">>)
  BY <1>1, HandleFacts DEF alive
<1>3. CommandHandles(c) =
        {<<c, "cmd_buf">>, <<c, "fence">>} \cup {h \in {<<c, "query_pool">>} : h \in alive}
  BY <1>2 DEF CommandHandles
<1>4. CommandHandles(c) \subseteq alive
  BY <1>3
<1>5. CommandHandles(c) \subseteq Of(c)
  BY <1>3 DEF Of, Kinds
<1>6. ASSUME NEW k \in Kinds, <<c, k>> \in alive \ CommandHandles(c) PROVE k = "staging"
  BY <1>3, <1>6 DEF Kinds
<1> QED
  BY <1>4, <1>5, <1>6

LEMMA CopyDoneInv == ASSUME IInv, CopyDone PROVE IInv'
<1> DEFINE c == copy.cmd
           gone == CommandHandles(c) \cup {<<c, "staging">>}
<1>1. /\ copy.at = "wait" /\ c \in signalled /\ signalled' = signalled \ {c}
      /\ Free(gone) /\ job' = [job EXCEPT ![c] = NoJob] /\ copy' = Returned(TRUE)
      /\ content' = [content EXCEPT ![<<c, "staging">>] = "garbage"]
      /\ UNCHANGED <<importing, submitted, pending, held, abandoned, call, state>>
  BY DEF CopyDone, FenceSignalled, Up
<1>2. /\ c \in Cmd /\ c \notin held /\ c \notin abandoned /\ call.at \notin RecordPlaces
      /\ \A k \in Kinds : <<c, k>> \in Handle
  BY <1>1, CopyApart
<1>3. /\ <<c, "staging">> \in alive /\ <<c, "cmd_buf">> \in alive /\ <<c, "fence">> \in alive
      /\ submitted[c]
  BY <1>1 DEF IInv, CommandSide, CopyInv
<1>4. c \notin pending
  BY <1>1 DEF IInv, CommandSide, SubmittedInv
<1>5. /\ gone \subseteq alive /\ gone \subseteq Of(c)
      /\ \A k \in Kinds : <<c, k>> \notin alive \ gone
  BY <1>2, <1>3, DestroySubmitted DEF Of, Kinds
<1>6. CountsInv' /\ alive' = alive \ gone
  BY <1>1, <1>5, FreeAlive DEF IInv
<1>7. \A d \in Cmd : \A k \in Kinds : <<d, k>> \in alive' <=> d # c /\ <<d, k>> \in alive
  BY <1>2, <1>5, <1>6, HandleFacts
<1>8. alive' \cap (Program \cup {app}) = alive \cap (Program \cup {app})
  BY <1>2, <1>5, <1>6, HandleFacts
<1>9. NoJob \in Job
  BY HandleFacts DEF NoJob, Job
<1> HIDE DEF c, gone
<1>10. TypeOK'
  BY <1>1, <1>2, <1>6, <1>9, HandleFacts DEF IInv, TypeOK, Returned, Contents
<1>11. \A d \in Cmd \ {c} : job'[d] = job[d]
  BY <1>1 DEF IInv, TypeOK
<1>12. UnusedInv'
  BY <1>7, <1>11 DEF IInv, CommandSide, UnusedInv, Unused
<1>13. HeldInv' /\ AbandonedInv'
  BY <1>1, <1>2, <1>7, <1>11, HandleFacts DEF IInv, TypeOK, CommandSide, HeldInv, AbandonedInv
<1>14. CopyInv' /\ LaunchInv'
  BY <1>1, <1>2 DEF CopyInv, LaunchInv, Returned
<1>15. SubmittedInv'
  BY <1>1, <1>4 DEF IInv, CommandSide, SubmittedInv, c
<1>16. ProgramSide'
  BY <1>1, <1>8, ProgramFrame DEF IInv
<1> QED
  BY <1>6, <1>10, <1>12, <1>13, <1>14, <1>15, <1>16 DEF IInv, CommandSide

LEMMA CopyTimesOutInv == ASSUME IInv, CopyTimesOut PROVE IInv'
<1> DEFINE c == copy.cmd
<1>1. /\ copy.at = "wait" /\ Free({<<c, "staging">>}) /\ abandoned' = abandoned \cup {c}
      /\ copy' = Returned(FALSE)
      /\ UNCHANGED <<importing, job, submitted, pending, signalled, held, memory, call, state>>
  BY DEF CopyTimesOut, Up
<1>2. /\ c \in Cmd /\ c \notin held /\ call.at \notin RecordPlaces /\ job[c].kind = "copy"
      /\ ~ Unused(c) /\ \A k \in Kinds : <<c, k>> \in Handle
  BY <1>1, CopyApart
<1>3. <<c, "staging">> \in alive
  BY <1>1 DEF IInv, CommandSide, CopyInv
<1>4. CountsInv' /\ alive' = alive \ {<<c, "staging">>}
  BY <1>1, <1>3, FreeAlive DEF IInv
<1>5. \A d \in Cmd : \A k \in Kinds :
        <<d, k>> \in alive' <=> ~ (d = c /\ k = "staging") /\ <<d, k>> \in alive
  BY <1>4
<1>6. alive' \cap (Program \cup {app}) = alive \cap (Program \cup {app})
  BY <1>2, <1>4, HandleFacts
<1> HIDE DEF c
<1>7. TypeOK'
  BY <1>1, <1>2, <1>4 DEF IInv, TypeOK, Returned, memory
<1>8. UnusedInv'
  BY <1>1, <1>5 DEF IInv, CommandSide, UnusedInv, Unused
<1>9. HeldInv' /\ AbandonedInv'
  BY <1>1, <1>2, <1>5, HandleFacts DEF IInv, TypeOK, CommandSide, HeldInv, AbandonedInv
<1>10. CopyInv' /\ LaunchInv'
  BY <1>1, <1>2 DEF CopyInv, LaunchInv, Returned
<1>11. SubmittedInv'
  BY <1>1 DEF IInv, CommandSide, SubmittedInv, c
<1>12. ProgramSide'
  BY <1>1, <1>6, ProgramFrame DEF IInv
<1> QED
  BY <1>4, <1>7, <1>8, <1>9, <1>10, <1>11, <1>12 DEF IInv, CommandSide

-----------------------------------------------------------------------------
(* The launch proper.                                                      *)
LEMMA LaunchBeginInv == ASSUME IInv, NEW c \in Cmd, LaunchBegin(c) PROVE IInv'
<1>1. /\ UNCHANGED <<importing, pending, signalled, held, abandoned, memory, copy, state>>
      /\ copy.at = "idle" /\ call.at = "begin"
  BY DEF LaunchBegin, Running, Up
<1>2. CASE /\ Take(c, Launching, {<<c, "cmd_buf">>}) /\ submitted' = Cleared(c)
           /\ call' = [at |-> "record", cmd |-> c, n |-> 1]
  <2> DEFINE what == Launching
  <2>1. what \in Job /\ what # NoJob /\ "cmd_buf" \in Kinds
    BY HandleFacts DEF Launching, Job, NoJob
  <2>2. /\ Take(c, what, {<<c, "cmd_buf">>}) /\ submitted' = Cleared(c)
        /\ UNCHANGED <<pending, signalled, held, abandoned>>
    BY <1>1, <1>2
  <2> HIDE DEF what
  <2>3. /\ CountsInv'
        /\ \A d \in Cmd : \A l \in Kinds :
             <<d, l>> \in alive' <=> IF d = c THEN l = "cmd_buf" ELSE <<d, l>> \in alive
        /\ alive' \cap (Program \cup {app}) = alive \cap (Program \cup {app})
        /\ job' \in [Cmd -> Job] /\ submitted' \in [Cmd -> BOOLEAN]
        /\ job'[c] = what /\ submitted'[c] = FALSE
        /\ \A d \in Cmd \ {c} : job'[d] = job[d] /\ submitted'[d] = submitted[d]
        /\ c \notin pending \cup signalled \cup held \cup abandoned
        /\ HeldInv' /\ AbandonedInv'
    BY <2>1, <2>2, TakeSlot
  <2>4. TypeOK'
    BY <1>1, <1>2, <2>3 DEF IInv, TypeOK, Places, RecordPlaces, memory
  <2>5. UnusedInv'
    BY <2>1, <2>3 DEF IInv, CommandSide, UnusedInv, Unused
  <2>6. LaunchInv'
    BY <1>1, <1>2, <2>3, HandleFacts DEF LaunchInv, what
  <2>7. CopyInv' /\ SubmittedInv'
    BY <1>1 DEF IInv, CommandSide, CopyInv, SubmittedInv
  <2>8. ProgramSide'
    <3>1. Program \subseteq alive' /\ app \in alive'
      BY <1>1, <2>3 DEF IInv, ProgramSide, ProgramInv, AppInv
    <3> QED
      BY <1>1, <1>2, <2>3, <3>1
      DEF IInv, ProgramSide, ProgramInv, AppInv, DownInv, RecordPlaces, LaunchPlaces
  <2> QED
    BY <2>3, <2>4, <2>5, <2>6, <2>7, <2>8 DEF IInv, CommandSide
<1>3. CASE Fails /\ Unused(c) /\ call' = Idle /\ UNCHANGED <<job, submitted, handles>>
  <2>1. alive' = alive /\ Program \subseteq alive /\ state = "up"
    BY <1>1, <1>3, KeepAlive DEF IInv, ProgramSide, ProgramInv, LaunchBegin, Running, Up
  <2>2. ProgramInv' /\ AppInv'
    BY <1>1, <1>3, <2>1
    DEF IInv, ProgramSide, ProgramInv, AppInv, Idle, At, LaunchPlaces, RecordPlaces
  <2> QED
    BY <1>1, <1>3, <2>1, <2>2, MovesInv
    DEF IInv, TypeOK, Idle, At, Places, LaunchPlaces, RecordPlaces, memory, commands
<1> QED
  BY <1>2, <1>3 DEF LaunchBegin

(* Whose the command of a launch is not.                                   *)
LEMMA LaunchApart ==
  ASSUME IInv, call.at \in RecordPlaces, copy.at = "idle"
  PROVE  /\ call.cmd \in Cmd /\ call.cmd \notin held /\ call.cmd \notin abandoned
         /\ ~ Unused(call.cmd) /\ job[call.cmd] = Launching
         /\ \A k \in Kinds : <<call.cmd, k>> \in Handle
         /\ call.cmd \notin pending \cup signalled
<1>1. call.cmd \in Cmd /\ call.cmd \notin held /\ job[call.cmd] = Launching
  BY DEF IInv, CommandSide, LaunchInv
<1>2. Launching.kind = "launch" /\ NoJob.kind = "none"
  BY DEF Launching, NoJob
<1>3. call.cmd \notin abandoned /\ ~ Unused(call.cmd)
  BY <1>1, <1>2 DEF IInv, CommandSide, AbandonedInv, Unused
<1>4. call.cmd \notin pending \cup signalled
  BY <1>1, <1>3 DEF IInv, CommandSide, SubmittedInv
<1> QED
  BY <1>1, <1>3, <1>4, HandleFacts

LEMMA RecordInv == ASSUME IInv, Record PROVE IInv'
<1> DEFINE c == call.cmd
<1>1. /\ UNCHANGED <<importing, commands, memory, copy>> /\ copy.at = "idle" /\ call.at = "record"
      /\ call' = [call EXCEPT !.at = "submit"] /\ state' \in {state, "crashed"}
  BY DEF Record, Running, Up, Crash
<1>2. /\ call' \in [at : Places, cmd : Cmd \cup {"none"}, n : {1, 2}]
      /\ call'.at = "submit" /\ call'.cmd = c
  BY <1>1 DEF IInv, TypeOK, Places, RecordPlaces
<1>3. /\ c \in Cmd /\ c \notin held /\ c \notin abandoned /\ ~ Unused(c) /\ job[c] = Launching
      /\ \A k \in Kinds : <<c, k>> \in Handle
  BY <1>1, LaunchApart DEF RecordPlaces
<1>4. <<c, "query_pool">> \notin alive
  BY <1>1 DEF IInv, CommandSide, LaunchInv, RecordPlaces
<1>5. CountsInv' /\ (alive' = alive \/ alive' = alive \cup {<<c, "query_pool">>})
  <2>1. CASE UNCHANGED handles
    BY <2>1, KeepAlive DEF IInv
  <2>2. CASE Create({<<c, "query_pool">>})
    BY <1>3, <1>4, <2>2, CreateAlive, HandleFacts DEF IInv
  <2> QED
    BY <2>1, <2>2 DEF Record
<1>6. \A d \in Cmd : \A k \in Kinds :
        /\ <<d, k>> \in alive => <<d, k>> \in alive'
        /\ <<d, k>> \in alive' => <<d, k>> \in alive \/ (d = c /\ k = "query_pool")
  BY <1>5
<1>7. alive' \cap (Program \cup {app}) = alive \cap (Program \cup {app})
  BY <1>3, <1>5, HandleFacts
<1> HIDE DEF c
<1>8. TypeOK'
  BY <1>1, <1>2, <1>5 DEF IInv, TypeOK, commands, memory
<1>9. UnusedInv' /\ HeldInv' /\ AbandonedInv'
  BY <1>1, <1>3, <1>6, HandleFacts
  DEF IInv, TypeOK, CommandSide, UnusedInv, HeldInv, AbandonedInv, commands, Unused
<1>10. CopyInv' /\ SubmittedInv'
  BY <1>1 DEF IInv, CommandSide, CopyInv, SubmittedInv, commands
<1>11. LaunchInv'
  BY <1>1, <1>2, <1>3, <1>6, HandleFacts DEF IInv, CommandSide, LaunchInv, commands, RecordPlaces, c
<1>12. ProgramSide'
  <2>1. Program \subseteq alive' /\ app \in alive'
    BY <1>1, <1>7 DEF IInv, ProgramSide, ProgramInv, AppInv, RecordPlaces
  <2> QED
    BY <1>1, <1>2, <1>7, <2>1
    DEF IInv, ProgramSide, ProgramInv, AppInv, DownInv, RecordPlaces, LaunchPlaces, commands
<1> QED
  BY <1>5, <1>8, <1>9, <1>10, <1>11, <1>12 DEF IInv, CommandSide

(* What SubmitFails destroys is all there is of the command: the fence is  *)
(* made and destroyed, or not made.                                        *)
LEMMA SubmitFailsAlive ==
  ASSUME IInv, call.at = "submit", copy.at = "idle", SubmitFails(call.cmd)
  PROVE  /\ CountsInv'
         /\ \A d \in Cmd : \A k \in Kinds :
              <<d, k>> \in alive' <=> d # call.cmd /\ <<d, k>> \in alive
         /\ alive' \cap (Program \cup {app}) = alive \cap (Program \cup {app})
<1> DEFINE c == call.cmd
           fence == <<c, "fence">>
<1>1. c \in Cmd /\ \A k \in Kinds : <<c, k>> \in Handle
  BY LaunchApart DEF RecordPlaces
<1>2. /\ ~ submitted[c] /\ <<c, "cmd_buf">> \in alive /\ fence \notin alive
      /\ <<c, "staging">> \notin alive
  BY DEF IInv, CommandSide, LaunchInv, RecordPlaces
<1>3. <<c, "query_pool">> \in alive <=> Live(<<c, "query_pool">>)
  BY <1>1, HandleFacts DEF alive
<1>4. CommandHandles(c) = {<<c, "cmd_buf">>} \cup {h \in {<<c, "query_pool">>} : h \in alive}
  BY <1>2, <1>3 DEF CommandHandles
<1>5. /\ CommandHandles(c) \subseteq alive /\ CommandHandles(c) \subseteq Of(c)
      /\ \A k \in Kinds : <<c, k>> \notin alive \ CommandHandles(c)
      /\ fence \notin CommandHandles(c) /\ fence \in Handle
  <2>1. CommandHandles(c) \subseteq alive /\ CommandHandles(c) \subseteq Of(c)
    BY <1>2, <1>4 DEF Of, Kinds
  <2>2. ASSUME NEW k \in Kinds PROVE <<c, k>> \notin alive \ CommandHandles(c)
    BY <1>2, <1>4 DEF Kinds
  <2> QED
    BY <1>1, <1>2, <2>1, <2>2, HandleFacts
<1>6. CountsInv' /\ alive' = alive \ CommandHandles(c)
  <2>1. CASE Free(CommandHandles(c))
    BY <1>5, <2>1, FreeAlive DEF IInv
  <2>2. CASE /\ created' = More(created, {fence})
             /\ freed' = More(freed, CommandHandles(c) \cup {fence})
    <3> DEFINE H == CommandHandles(c)
    <3> HIDE DEF H, fence, c
    <3>1. ASSUME NEW h \in Handle
          PROVE  /\ created'[h] \in Nat /\ freed'[h] \in Nat
                 /\ created'[h] = freed'[h] \/ created'[h] = freed'[h] + 1
                 /\ created'[h] > freed'[h] <=> h \in alive \ H
      <4>1. created'[h] = IF h = fence THEN created[h] + 1 ELSE created[h]
        BY <2>2 DEF More
      <4>2. freed'[h] = IF h \in H \/ h = fence THEN freed[h] + 1 ELSE freed[h]
        BY <2>2 DEF More, H
      <4>3. /\ created[h] \in Nat /\ freed[h] \in Nat
            /\ created[h] = freed[h] \/ created[h] = freed[h] + 1
            /\ created[h] > freed[h] <=> h \in alive
        BY DEF IInv, CountsInv, alive, Live
      <4> QED
        BY <1>2, <1>5, <4>1, <4>2, <4>3 DEF H
    <3>2. alive' = alive \ H
      BY <3>1 DEF alive, Live
    <3>3. created' \in [Handle -> Nat] /\ freed' \in [Handle -> Nat]
      BY <2>2, <3>1 DEF More
    <3> QED
      BY <3>1, <3>2, <3>3 DEF CountsInv, H
  <2> QED
    BY <2>1, <2>2 DEF SubmitFails
<1>7. alive' \cap (Program \cup {app}) = alive \cap (Program \cup {app})
  BY <1>1, <1>5, <1>6, HandleFacts
<1>8. \A d \in Cmd : \A k \in Kinds : <<d, k>> \in alive' <=> d # c /\ <<d, k>> \in alive
  BY <1>1, <1>5, <1>6, HandleFacts
<1> QED
  BY <1>6, <1>7, <1>8

LEMMA LaunchSubmitInv == ASSUME IInv, LaunchSubmit PROVE IInv'
<1> DEFINE c == call.cmd
<1>1. /\ UNCHANGED <<importing, abandoned, content, copy, state>>
      /\ copy.at = "idle" /\ call.at = "submit" /\ call' = Idle
  BY DEF LaunchSubmit, Running, Up
<1>2. /\ c \in Cmd /\ c \notin held /\ c \notin abandoned /\ ~ Unused(c) /\ job[c] = Launching
      /\ \A k \in Kinds : <<c, k>> \in Handle
      /\ c \notin pending \cup signalled
  BY <1>1, LaunchApart DEF RecordPlaces
<1>3. /\ call' \in [at : Places, cmd : Cmd \cup {"none"}, n : {1, 2}]
      /\ call'.at = "idle"
  BY <1>1 DEF Idle, At, Places
<1>4. Program \subseteq alive /\ app \in alive
  BY <1>1 DEF IInv, ProgramSide, ProgramInv, AppInv, RecordPlaces
<1>5. CopyInv'
  BY <1>1 DEF CopyInv
<1>6. LaunchInv'
  BY <1>3 DEF LaunchInv, RecordPlaces
<1>7. ASSUME alive' \cap (Program \cup {app}) = alive \cap (Program \cup {app}) PROVE ProgramSide'
  <2>1. Program \subseteq alive' /\ app \in alive'
    BY <1>4, <1>7
  <2>2. state' # "down"
    BY <1>1 DEF LaunchSubmit, Running, Up
  <2> QED
    BY <1>3, <2>1, <2>2 DEF ProgramSide, ProgramInv, AppInv, DownInv, LaunchPlaces, RecordPlaces
<1>8. CASE Submit(c) /\ held' = held \cup {c} /\ UNCHANGED job
  <2>1. /\ Create({<<c, "fence">>}) /\ submitted' = [submitted EXCEPT ![c] = TRUE]
        /\ pending' = pending \cup {c} /\ signalled' = signalled \ {c}
    BY <1>8 DEF Submit
  <2>2. /\ <<c, "fence">> \notin alive /\ <<c, "cmd_buf">> \in alive
        /\ <<c, "staging">> \notin alive
    BY <1>1 DEF IInv, CommandSide, LaunchInv, RecordPlaces
  <2>3. CountsInv' /\ alive' = alive \cup {<<c, "fence">>}
    BY <1>2, <2>1, <2>2, CreateAlive, HandleFacts DEF IInv
  <2>4. alive' \cap (Program \cup {app}) = alive \cap (Program \cup {app})
    BY <1>2, <2>3, HandleFacts
  <2> HIDE DEF c
  <2>5. TypeOK'
    BY <1>1, <1>2, <1>3, <1>8, <2>1, <2>3 DEF IInv, TypeOK
  <2>6. UnusedInv' /\ AbandonedInv'
    BY <1>1, <1>2, <1>8, <2>3, HandleFacts
    DEF IInv, TypeOK, CommandSide, UnusedInv, AbandonedInv, Unused
  <2>7. HeldInv'
    <3>1. /\ job' = job /\ submitted'[c] /\ \A d \in held : submitted[d] => submitted'[d]
          /\ \A d \in Cmd : \A k \in {"cmd_buf", "fence"} : <<d, k>> \in alive => <<d, k>> \in alive'
          /\ <<c, "fence">> \in alive'
          /\ \A d \in Cmd : <<d, "staging">> \in alive' => <<d, "staging">> \in alive
      BY <1>2, <1>8, <2>1, <2>3 DEF IInv, TypeOK
    <3>2. /\ held' = held \cup {c} /\ held \subseteq Cmd
          /\ \A d \in held : /\ job[d] = Launching /\ submitted[d] /\ <<d, "cmd_buf">> \in alive
                             /\ <<d, "fence">> \in alive /\ <<d, "staging">> \notin alive
      BY <1>8 DEF IInv, TypeOK, CommandSide, HeldInv
    <3> QED
      BY <1>2, <2>2, <3>1, <3>2 DEF HeldInv
  <2>8. SubmittedInv'
    BY <1>1, <1>2, <1>8, <2>1 DEF IInv, CommandSide, SubmittedInv
  <2> QED
    BY <1>5, <1>6, <1>7, <2>3, <2>4, <2>5, <2>6, <2>7, <2>8 DEF IInv, CommandSide
<1>9. CASE SubmitFails(c) /\ job' = [job EXCEPT ![c] = NoJob] /\ UNCHANGED held
  <2>1. UNCHANGED <<submitted, pending, signalled>>
    BY <1>9 DEF SubmitFails
  <2>2. /\ CountsInv'
        /\ \A d \in Cmd : \A k \in Kinds : <<d, k>> \in alive' <=> d # c /\ <<d, k>> \in alive
        /\ alive' \cap (Program \cup {app}) = alive \cap (Program \cup {app})
    BY <1>1, <1>9, SubmitFailsAlive
  <2>3. NoJob \in Job
    BY HandleFacts DEF NoJob, Job
  <2> HIDE DEF c
  <2>4. \A d \in Cmd \ {c} : job'[d] = job[d]
    BY <1>9 DEF IInv, TypeOK
  <2>5. TypeOK'
    BY <1>1, <1>3, <1>9, <2>1, <2>2, <2>3 DEF IInv, TypeOK
  <2>6. UnusedInv'
    BY <2>2, <2>4 DEF IInv, CommandSide, UnusedInv, Unused
  <2>7. HeldInv' /\ AbandonedInv'
    BY <1>1, <1>2, <1>9, <2>1, <2>2, <2>4, HandleFacts
    DEF IInv, TypeOK, CommandSide, HeldInv, AbandonedInv
  <2>8. SubmittedInv'
    BY <1>1, <1>9, <2>1 DEF IInv, CommandSide, SubmittedInv
  <2> QED
    BY <1>5, <1>6, <1>7, <2>2, <2>5, <2>6, <2>7, <2>8 DEF IInv, CommandSide
<1> QED
  BY <1>8, <1>9 DEF LaunchSubmit

LEMMA WaitCompletionInv == ASSUME IInv, NEW c \in Cmd, WaitCompletion(c) PROVE IInv'
<1>1. /\ UNCHANGED <<importing, submitted, pending, abandoned, memory, call, copy, state>>
      /\ copy.at = "idle" /\ call.at = "idle" /\ c \in held /\ c \in signalled
      /\ Free(CommandHandles(c)) /\ job' = [job EXCEPT ![c] = NoJob]
      /\ held' = held \ {c} /\ signalled' = signalled \ {c}
  BY DEF WaitCompletion, FenceSignalled, Running, Up
<1>2. /\ job[c] = Launching /\ submitted[c] /\ <<c, "cmd_buf">> \in alive
      /\ <<c, "fence">> \in alive /\ <<c, "staging">> \notin alive
  BY <1>1 DEF IInv, CommandSide, HeldInv
<1>3. c \notin abandoned /\ c \notin pending
  <2>1. Launching.kind = "launch"
    BY DEF Launching
  <2> QED
    BY <1>1, <1>2, <2>1 DEF IInv, CommandSide, AbandonedInv, SubmittedInv
<1>4. /\ CommandHandles(c) \subseteq alive /\ CommandHandles(c) \subseteq Of(c)
      /\ \A k \in Kinds : <<c, k>> \notin alive \ CommandHandles(c)
  BY <1>2, DestroySubmitted
<1>5. CountsInv' /\ alive' = alive \ CommandHandles(c)
  BY <1>1, <1>4, FreeAlive DEF IInv
<1>6. \A d \in Cmd : \A k \in Kinds : <<d, k>> \in alive' <=> d # c /\ <<d, k>> \in alive
  BY <1>4, <1>5, HandleFacts
<1>7. alive' \cap (Program \cup {app}) = alive \cap (Program \cup {app})
  BY <1>4, <1>5, HandleFacts
<1>8. NoJob \in Job
  BY HandleFacts DEF NoJob, Job
<1>9. TypeOK'
  BY <1>1, <1>5, <1>8 DEF IInv, TypeOK, memory
<1>10. \A d \in Cmd \ {c} : job'[d] = job[d]
  BY <1>1 DEF IInv, TypeOK
<1>11. UnusedInv'
  BY <1>6, <1>10 DEF IInv, CommandSide, UnusedInv, Unused
<1>12. HeldInv' /\ AbandonedInv'
  BY <1>1, <1>3, <1>6, <1>10, HandleFacts
  DEF IInv, TypeOK, CommandSide, HeldInv, AbandonedInv
<1>13. CopyInv' /\ LaunchInv'
  BY <1>1 DEF CopyInv, LaunchInv, RecordPlaces
<1>14. SubmittedInv'
  BY <1>1, <1>3 DEF IInv, CommandSide, SubmittedInv
<1>15. ProgramSide'
  BY <1>1, <1>7, ProgramFrame DEF IInv
<1> QED
  BY <1>5, <1>9, <1>11, <1>12, <1>13, <1>14, <1>15 DEF IInv, CommandSide

-----------------------------------------------------------------------------
LEMMA StutterInv == ASSUME IInv, UNCHANGED vars PROVE IInv'
<1>1. CountsInv' /\ alive' = alive
  BY KeepAlive DEF IInv, vars
<1>2. TypeOK'
  BY <1>1 DEF IInv, TypeOK, vars, commands, memory
<1>3. CommandSide'
  BY <1>1 DEF IInv, CommandSide, UnusedInv, HeldInv, AbandonedInv, CopyInv, LaunchInv, SubmittedInv,
     vars, commands, Unused, CopyJob, Target
<1>4. ProgramSide'
  BY <1>1 DEF IInv, ProgramSide, ProgramInv, AppInv, DownInv, vars, commands
<1> QED
  BY <1>1, <1>2, <1>3, <1>4 DEF IInv

LEMMA IInvStep == ASSUME IInv, [Next]_vars PROVE IInv'
<1>1. ASSUME NEW c \in Cmd,
             \/ Finish(c) \/ Fill(c) \/ Flush(c) \/ LaunchBegin(c) \/ WaitCompletion(c)
             \/ CopyFromBuffer(c) \/ \E v \in Value : CopyToBuffer(c, v)
      PROVE  IInv'
  BY <1>1, FinishInv, FillStepInv, FlushInv, LaunchBeginInv, WaitCompletionInv,
     CopyFromBufferInv, CopyToBufferInv
<1>2. CASE CopyBegin \/ CopySubmit \/ CopyDone \/ CopyTimesOut
  BY <1>2, CopyBeginInv, CopySubmitInv, CopyDoneInv, CopyTimesOutInv
<1>3. CASE Specialise \/ Allocate \/ Filled \/ Flushed \/ Record \/ LaunchSubmit
  BY <1>3, SpecialiseInv, AllocateInv, FilledInv, FlushedInv, RecordInv, LaunchSubmitInv
<1>4. CASE \/ AllocateBuffer \/ LaunchKernel \/ CallCopy("copy_to") \/ CallCopy("copy_from")
           \/ CopyReturns \/ DestroyBuffer \/ Shutdown
  BY <1>4, AllocateBufferInv, LaunchKernelInv, CallCopyInv, CopyReturnsInv, DestroyBufferInv,
     ShutdownInv
<1>5. CASE Ends \/ UNCHANGED vars
  BY <1>5, StutterInv DEF Ends
<1> QED
  BY <1>1, <1>2, <1>3, <1>4, <1>5 DEF Next

(* What is copied to or from exists.                                       *)
LEMMA TargetAlive ==
  ASSUME IInv, copy.at # "idle" PROVE Target \in alive /\ Target \in {block, data, app}
<1>1. call.at \in CopyPlaces
  BY DEF IInv, CommandSide, CopyInv
<1>2. app \in alive
  BY <1>1 DEF IInv, ProgramSide, AppInv, CopyPlaces
<1>3. CASE call.at = "filled"
  BY <1>3 DEF Target, resources, IInv, TypeOK, ProgramSide, ProgramInv, Program
<1>4. CASE call.at = "flushed"
  BY <1>4 DEF Target, IInv, ProgramSide, ProgramInv, Program
<1>5. CASE call.at \in {"copied_to", "copied_from"}
  BY <1>2, <1>5 DEF Target
<1> QED
  BY <1>1, <1>3, <1>4, <1>5 DEF CopyPlaces

THEOREM Invariance == Spec => []IInv
  BY InitIInv, IInvStep, PTL DEF Spec

(* Whichever Vulkan call failed or wait timed out (vk_runtime_dispatch.c,  *)
(* vk_runtime_buffer.c), each object is destroyed exactly once: never      *)
(* twice, and by the time its command or the program is gone.              *)
THEOREM EverythingReleased == Spec => []ReleasedExactly
<1>1. IInv => ReleasedExactly
  <2> SUFFICES ASSUME IInv PROVE ReleasedExactly
    OBVIOUS
  <2>1. ReleasedOnce
    BY DEF IInv, CountsInv, ReleasedOnce
  <2>2. ASSUME NEW c \in Cmd, Unused(c), NEW h \in Of(c) PROVE ~ Live(h)
    BY <2>2, HandleFacts DEF IInv, CommandSide, UnusedInv, alive, Of
  <2>3. ASSUME state = "down" PROVE ~ Live(pipeline) /\ ~ Live(block) /\ ~ Live(data)
    BY <2>3, HandleFacts DEF IInv, ProgramSide, DownInv, alive, Program
  <2> QED
    BY <2>1, <2>2, <2>3 DEF ReleasedExactly, NothingLeaked
<1> QED
  BY <1>1, Invariance, PTL

(* What the device executes keeps its command buffer, its fence and the    *)
(* buffers it reads and writes, unless a wait for it was given up          *)
(* (shd_rt_wait_completion, submit_buffer_copy).                           *)
THEOREM ExecutionKeepsWhatItUses == Spec => []NothingReleasedInUse
<1>1. IInv => NothingReleasedInUse
  <2> SUFFICES ASSUME IInv, NEW c \in pending \ abandoned, NEW h \in Uses(c) PROVE Live(h)
    BY DEF NothingReleasedInUse
  <2>0. \A g \in alive : Live(g)
    BY DEF alive
  <2>1. CASE c \in held
    <3>1. job[c] = Launching /\ <<c, "cmd_buf">> \in alive /\ <<c, "fence">> \in alive
      BY <2>1 DEF IInv, CommandSide, HeldInv
    <3>2. Program \subseteq alive /\ app \in alive
      BY <2>1 DEF IInv, ProgramSide, ProgramInv, AppInv
    <3>3. Uses(c) = {<<c, "cmd_buf">>, <<c, "fence">>} \cup {pipeline, block, data, app}
      BY <3>1 DEF Uses, Launching
    <3> QED
      BY <2>0, <3>1, <3>2, <3>3 DEF Program
  <2>2. CASE copy.at = "wait" /\ c = copy.cmd
    <3>1. /\ <<c, "cmd_buf">> \in alive /\ <<c, "fence">> \in alive
          /\ <<c, "staging">> \in alive /\ job[c] = CopyJob(c) /\ call.at \in CopyPlaces
      BY <2>2 DEF IInv, CommandSide, CopyInv
    <3>2. app \in alive
      BY <3>1 DEF IInv, ProgramSide, AppInv, CopyPlaces
    <3>3. Target \in alive
      BY <2>2, TargetAlive
    <3>4. /\ CopyJob(c).src \in {<<c, "staging">>, app} /\ CopyJob(c).dst \in {<<c, "staging">>, Target}
          /\ CopyJob(c).kind = "copy"
      BY DEF CopyJob, Copying
    <3>5. Uses(c) \subseteq {<<c, "cmd_buf">>, <<c, "fence">>, <<c, "staging">>, app, Target}
      BY <3>1, <3>4 DEF Uses
    <3> QED
      BY <2>0, <3>1, <3>2, <3>3, <3>5
  <2> QED
    BY <2>1, <2>2 DEF IInv, CommandSide, SubmittedInv
<1> QED
  BY <1>1, Invariance, PTL

-----------------------------------------------------------------------------
(* What is in the buffers.                                                 *)
LEMMA InitDInv == Init => DInv
<1> SUFFICES ASSUME Init PROVE DInv
  OBVIOUS
<1>1. /\ call.at = "idle" /\ copy.at = "idle" /\ held = {} /\ abandoned = {} /\ expects = "unknown"
      /\ lost = {}
  BY DEF Init, Idle, At, Returned
<1>2. created[data] = 0
  BY HandleFacts DEF Init
<1> QED
  BY <1>1, <1>2 DEF DInv, StrayInv, FillInv, ConstantsInv, Ready, BufferInv, AppKnown, ReadsBack

(* A step in which nothing that DInv speaks of changes.                    *)
LEMMA DFrame ==
  ASSUME DInv, UNCHANGED <<importing, memory, pending, signalled, held, abandoned, job, call, copy>>,
         created'[data] = created[data]
  PROVE  DInv'
  BY DEF DInv, StrayInv, FillInv, ConstantsInv, Ready, BufferInv, AppKnown, Settled, ReadsBack,
     memory, Failed, Target

(* The constants' data is made once, by prepare_resources.                 *)
LEMMA DataCreated ==
  ASSUME IInv, [Next]_vars, ~ Allocate PROVE created'[data] = created[data]
<1>0. data \in Handle /\ created \in [Handle -> Nat]
  BY HandleFacts DEF IInv, CountsInv
<1>1. ASSUME NEW H, data \notin H, Create(H) PROVE created'[data] = created[data]
  BY <1>0, <1>1 DEF Create, More
<1>2. ASSUME NEW c \in Cmd, NEW what, NEW k, Take(c, what, {<<c, k>>}), k \in Kinds
      PROVE  created'[data] = created[data]
  <2>1. data \notin Of(c) /\ data # <<c, k>>
    BY <1>2, HandleFacts DEF Program
  <2> QED
    BY <1>0, <1>2, <2>1 DEF Take
<1>3. \A c \in Cmd : \A k \in Kinds : data \notin {<<c, k>>}
  BY HandleFacts DEF Program
<1>4. ASSUME NEW c \in Cmd, NEW from, NEW to, NEW v, CopyStarts(c, from, to, v)
      PROVE  created'[data] = created[data]
  <2>1. ASSUME CannotMap(c) PROVE created'[data] = created[data]
    BY <1>0, <2>1, HandleFacts DEF CannotMap, More, Program
  <2> QED
    BY <1>2, <1>4, <2>1, HandleFacts DEF CopyStarts, handles
<1>5. ASSUME NEW c \in Cmd, \/ Fill(c) \/ Flush(c) \/ CopyFromBuffer(c)
                            \/ \E v \in Value : CopyToBuffer(c, v)
      PROVE  created'[data] = created[data]
  BY <1>4, <1>5 DEF Fill, Flush, CopyFromBuffer, CopyToBuffer, CopyTo, CopyFrom
<1>6. ASSUME NEW c \in Cmd, LaunchBegin(c) PROVE created'[data] = created[data]
  BY <1>2, <1>6, HandleFacts DEF LaunchBegin, handles
<1>7. ASSUME NEW c \in Cmd, Finish(c) \/ WaitCompletion(c) PROVE created'[data] = created[data]
  BY <1>7 DEF Finish, WaitCompletion, handles, Free
<1>8. CASE CopyBegin \/ CopySubmit
  <2>1. copy.cmd \in Cmd
    BY <1>8, CopyApart DEF CopyBegin, CopySubmit
  <2> QED
    BY <1>1, <1>3, <1>8, <2>1, HandleFacts DEF CopyBegin, CopySubmit, Submit, handles
<1>9. CASE CopyDone \/ CopyTimesOut \/ Filled \/ Flushed
  BY <1>9 DEF CopyDone, CopyTimesOut, Filled, Flushed, Free, handles
<1>10. CASE Specialise
  BY <1>1, <1>10, HandleFacts DEF Specialise, handles
<1>11. CASE Record \/ LaunchSubmit
  <2>1. call.cmd \in Cmd
    BY <1>11, LaunchApart DEF Record, LaunchSubmit, Running, RecordPlaces
  <2>2. data \notin {<<call.cmd, "fence">>}
    BY <1>3, <2>1, HandleFacts
  <2>3. CASE Record
    BY <1>1, <1>3, <2>1, <2>3, HandleFacts DEF Record, handles
  <2>4. CASE SubmitFails(call.cmd)
    BY <1>0, <2>2, <2>4 DEF SubmitFails, Free, More
  <2> QED
    BY <1>1, <1>11, <2>2, <2>3, <2>4 DEF LaunchSubmit, Submit
<1>12. CASE AllocateBuffer
  BY <1>1, <1>12, HandleFacts DEF AllocateBuffer
<1>13. CASE \/ LaunchKernel \/ CallCopy("copy_to") \/ CallCopy("copy_from") \/ CopyReturns
            \/ DestroyBuffer \/ Shutdown
  BY <1>13 DEF LaunchKernel, CallCopy, CopyReturns, DestroyBuffer, Shutdown, Free, handles
<1>14. CASE Ends \/ UNCHANGED vars
  BY <1>14 DEF Ends, vars, handles
<1> QED
  BY <1>5, <1>6, <1>7, <1>8, <1>9, <1>10, <1>11, <1>12, <1>13, <1>14 DEF Next

(* The device finishes a command: what it leaves where.                    *)
LEMMA FinishWrites ==
  ASSUME IInv, NEW c \in Cmd, Finish(c)
  PROVE  \/ /\ c \in held /\ content' = [content EXCEPT ![app] = "kernel"]
         \/ /\ c \in abandoned /\ c \notin held
            /\ job[c].dst # <<c, "staging">> \/ UNCHANGED content
            /\ \A h \in Handle \ {job[c].dst} : content'[h] = content[h]
         \/ /\ copy.at = "wait" /\ c = copy.cmd /\ c \notin held /\ call.at # "copied_from"
            /\ content' = [content EXCEPT ![Target] = content[<<c, "staging">>]]
         \/ /\ copy.at = "wait" /\ c = copy.cmd /\ c \notin held /\ call.at = "copied_from"
            /\ content' = [content EXCEPT ![<<c, "staging">>] = content[app]]
<1>1. /\ c \in pending
      /\ content' = IF Live(job[c].dst) THEN [content EXCEPT ![job[c].dst] = Effect(c)] ELSE content
  BY DEF Finish
<1>2. \A h \in alive : Live(h)
  BY DEF alive
<1>3. job[c].dst \in Handle /\ content \in [Handle -> Contents]
  BY DEF IInv, TypeOK, Job
<1>4. CASE c \in held
  <2>1. job[c] = Launching /\ app \in alive
    BY <1>4 DEF IInv, CommandSide, HeldInv, ProgramSide, AppInv
  <2>2. job[c].dst = app /\ job[c].kind = "launch"
    BY <2>1 DEF Launching
  <2> QED
    BY <1>1, <1>2, <1>4, <2>1, <2>2 DEF Effect
<1>5. CASE c \in abandoned /\ c \notin held
  <2>1. <<c, "staging">> \notin alive /\ <<c, "staging">> \in Handle
    BY <1>5, HandleFacts DEF IInv, CommandSide, AbandonedInv
  <2>2. ~ Live(<<c, "staging">>)
    BY <2>1 DEF alive
  <2>3. \A h \in Handle \ {job[c].dst} : content'[h] = content[h]
    BY <1>1, <1>3
  <2> QED
    BY <1>1, <1>5, <2>2, <2>3
<1>6. CASE copy.at = "wait" /\ c = copy.cmd
  <2>1. c \notin held /\ job[c] = CopyJob(c) /\ <<c, "staging">> \in alive
    BY <1>6, CopyApart DEF IInv, CommandSide, CopyInv
  <2>2. Target \in alive /\ app \in alive
    BY <1>6, TargetAlive DEF IInv, CommandSide, CopyInv, ProgramSide, AppInv, CopyPlaces
  <2>3. CASE call.at = "copied_from"
    <3>1. job[c].src = app /\ job[c].dst = <<c, "staging">> /\ job[c].kind = "copy"
      BY <2>1, <2>3 DEF CopyJob, Copying
    <3> QED
      BY <1>1, <1>2, <1>6, <2>1, <2>2, <2>3, <3>1 DEF Effect
  <2>4. CASE call.at # "copied_from"
    <3>1. job[c].src = <<c, "staging">> /\ job[c].dst = Target /\ job[c].kind = "copy"
      BY <2>1, <2>4 DEF CopyJob, Copying
    <3> QED
      BY <1>1, <1>2, <1>6, <2>1, <2>2, <2>4, <3>1 DEF Effect
  <2> QED
    BY <2>3, <2>4
<1> QED
  BY <1>1, <1>4, <1>5, <1>6 DEF IInv, CommandSide, SubmittedInv


LEMMA FinishD == ASSUME IInv, DInv, NEW c \in Cmd, Finish(c) PROVE DInv'
<1>1. /\ c \in pending /\ pending' = pending \ {c} /\ signalled' = signalled \cup {c}
      /\ UNCHANGED <<importing, job, held, abandoned, created, lost, expects, readback, call, copy>>
  BY DEF Finish, Up, handles
<1>2. StrayInv'
  BY <1>1 DEF DInv, StrayInv, Failed, Target
<1>3. /\ content \in [Handle -> Contents] /\ call.n \in {1, 2}
      /\ app \in Handle /\ block \in Handle /\ data \in Handle
      /\ app # block /\ app # data /\ block # data
  BY HandleFacts DEF IInv, TypeOK
<1>4. /\ copy.at # "idle" => /\ copy.cmd \in Cmd /\ <<copy.cmd, "staging">> \in Handle
                             /\ <<copy.cmd, "staging">> \notin {app, block, data}
                             /\ copy.cmd \notin abandoned /\ copy.cmd \notin held
                             /\ call.at \in CopyPlaces
      /\ Target \in {app, block, data}
      /\ call.at = "filled" => Target = resources[call.n]
      /\ call.at = "flushed" => Target = block
      /\ call.at \in {"copied_to", "copied_from"} => Target = app
      /\ resources[1] = block /\ resources[2] = data
  <2>1. copy.at # "idle" => call.at \in CopyPlaces
    BY DEF IInv, CommandSide, CopyInv
  <2> QED
    BY <1>3, <2>1, CopyApart, HandleFacts DEF Target, resources, Program
<1> DEFINE staged == <<copy.cmd, "staging">>
<1>5. CASE c \in held /\ content' = [content EXCEPT ![app] = "kernel"]
  <2>1. /\ content'[data] = content[data] /\ content'[block] = content[block]
        /\ content'[app] = "kernel"
        /\ copy.at # "idle" => content'[staged] = content[staged]
    BY <1>3, <1>4, <1>5
  <2>2. copy.at # "idle" => copy.cmd # c
    BY <1>4, <1>5
  <2>3. FillInv' /\ ConstantsInv' /\ ReadsBack'
    BY <1>1, <2>1, <2>2 DEF DInv, FillInv, ConstantsInv, Ready, ReadsBack
  <2>4. BufferInv'
    BY <1>1, <1>5, <2>1, <2>2 DEF DInv, BufferInv, AppKnown, Settled
  <2> QED
    BY <1>2, <2>3, <2>4 DEF DInv
<1>6. CASE /\ c \in abandoned /\ c \notin held
           /\ job[c].dst # <<c, "staging">> \/ UNCHANGED content
           /\ \A h \in Handle \ {job[c].dst} : content'[h] = content[h]
  <2>1. copy.at # "idle" => copy.cmd # c
    BY <1>4, <1>6
  <2>2. \/ UNCHANGED content
        \/ job[c].dst \in lost
        \/ Failed /\ job[c].dst = Target
    BY <1>6 DEF DInv, StrayInv
  <2>3. \A h \in Handle : content'[h] = content[h] \/ h \in lost \/ (Failed /\ h = Target)
    BY <1>6, <2>2
  <2>4. lost \subseteq {app, block, data}
    BY DEF DInv, StrayInv
  <2>5. copy.at # "idle" => content'[staged] = content[staged]
    BY <1>4, <2>3, <2>4 DEF Failed
  <2>6. /\ data \in lost \/ content'[data] = content[data] \/ (Failed /\ data = Target)
        /\ block \in lost \/ content'[block] = content[block] \/ (Failed /\ block = Target)
        /\ app \in lost \/ content'[app] = content[app] \/ (Failed /\ app = Target)
    BY <1>3, <2>3
  <2>7. Failed /\ Target # app => copy.at = "idle" /\ ~ copy.ok /\ call.at \in {"filled", "flushed"}
    BY <1>4 DEF Failed
  <2>8. Failed /\ Target = app => copy.at = "idle" /\ ~ copy.ok /\ call.at = "copied_to"
    BY <1>3, <1>4 DEF Failed
  <2>9. data \in lost \/ content'[data] = content[data]
                   \/ (copy.at = "idle" /\ ~ copy.ok /\ call.at = "filled")
    BY <1>3, <1>4, <2>6 DEF Failed
  <2>10. block \in lost \/ content'[block] = content[block] \/ call.at \in {"filled", "flushed"}
    BY <1>3, <2>6, <2>7
  <2>11. app \in lost \/ content'[app] = content[app]
                  \/ (copy.at = "idle" /\ ~ copy.ok /\ call.at = "copied_to")
    BY <1>3, <2>6, <2>8
  <2>12. FillInv'
    BY <1>1, <2>1, <2>5, <2>9 DEF DInv, FillInv
  <2>13. ConstantsInv'
    BY <1>1, <2>9, <2>10 DEF DInv, ConstantsInv, Ready, LaunchPlaces
  <2>14. BufferInv'
    BY <1>1, <1>6, <2>1, <2>5, <2>11 DEF DInv, BufferInv, AppKnown, Settled
  <2>15. ReadsBack'
    BY <1>1 DEF DInv, ReadsBack
  <2> QED
    BY <1>2, <2>12, <2>13, <2>14, <2>15 DEF DInv
<1>7. CASE /\ copy.at = "wait" /\ c = copy.cmd /\ c \notin held /\ call.at # "copied_from"
           /\ content' = [content EXCEPT ![Target] = content[<<c, "staging">>]]
  <2>1. /\ content'[staged] = content[staged] /\ content'[Target] = content[staged]
        /\ \A h \in {app, block, data} : h # Target => content'[h] = content[h]
    BY <1>3, <1>4, <1>7
  <2>2. CASE call.at = "filled" /\ call.n = 2
    <3>1. Target = data
      BY <1>4, <2>2
    <3>2. content[staged] = "default" /\ content'[data] = "default" /\ content'[app] = content[app]
          /\ content'[block] = content[block]
      BY <1>3, <1>7, <2>1, <2>2, <3>1 DEF DInv, FillInv
    <3>3. FillInv' /\ ConstantsInv' /\ ReadsBack'
      BY <1>1, <1>7, <2>1, <2>2, <3>2 DEF DInv, FillInv, ConstantsInv, Ready, ReadsBack
    <3>4. BufferInv'
      BY <1>1, <1>7, <2>2, <3>2 DEF DInv, BufferInv, AppKnown, Settled
    <3> QED
      BY <1>2, <3>3, <3>4 DEF DInv
  <2>3. CASE call.at = "flushed" \/ (call.at = "filled" /\ call.n = 1)
    <3>1. Target = block
      BY <1>4, <2>3
    <3>2. content'[data] = content[data] /\ content'[app] = content[app]
      BY <1>3, <2>1, <3>1
    <3>3. FillInv' /\ ConstantsInv' /\ ReadsBack'
      BY <1>1, <1>7, <2>3, <3>2 DEF DInv, FillInv, ConstantsInv, Ready, ReadsBack, LaunchPlaces
    <3>4. BufferInv'
      BY <1>1, <1>7, <2>3, <3>2 DEF DInv, BufferInv, AppKnown, Settled
    <3> QED
      BY <1>2, <3>3, <3>4 DEF DInv
  <2>4. CASE call.at = "copied_to"
    <3>1. content'[app] = content[staged] /\ content'[data] = content[data]
          /\ content'[block] = content[block]
      BY <1>3, <1>4, <2>1, <2>4
    <3>2. FillInv' /\ ConstantsInv' /\ ReadsBack'
      BY <1>1, <2>4, <3>1 DEF DInv, FillInv, ConstantsInv, Ready, ReadsBack
    <3>3. BufferInv'
      BY <1>1, <1>7, <2>1, <2>4, <3>1 DEF DInv, BufferInv, AppKnown, Settled
    <3> QED
      BY <1>2, <3>2, <3>3 DEF DInv
  <2> QED
    BY <1>3, <1>4, <1>7, <2>2, <2>3, <2>4 DEF CopyPlaces
<1>8. CASE /\ copy.at = "wait" /\ c = copy.cmd /\ c \notin held /\ call.at = "copied_from"
           /\ content' = [content EXCEPT ![<<c, "staging">>] = content[app]]
  <2>1. /\ content'[data] = content[data] /\ content'[block] = content[block]
        /\ content'[app] = content[app] /\ content'[staged] = content[app]
    BY <1>3, <1>4, <1>8
  <2>2. FillInv' /\ ConstantsInv' /\ ReadsBack'
    BY <1>1, <1>8, <2>1 DEF DInv, FillInv, ConstantsInv, Ready, ReadsBack
  <2>3. BufferInv'
    BY <1>1, <1>8, <2>1 DEF DInv, BufferInv, AppKnown, Settled
  <2> QED
    BY <1>2, <2>2, <2>3 DEF DInv
<1> QED
  BY <1>5, <1>6, <1>7, <1>8, FinishWrites

(* A copy is begun.                                                        *)
LEMMA CopyStartsD ==
  ASSUME IInv, DInv, UNCHANGED <<importing, lost>>, NEW c \in Cmd,
         NEW here \in {"fill", "flush", "copy_to", "copy_from"}, call.at = here,
         call'.at = CopyPlace(here), call'.n = call.n \/ here # "fill",
         NEW from \in Handle, NEW to \in Handle, NEW v, CopyStarts(c, from, to, v),
         created'[data] = created[data],
         here = "fill" /\ call.n = 2 => v = "default",
         expects' = IF here = "copy_to" THEN IF held = {} THEN v ELSE "unknown" ELSE expects
  PROVE  DInv'
<1>1. UNCHANGED <<pending, signalled, held, abandoned>> /\ copy.at = "idle" /\ call'.at \in CopyPlaces
  BY DEF CopyStarts, CopyPlace, CopyPlaces
<1>2. content \in [Handle -> Contents] /\ app \in Handle /\ block \in Handle /\ data \in Handle
  BY HandleFacts DEF IInv, TypeOK
<1>3. /\ UNCHANGED <<content[app], content[block], content[data]>>
      /\ \A d \in abandoned : job'[d] = job[d]
      /\ \/ copy'.at = "begin" /\ copy'.cmd = c /\ content'[<<c, "staging">>] = v /\ c \notin signalled
         \/ copy'.at = "idle" /\ ~ copy'.ok
  <2>1. CASE /\ Take(c, Copying(from, to), {<<c, "staging">>}) /\ submitted' = Cleared(c)
             /\ content' = [content EXCEPT ![<<c, "staging">>] = v]
             /\ copy' = [at |-> "begin", cmd |-> c, ok |-> FALSE]
    <3> DEFINE what == Copying(from, to)
    <3>1. what \in Job /\ "staging" \in Kinds
      BY DEF Copying, Job, Kinds
    <3>2. Take(c, what, {<<c, "staging">>})
      BY <2>1
    <3> HIDE DEF what
    <3>3. /\ \A d \in Cmd \ {c} : job'[d] = job[d]
          /\ c \notin pending \cup signalled \cup held \cup abandoned
      BY <1>1, <2>1, <3>1, <3>2, TakeSlot
    <3>4. <<c, "staging">> \in Handle /\ <<c, "staging">> \notin {app, block, data}
      BY <3>1, HandleFacts DEF Program
    <3> QED
      BY <1>2, <2>1, <3>3, <3>4 DEF IInv, TypeOK
  <2>2. CASE copy' = Returned(FALSE) /\ UNCHANGED <<job, submitted, content>>
    BY <2>2 DEF Returned
  <2> QED
    BY <2>1, <2>2 DEF CopyStarts
<1>4. StrayInv'
  BY <1>1, <1>3 DEF DInv, StrayInv, Failed
<1>5. FillInv'
  BY <1>1, <1>3 DEF FillInv, CopyPlace
<1>6. ConstantsInv'
  BY <1>1, <1>3 DEF DInv, ConstantsInv, Ready, LaunchPlaces, CopyPlace
<1>7. BufferInv'
  BY <1>1, <1>3 DEF DInv, BufferInv, AppKnown, Settled, CopyPlace
<1>8. ReadsBack'
  BY <1>3 DEF ReadsBack
<1> QED
  BY <1>4, <1>5, <1>6, <1>7, <1>8 DEF DInv

LEMMA FillD ==
  ASSUME IInv, DInv, NEW c \in Cmd, Fill(c), created'[data] = created[data] PROVE DInv'
<1> DEFINE to == resources[call.n]
<1> DEFINE from == <<c, "staging">>
<1> DEFINE v == InitialValue(to)
<1>1. /\ UNCHANGED <<importing, lost, expects>> /\ call.at = "fill"
      /\ call' = [call EXCEPT !.at = "filled"] /\ CopyStarts(c, from, to, v)
  BY DEF Fill, Running, Up, CopyTo
<1>2. call'.at = "filled" /\ call'.n = call.n
  BY <1>1 DEF IInv, TypeOK
<1>2a. to \in {block, data} /\ to \in Handle
  BY <1>2, HandleFacts DEF IInv, TypeOK, resources
<1>2b. from \in Handle
  BY HandleFacts DEF Kinds
<1>3. call.n = 2 => v = "default"
  BY HandleFacts DEF InitialValue, resources
<1> HIDE DEF to, from, v
<1> QED
  BY <1>1, <1>2, <1>2a, <1>2b, <1>3, CopyStartsD DEF CopyPlace

LEMMA FlushD ==
  ASSUME IInv, DInv, NEW c \in Cmd, Flush(c), created'[data] = created[data] PROVE DInv'
<1> DEFINE from == <<c, "staging">>
<1>1. /\ UNCHANGED <<importing, lost, expects>> /\ call.at = "flush" /\ call'.at = "flushed"
      /\ CopyStarts(c, from, block, "VkrBuffer")
  BY DEF Flush, Running, Up, CopyTo, At
<1>2. from \in Handle /\ block \in Handle
  BY HandleFacts DEF Kinds
<1> HIDE DEF from
<1> QED
  BY <1>1, <1>2, CopyStartsD DEF CopyPlace

LEMMA CopyToBufferD ==
  ASSUME IInv, DInv, NEW c \in Cmd, NEW v \in Value, CopyToBuffer(c, v), created'[data] = created[data]
  PROVE  DInv'
<1> DEFINE from == <<c, "staging">>
<1>1. /\ UNCHANGED <<importing, lost>> /\ call.at = "copy_to" /\ call'.at = "copied_to"
      /\ CopyStarts(c, from, app, v) /\ expects' = IF held = {} THEN v ELSE "unknown"
  BY DEF CopyToBuffer, Running, Up, CopyTo, At
<1>2. from \in Handle /\ app \in Handle
  BY HandleFacts DEF Kinds
<1> HIDE DEF from
<1> QED
  BY <1>1, <1>2, CopyStartsD DEF CopyPlace

LEMMA CopyFromBufferD ==
  ASSUME IInv, DInv, NEW c \in Cmd, CopyFromBuffer(c), created'[data] = created[data] PROVE DInv'
<1> DEFINE to == <<c, "staging">>
<1>1. /\ UNCHANGED <<importing, lost, expects>> /\ call.at = "copy_from" /\ call'.at = "copied_from"
      /\ CopyStarts(c, app, to, "garbage")
  BY DEF CopyFromBuffer, Running, Up, CopyFrom, At
<1>2. to \in Handle /\ app \in Handle
  BY HandleFacts DEF Kinds
<1> HIDE DEF to
<1> QED
  BY <1>1, <1>2, CopyStartsD DEF CopyPlace

(* The copy goes on.                                                       *)
LEMMA CopyGoesOnD ==
  ASSUME IInv, DInv, CopyBegin \/ CopySubmit, created'[data] = created[data] PROVE DInv'
<1>1. /\ UNCHANGED <<importing, memory, call, job, held, abandoned>>
      /\ pending \subseteq pending' /\ signalled' \subseteq signalled
      /\ copy' = copy \/ (copy.at # "idle" /\ copy'.at # "idle" /\ copy'.cmd = copy.cmd)
  BY DEF CopyBegin, CopySubmit, Submit, Up, commands, IInv, TypeOK
<1>2. StrayInv'
  BY <1>1 DEF DInv, StrayInv, memory, Failed, Target
<1>3. FillInv' /\ ConstantsInv' /\ ReadsBack'
  BY <1>1 DEF DInv, FillInv, ConstantsInv, Ready, ReadsBack, memory
<1>4. BufferInv'
  BY <1>1 DEF DInv, BufferInv, AppKnown, Settled, memory
<1> QED
  BY <1>2, <1>3, <1>4 DEF DInv

LEMMA CopyDoneD == ASSUME IInv, DInv, CopyDone PROVE DInv'
<1> DEFINE staged == <<copy.cmd, "staging">>
<1>1. /\ copy.at = "wait" /\ copy.cmd \in signalled
      /\ UNCHANGED <<importing, pending, held, abandoned, created, lost, expects, call>>
      /\ copy'.at = "idle" /\ copy'.ok
      /\ job' = [job EXCEPT ![copy.cmd] = NoJob]
      /\ content' = [content EXCEPT ![staged] = "garbage"]
      /\ readback' = IF job[copy.cmd].src = app THEN content[job[copy.cmd].dst] ELSE readback
  BY DEF CopyDone, FenceSignalled, Returned, Free, Up
<1>2. /\ copy.cmd \in Cmd /\ copy.cmd \notin abandoned /\ job[copy.cmd] = CopyJob(copy.cmd)
      /\ staged \in Handle /\ staged \notin {app, block, data} /\ call.at \in CopyPlaces
  BY <1>1, CopyApart, HandleFacts DEF Program, IInv, CommandSide, CopyInv, Kinds
<1>3. /\ content'[app] = content[app] /\ content'[block] = content[block] /\ content'[data] = content[data]
      /\ \A d \in abandoned : job'[d] = job[d]
  BY <1>1, <1>2, HandleFacts DEF IInv, TypeOK
<1>4. call.at = "copied_from" => readback' = content[staged]
  BY <1>1, <1>2 DEF CopyJob, Copying
<1>5. StrayInv'
  BY <1>1, <1>3 DEF DInv, StrayInv, Failed
<1>6. FillInv' /\ ConstantsInv'
  BY <1>1, <1>3 DEF DInv, FillInv, ConstantsInv, Ready
<1>7. BufferInv'
  BY <1>1, <1>3 DEF DInv, BufferInv, AppKnown, Settled
<1>8. ReadsBack'
  BY <1>1, <1>4 DEF DInv, ReadsBack, BufferInv, AppKnown
<1> QED
  BY <1>5, <1>6, <1>7, <1>8 DEF DInv

LEMMA CopyTimesOutD == ASSUME IInv, DInv, CopyTimesOut PROVE DInv'
<1>1. /\ copy.at = "wait"
      /\ UNCHANGED <<importing, job, pending, signalled, held, memory, created, call>>
      /\ abandoned' = abandoned \cup {copy.cmd} /\ copy'.at = "idle" /\ ~ copy'.ok
  BY DEF CopyTimesOut, Returned, Free, Up
<1>2. job[copy.cmd] = CopyJob(copy.cmd) /\ call.at \in CopyPlaces
  BY <1>1 DEF IInv, CommandSide, CopyInv
<1>3. Target' = Target /\ ~ Failed
  BY <1>1 DEF Target, Failed
<1>3a. job[copy.cmd].dst = <<copy.cmd, "staging">> \/ (Failed' /\ job[copy.cmd].dst = Target)
  <2>1. CASE call.at = "copied_from"
    BY <1>2, <2>1 DEF CopyJob, Copying
  <2>2. CASE call.at # "copied_from"
    BY <1>1, <1>2, <2>2 DEF CopyJob, Copying, Failed, CopyPlaces
  <2> QED
    BY <2>1, <2>2
<1>4. StrayInv'
  BY <1>1, <1>3, <1>3a DEF DInv, StrayInv, memory
<1>5. FillInv' /\ ConstantsInv' /\ ReadsBack'
  BY <1>1 DEF DInv, FillInv, ConstantsInv, Ready, ReadsBack, memory
<1>6. BufferInv'
  BY <1>1 DEF DInv, BufferInv, AppKnown, Settled, memory
<1> QED
  BY <1>4, <1>5, <1>6 DEF DInv

-----------------------------------------------------------------------------
(* The call moves on and no buffer changes.                                *)
LEMMA MovesD ==
  ASSUME DInv, UNCHANGED <<importing, memory, pending, held, abandoned>>, copy.at = "idle", copy'.at = "idle",
         \A c \in abandoned : job'[c] = job[c], call.at \notin CopyPlaces,
         call'.at \notin CopyPlaces \cup {"flush", "flushed"},
         call'.at \in LaunchPlaces \/ (call.at \notin LaunchPlaces /\ created'[data] = created[data])
  PROVE  DInv'
<1>1. StrayInv' /\ FillInv' /\ ReadsBack'
  BY DEF DInv, StrayInv, FillInv, ReadsBack, memory, Failed, CopyPlaces
<1>2. ConstantsInv'
  BY DEF DInv, ConstantsInv, Ready, memory
<1>3. BufferInv'
  BY DEF DInv, BufferInv, AppKnown, Settled, memory, CopyPlaces
<1> QED
  BY <1>1, <1>2, <1>3 DEF DInv

LEMMA CrashD ==
  ASSUME DInv, UNCHANGED <<importing, commands, handles, memory, call, copy>> PROVE DInv'
  BY DFrame DEF commands, handles

LEMMA SpecialiseD == ASSUME IInv, DInv, Specialise PROVE DInv'
<1>1. CASE call' = At("allocate")
  <2>1. /\ UNCHANGED <<importing, memory, pending, held, abandoned, job, copy>> /\ copy.at = "idle"
        /\ call.at = "specialise" /\ call'.at = "allocate"
    BY <1>1 DEF Specialise, Running, Up, commands, At
  <2> QED
    BY <2>1, MovesD DEF CopyPlaces, LaunchPlaces
<1>2. CASE UNCHANGED <<handles, call>>
  BY <1>2, CrashD DEF Specialise, Running, Up
<1> QED
  BY <1>1, <1>2 DEF Specialise

LEMMA AllocateD == ASSUME IInv, DInv, Allocate PROVE DInv'
<1>1. CASE call' = [call EXCEPT !.at = "fill"]
  <2>1. /\ UNCHANGED <<importing, memory, pending, held, abandoned, job, copy>> /\ copy.at = "idle"
        /\ call.at = "allocate" /\ call'.at = "fill"
    BY <1>1 DEF Allocate, Running, Up, commands, IInv, TypeOK
  <2> QED
    BY <2>1, MovesD DEF CopyPlaces, LaunchPlaces
<1>2. CASE UNCHANGED <<handles, call>>
  BY <1>2, CrashD DEF Allocate, Running, Up
<1> QED
  BY <1>1, <1>2 DEF Allocate

LEMMA RecordD == ASSUME IInv, DInv, Record, created'[data] = created[data] PROVE DInv'
<1>1. /\ UNCHANGED <<importing, memory, pending, held, abandoned, job, copy>> /\ copy.at = "idle"
      /\ call.at = "record" /\ call'.at = "submit"
  BY DEF Record, Running, Up, commands, IInv, TypeOK
<1> QED
  BY <1>1, MovesD DEF CopyPlaces, LaunchPlaces

LEMMA CallsD ==
  ASSUME IInv, DInv, LaunchKernel \/ CallCopy("copy_to") \/ CallCopy("copy_from") PROVE DInv'
<1>1. /\ UNCHANGED <<importing, memory, pending, held, abandoned, job, copy, created>> /\ copy.at = "idle"
      /\ call.at = "idle" /\ call'.at \in {"begin", "specialise", "copy_to", "copy_from"}
  BY DEF LaunchKernel, CallCopy, Calls, Running, Up, commands, handles, At
<1> QED
  BY <1>1, MovesD DEF CopyPlaces, LaunchPlaces

LEMMA LaunchBeginD ==
  ASSUME IInv, DInv, NEW c \in Cmd, LaunchBegin(c), created'[data] = created[data] PROVE DInv'
<1>1. /\ UNCHANGED <<importing, memory, pending, held, abandoned, copy>> /\ copy.at = "idle"
      /\ call.at = "begin" /\ call'.at \in {"record", "idle"}
  BY DEF LaunchBegin, Running, Up, Idle, At
<1>2. \A d \in abandoned : job'[d] = job[d]
  <2>1. CASE Unused(c) /\ job' = [job EXCEPT ![c] = Launching]
    <3>0. job[c].kind = "none"
      BY <2>1 DEF Unused, NoJob
    <3>1. c \notin abandoned
      BY <3>0 DEF IInv, CommandSide, AbandonedInv
    <3> QED
      BY <2>1, <3>1 DEF IInv, TypeOK
  <2> QED
    BY <2>1 DEF LaunchBegin, Take
<1> QED
  BY <1>1, <1>2, MovesD DEF CopyPlaces, LaunchPlaces

LEMMA LaunchSubmitD == ASSUME IInv, DInv, LaunchSubmit, created'[data] = created[data] PROVE DInv'
<1>1. /\ UNCHANGED <<importing, abandoned, content, lost, readback, copy>> /\ copy.at = "idle"
      /\ call.at = "submit" /\ call'.at = "idle" /\ call.cmd \in Cmd
  BY LaunchApart DEF LaunchSubmit, Running, Up, Idle, At, RecordPlaces
<1>2. call.cmd \notin abandoned
  <2>1. job[call.cmd] = Launching /\ Launching.kind = "launch"
    BY <1>1 DEF IInv, CommandSide, LaunchInv, RecordPlaces, Launching
  <2> QED
    BY <2>1 DEF IInv, CommandSide, AbandonedInv
<1>3. CASE /\ Submit(call.cmd) /\ held' = held \cup {call.cmd} /\ UNCHANGED job
           /\ expects' = IF held = {} \/ expects = "kernel" THEN "kernel" ELSE "unknown"
  <2>1. call.cmd \in held' \cap pending'
    BY <1>3 DEF Submit
  <2>2. StrayInv' /\ FillInv' /\ ConstantsInv' /\ ReadsBack'
    BY <1>1, <1>3 DEF DInv, StrayInv, FillInv, ConstantsInv, Ready, ReadsBack, Failed, LaunchPlaces
  <2>3. BufferInv'
    BY <1>1, <1>3, <2>1 DEF DInv, BufferInv, AppKnown, Settled
  <2> QED
    BY <2>2, <2>3 DEF DInv
<1>4. CASE /\ SubmitFails(call.cmd) /\ job' = [job EXCEPT ![call.cmd] = NoJob]
           /\ UNCHANGED <<held, expects>>
  <2>1. \A d \in abandoned : job'[d] = job[d]
    BY <1>2, <1>4 DEF IInv, TypeOK
  <2> QED
    BY <1>1, <1>4, <2>1, MovesD DEF CopyPlaces, LaunchPlaces, SubmitFails, memory
<1> QED
  BY <1>3, <1>4 DEF LaunchSubmit

LEMMA WaitCompletionD == ASSUME IInv, DInv, NEW c \in Cmd, WaitCompletion(c) PROVE DInv'
<1>1. /\ UNCHANGED <<importing, pending, abandoned, memory, call, copy, created>>
      /\ call.at = "idle" /\ copy.at = "idle" /\ held' = held \ {c} /\ c \in held /\ c \in signalled
      /\ job' = [job EXCEPT ![c] = NoJob]
  BY DEF WaitCompletion, Running, Up, FenceSignalled, Free
<1>2. held' \cap pending = held \cap pending
  BY <1>1 DEF IInv, CommandSide, SubmittedInv
<1>3. c \notin abandoned
  <2>1. job[c] = Launching /\ Launching.kind = "launch"
    BY <1>1 DEF IInv, CommandSide, HeldInv, Launching
  <2> QED
    BY <2>1 DEF IInv, CommandSide, AbandonedInv
<1>4. StrayInv' /\ FillInv' /\ ConstantsInv' /\ ReadsBack'
  BY <1>1, <1>3 DEF DInv, StrayInv, FillInv, ConstantsInv, Ready, ReadsBack, Failed, memory, IInv, TypeOK
<1>5. BufferInv'
  BY <1>1, <1>2 DEF DInv, BufferInv, AppKnown, Settled, memory
<1> QED
  BY <1>4, <1>5 DEF DInv

-----------------------------------------------------------------------------
(* The copy's outcome is taken note of.                                    *)
LEMMA FilledD == ASSUME IInv, DInv, Filled PROVE DInv'
<1>1. /\ UNCHANGED <<importing, job, pending, signalled, held, abandoned, created, expects, readback, copy>>
      /\ call.at = "filled" /\ copy.at = "idle" /\ Missed(resources[call.n])
      /\ content' = IF resources[call.n] = data THEN Stored ELSE content
  BY DEF Filled, Running, Up, commands, handles
<1>2. /\ app \in Handle /\ block \in Handle /\ data \in Handle
      /\ app # block /\ app # data /\ block # data
      /\ resources[1] = block /\ resources[2] = data /\ Len(resources) = 2
      /\ call.n \in {1, 2} /\ content \in [Handle -> Contents] /\ Target = resources[call.n]
  BY <1>1, HandleFacts DEF resources, IInv, TypeOK, Target
<1>3. call'.at = IF call.n = 1 THEN "allocate" ELSE IF importing THEN "begin" ELSE "flush"
  BY <1>1, <1>2 DEF Filled, At, IInv, TypeOK
<1>4. /\ content'[app] = content[app] /\ content'[data] = content[data]
      /\ importing /\ call.n = 2 => content'[block] = "pointers"
  BY <1>1, <1>2 DEF Stored
<1>5. lost' = IF copy.ok THEN lost ELSE lost \cup {Target}
  BY <1>1, <1>2 DEF Missed
<1>6. StrayInv'
  BY <1>1, <1>2, <1>5 DEF DInv, StrayInv, Failed
<1>7. FillInv' /\ ReadsBack'
  BY <1>3 DEF FillInv, ReadsBack
<1>8. ConstantsInv'
  BY <1>1, <1>2, <1>3, <1>4, <1>5 DEF DInv, FillInv, ConstantsInv, Ready, LaunchPlaces
<1>9. BufferInv'
  BY <1>1, <1>2, <1>3, <1>4, <1>5 DEF DInv, BufferInv, AppKnown, Settled
<1> QED
  BY <1>6, <1>7, <1>8, <1>9 DEF DInv

LEMMA FlushedD == ASSUME IInv, DInv, Flushed PROVE DInv'
<1>1. /\ UNCHANGED <<importing, job, pending, signalled, held, abandoned, created, content, expects, readback, copy>>
      /\ call.at = "flushed" /\ copy.at = "idle" /\ call'.at = "begin"
      /\ lost' = IF copy.ok THEN lost ELSE lost \cup {block}
  BY DEF Flushed, Running, Up, commands, handles, At, Missed
<1>2. app # block /\ Target = block
  BY <1>1, HandleFacts DEF Target
<1>3. StrayInv'
  BY <1>1, <1>2 DEF DInv, StrayInv, Failed
<1>4. FillInv' /\ ReadsBack' /\ ConstantsInv'
  BY <1>1 DEF DInv, FillInv, ConstantsInv, Ready, ReadsBack
<1>5. BufferInv'
  BY <1>1, <1>2 DEF DInv, BufferInv, AppKnown, Settled
<1> QED
  BY <1>3, <1>4, <1>5 DEF DInv

LEMMA CopyReturnsD == ASSUME IInv, DInv, CopyReturns PROVE DInv'
<1>1. /\ UNCHANGED <<importing, job, pending, signalled, held, abandoned, created, content, expects, readback, copy>>
      /\ call.at \in {"copied_to", "copied_from"} /\ copy.at = "idle" /\ call'.at = "idle"
      /\ lost' = IF call.at = "copied_to" /\ ~ copy.ok THEN lost \cup {app} ELSE lost
  BY DEF CopyReturns, Running, Up, commands, handles, Idle, At, Missed
<1>2. Target = app /\ app # block /\ app # data
  BY <1>1, HandleFacts DEF Target
<1>3. StrayInv'
  BY <1>1, <1>2 DEF DInv, StrayInv, Failed
<1>4. FillInv' /\ ReadsBack' /\ ConstantsInv'
  BY <1>1, <1>2 DEF DInv, FillInv, ConstantsInv, Ready, ReadsBack, LaunchPlaces
<1>5. BufferInv'
  BY <1>1, <1>2 DEF DInv, BufferInv, AppKnown, Settled
<1> QED
  BY <1>3, <1>4, <1>5 DEF DInv

LEMMA DInvStep == ASSUME IInv, DInv, [Next]_vars PROVE DInv'
<1>1. CASE Allocate
  BY <1>1, AllocateD
<1>2. CASE ~ Allocate
  <2>0. created'[data] = created[data]
    BY <1>2, DataCreated
  <2>1. ASSUME NEW c \in Cmd, \/ Finish(c) \/ Fill(c) \/ Flush(c) \/ LaunchBegin(c) \/ WaitCompletion(c)
                              \/ CopyFromBuffer(c) \/ \E v \in Value : CopyToBuffer(c, v)
        PROVE  DInv'
    BY <2>0, <2>1, FinishD, FillD, FlushD, LaunchBeginD, WaitCompletionD, CopyFromBufferD, CopyToBufferD
  <2>2. CASE CopyBegin \/ CopySubmit \/ CopyDone \/ CopyTimesOut
    BY <2>0, <2>2, CopyGoesOnD, CopyDoneD, CopyTimesOutD
  <2>3. CASE Specialise \/ Filled \/ Flushed \/ Record \/ LaunchSubmit
    BY <2>0, <2>3, SpecialiseD, FilledD, FlushedD, RecordD, LaunchSubmitD
  <2>4. CASE LaunchKernel \/ CallCopy("copy_to") \/ CallCopy("copy_from") \/ CopyReturns
    BY <2>4, CallsD, CopyReturnsD
  <2>5. CASE AllocateBuffer \/ DestroyBuffer \/ Shutdown
    BY <2>0, <2>5, DFrame DEF AllocateBuffer, DestroyBuffer, Shutdown, Calls, Running, Up, commands
  <2>6. CASE Ends \/ UNCHANGED vars
    BY <2>0, <2>6, DFrame DEF Ends, vars, commands
  <2> QED
    BY <1>2, <2>1, <2>2, <2>3, <2>4, <2>5, <2>6 DEF Next
<1> QED
  BY <1>1, <1>2

LEMMA ContentsInvariance == Spec => [](IInv /\ DInv)
<1>1. Init => IInv /\ DInv
  BY InitIInv, InitDInv
<1>2. IInv /\ DInv /\ [Next]_vars => IInv' /\ DInv'
  BY IInvStep, DInvStep
<1> QED
  BY <1>1, <1>2, PTL DEF Spec

(* A kernel finds in its constants what prepare_resources put there, in    *)
(* whatever order copies and kernels finish, and whatever copy that was    *)
(* given up still writes.                                                  *)
THEOREM ConstantsReachKernels == Spec => []KernelSeesItsConstants
<1>1. IInv /\ DInv => KernelSeesItsConstants
  <2> SUFFICES ASSUME IInv, DInv, NEW c \in pending, job[c].kind = "launch"
               PROVE  /\ data \in lost \/ content[data] = "default"
                      /\ importing => block \in lost \/ content[block] = "pointers"
    BY DEF KernelSeesItsConstants
  <2>1. c \notin abandoned
    BY DEF IInv, CommandSide, AbandonedInv
  <2>2. ~ (copy.at = "wait" /\ c = copy.cmd)
    BY CopyApart
  <2>3. c \in held
    BY <2>1, <2>2 DEF IInv, CommandSide, SubmittedInv
  <2>4. Program \subseteq alive /\ call.at \notin LaunchPlaces
    BY <2>3 DEF IInv, ProgramSide, ProgramInv
  <2>5. created[data] # 0
    BY <2>4, HandleFacts DEF Program, alive, Live, IInv, CountsInv
  <2> QED
    BY <2>4, <2>5 DEF DInv, ConstantsInv, Ready
<1> QED
  BY <1>1, ContentsInvariance, PTL

(* shd_rt_copy_from_buffer brings back what the last copy or kernel to     *)
(* complete left in the buffer.                                            *)
THEOREM CopyBringsBack == Spec => []ReadsBack
<1>1. DInv => ReadsBack
  BY DEF DInv
<1> QED
  BY <1>1, ContentsInvariance, PTL
=============================================================================
