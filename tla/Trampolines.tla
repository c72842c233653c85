----------------------------- MODULE Trampolines -----------------------------
(***************************************************************************)
(* The machine code the tools write into the game: the one-shot calls the  *)
(* AFDEV loader points the game thread at, its LoadMap milestone hooks,    *)
(* and the date patch's stub.  Each runs in the middle of code that knows  *)
(* nothing of it.                                                          *)
(*                                                                         *)
(* Registers, stack slots and addresses hold symbolic values; a slot says  *)
(* what it is.  The stack's top is its last element; what pushad saves and *)
(* a date's seven arguments are one slot each.                             *)
(***************************************************************************)
EXTENDS Integers, Sequences

CONSTANTS
  Plans,   \* the loader's functions that send the thread on a call, in each order tried
  Dates    \* the years the game makes a date of

TrampolineAssumption ==
  /\ Dates \subseteq Int
  /\ Plans \subseteq Seq({"exec", "player", "worldinfo", "hide", "stop"})

VARIABLES
  eip,     \* the next instruction: a place and a position in it
  reg,     \* registers and flags
  fpu,     \* the x87 and SSE registers
  stack,   \* the thread's stack
  sent,    \* the function of each call so far
  home,    \* the instruction each call interrupted
  word,    \* its result word
  made,    \* the calls the trampolines have made: callee, this and arguments
  marker,  \* the LoadMap marker
  engine   \* GEngine

vars == <<eip, reg, fpu, stack, sent, home, word, made, marker, engine>>

Own == [eax |-> "own", ebx |-> 0, ecx |-> "own", edx |-> "own", flags |-> "own"]
Junk == "junk"
Slot(kind, v) == [is |-> kind, v |-> v]
Sentinel == "0xDEADC0DE"

-----------------------------------------------------------------------------
(* The code, an instruction a tuple.                                       *)

Enter == << <<"pushfd">>, <<"pushad">> >>
BadLeave == << <<"popfd">>, <<"popad">>, <<"pushhome">>, <<"ret">> >>
Leave == << <<"popad">>, <<"popfd">>, <<"pushhome">>, <<"ret">> >>

\* UTGameEngine::Exec on GEngine + 0x3C; without an engine straight to the end.
BadSkip == 11
Skip == 12
Exec == Enter \o
  << <<"set", "eax", "GEngine">>, <<"test", "eax">>, <<"jz", Skip>>,
     <<"set", "ecx", "GEngine+3C">>, <<"set", "eax", "GLog">>, <<"pushreg", "eax">>,
     <<"push", "Cmd">>, <<"call", "Exec">>, <<"store">> >> \o Leave

\* FExec::Exec of the local player, through its vtable.
PlayerExec == Enter \o
  << <<"set", "ecx", "Player+3C">>, <<"set", "eax", "vtable">>, <<"set", "edx", "slot0">>,
     <<"set", "eax", "GLog">>, <<"pushreg", "eax">>, <<"push", "Cmd">>,
     <<"call", "PlayerExec">>, <<"store">> >> \o Leave

\* The object is the world main() has read before: null or gone it is passed on as well.
WorldInfo == Enter \o
  << <<"set", "ecx", "GWorld">>, <<"push", "0">>, <<"call", "GetWorldInfo">>,
     <<"store">> >> \o Leave

Hide == Enter \o
  << <<"push", "0">>, <<"push", "0">>, <<"push", "0">>, <<"push", "0">>, <<"push", "0">>,
     <<"call", "ShowLoadingMovie">>, <<"mark", "1">> >> \o Leave

StopMovie == Enter \o
  << <<"push", "1">>, <<"call", "StopLoadingMovie">>, <<"mark", "1">> >> \o Leave

\* A milestone: the marker, the PUSH that stood here, and back behind it.
Hook == << <<"milestone">>, <<"push", "imm">>, <<"jmp", "afterpush">> >>

\* Years before 1900, signed, give way to a date of 2026; then the bytes the jump
\* replaced, which keep the year in EBX.
DateStub ==
  << <<"cmpyear">>, <<"jge", 4>>, <<"setdate">>,
     <<"locals">>, <<"pushebx">>, <<"loadyear">>, <<"jmp", "datebody">> >>

Code(f) == CASE f = "exec" -> Exec [] f = "player" -> PlayerExec [] f = "worldinfo" -> WorldInfo
             [] f = "hide" -> Hide [] f = "stop" -> StopMovie

\* What the engine's functions expect, and how many arguments each takes off the stack.
Callee == [Exec |-> [this |-> "GEngine+3C", args |-> <<"Cmd", "GLog">>],
           PlayerExec |-> [this |-> "Player+3C", args |-> <<"Cmd", "GLog">>],
           GetWorldInfo |-> [this |-> "GWorld", args |-> <<"0">>],
           ShowLoadingMovie |-> [this |-> "any", args |-> <<"0", "0", "0", "0", "0">>],
           StopLoadingMovie |-> [this |-> "any", args |-> <<"1">>]]

-----------------------------------------------------------------------------
(* The processor.                                                          *)

\* In the game's code and in the stubs, in a call's trampoline, in a function of the engine.
Address(place, call, pos) == [at |-> place, call |-> call, pos |-> pos]
Game(place) == Address(place, 0, 1)
Idle == <<Slot("word", "own")>>

Init ==
  /\ eip = Game("idle") /\ reg = Own /\ fpu = "own" /\ stack = Idle
  /\ sent = <<>> /\ home = <<>> /\ word = <<>> /\ made = {}
  /\ marker = 0 /\ engine \in {"none", "up"}

Top == stack[Len(stack)]
Drop(n) == SubSeq(stack, 1, Len(stack) - n)
Next1 == eip' = [eip EXCEPT !.pos = @ + 1]
Regs(r) == reg' = r /\ Next1 /\ UNCHANGED stack
Stacks(s) == stack' = s /\ Next1 /\ UNCHANGED reg

Running == CASE eip.at = "call" -> Code(sent[eip.call])
             [] eip.at = "hook" -> Hook [] eip.at = "datestub" -> DateStub
Instr == Running[eip.pos]
Is(op) == eip.at \in {"call", "hook", "datestub"} /\ Instr[1] = op
Misc == UNCHANGED <<sent, home, engine>>
Quiet == Misc /\ UNCHANGED <<word, made, marker, fpu>>

Load == Is("set") /\ Regs([reg EXCEPT ![Instr[2]] = Instr[3]])
Test == Is("test") /\ Regs([reg EXCEPT !.flags = IF engine = "none" THEN "zero" ELSE "nonzero"])
PushReg == Is("pushreg") /\ Stacks(Append(stack, Slot("word", reg[Instr[2]])))
PushEbx == Is("pushebx") /\ Stacks(Append(stack, Slot("ebx", reg.ebx)))
PushImm == Is("push") /\ Stacks(Append(stack, Slot("word", Instr[2])))
PushFd == Is("pushfd") /\ Stacks(Append(stack, Slot("flags", reg.flags)))
PushAd == Is("pushad") /\ Stacks(Append(stack, Slot("regs", reg)))
PopAd ==
  /\ Is("popad")
  /\ reg' = IF Top.is = "regs" THEN [Top.v EXCEPT !.flags = reg.flags]
            ELSE [Own EXCEPT !.eax = Junk, !.flags = reg.flags]
  /\ stack' = Drop(1) /\ Next1
PopFd ==
  /\ Is("popfd")
  /\ reg' = [reg EXCEPT !.flags = IF Top.is = "flags" THEN Top.v ELSE Junk]
  /\ stack' = Drop(1) /\ Next1
PushHome == Is("pushhome") /\ Stacks(Append(stack, Slot("address", home[eip.call])))
Jumps(to) == eip' = to /\ UNCHANGED <<reg, stack>>
Jz == Is("jz") /\ Jumps([eip EXCEPT !.pos = IF reg.flags = "zero" THEN Instr[2] ELSE @ + 1])
Jmp == Is("jmp") /\ Jumps(Game(Instr[2]))
Crashed == Address("crashed", 0, 1)
BackTo(slot) == IF slot.is = "address" THEN slot.v ELSE Crashed
Ret == Is("ret") /\ eip' = BackTo(Top) /\ stack' = Drop(1) /\ UNCHANGED reg

\* The seven arguments are one slot under the return address.
Year == stack[Len(stack) - 1].v
CmpYear == Is("cmpyear") /\ Regs([reg EXCEPT !.flags = IF Year >= 1900 THEN "ge" ELSE "less"])
Jge == Is("jge") /\ Jumps([eip EXCEPT !.pos = IF reg.flags = "ge" THEN Instr[2] ELSE @ + 1])
SetDate == Is("setdate") /\ Stacks([stack EXCEPT ![Len(stack) - 1] = Slot("date", 2026)])
Locals == Is("locals") /\ Stacks(Append(stack, Slot("word", "locals")))
LoadYear == Is("loadyear") /\ Regs([reg EXCEPT !.ebx = stack[Len(stack) - 3].v])

Compute ==
  /\ \/ Load \/ Test \/ PushReg \/ PushEbx \/ PushImm \/ PushFd \/ PushAd \/ PopAd \/ PopFd
     \/ PushHome \/ Jz \/ Jmp \/ Ret \/ CmpYear \/ Jge \/ SetDate \/ Locals \/ LoadYear
  /\ Quiet
Store ==
  /\ Is("store") /\ word' = [word EXCEPT ![eip.call] = reg.eax]
  /\ Next1 /\ Misc /\ UNCHANGED <<reg, fpu, stack, made, marker>>
Mark ==
  /\ Is("mark") /\ word' = [word EXCEPT ![eip.call] = Instr[2]]
  /\ Next1 /\ Misc /\ UNCHANGED <<reg, fpu, stack, made, marker>>
Milestone ==
  /\ Is("milestone") /\ marker' = 1
  /\ Next1 /\ Misc /\ UNCHANGED <<reg, fpu, stack, word, made>>

\* A call leaves its return address; the callee takes its arguments away, returns a
\* value and keeps EBX only, of the x87 and SSE registers what it happens not to use.
Arguments(n) == [k \in 1..n |-> stack[Len(stack) + 1 - k].v]
Call ==
  /\ Is("call")
  /\ LET f == Instr[2]
     IN  made' = made \cup {[call |-> eip.call, callee |-> f, this |-> reg.ecx,
                             args |-> Arguments(Len(Callee[f].args))]}
  /\ stack' = Append(stack, Slot("address", [eip EXCEPT !.pos = @ + 1]))
  /\ eip' = Address("engine", eip.call, 1)
  /\ Misc /\ UNCHANGED <<reg, fpu, word, marker>>
Returns ==
  /\ eip.at = "engine"
  /\ \E f \in DOMAIN Callee :
       /\ \E k \in DOMAIN Code(sent[eip.call]) : Code(sent[eip.call])[k] = <<"call", f>>
       /\ eip' = BackTo(Top) /\ stack' = Drop(1 + Len(Callee[f].args))
  /\ reg' = [reg EXCEPT !.eax = "result", !.ecx = Junk, !.edx = Junk, !.flags = Junk]
  /\ fpu' \in {fpu, Junk}
  /\ Misc /\ UNCHANGED <<word, made, marker>>

-----------------------------------------------------------------------------
(* The game's own code, and the loader.                                    *)

\* LoadMap comes to a milestone, and its caller takes the immediate again.
LoadMap ==
  /\ \/ eip = Game("idle") /\ eip' = Game("hook") /\ UNCHANGED stack
     \/ eip = Game("afterpush") /\ eip' = Game("idle") /\ stack' = Drop(1)
  /\ UNCHANGED reg /\ Quiet

\* Somebody makes a date of a year; the body of that function ends, which gives back
\* EBX and takes locals, return address and arguments away.
MakesDate(year) ==
  /\ eip = Game("idle") /\ eip' = Game("datestub")
  /\ stack' = stack \o <<Slot("date", year), Slot("address", Game("idle"))>>
  /\ UNCHANGED reg /\ Quiet
DateDone ==
  /\ eip = Game("datebody") /\ eip' = Game("idle")
  /\ stack' = Drop(4) /\ reg' = Own
  /\ Quiet

\* The loader suspends the thread at any instruction and points it at a trampoline.
\* The next call starts where the last one has not ended only after a time-out; the
\* time is not modelled.
Hijack(plan) ==
  /\ Len(sent) < Len(plan) /\ sent = SubSeq(plan, 1, Len(sent))
  /\ sent' = SubSeq(plan, 1, Len(sent) + 1)
  /\ home' = Append(home, eip) /\ word' = Append(word, Sentinel)
  /\ eip' = Address("call", Len(sent) + 1, 1)
  /\ UNCHANGED <<reg, fpu, stack, made, marker, engine>>

EngineComes ==
  /\ eip.at = "idle" /\ engine = "none" /\ engine' = "up"
  /\ UNCHANGED <<eip, reg, fpu, stack, sent, home, word, made, marker>>

Next ==
  \/ Compute \/ Store \/ Mark \/ Milestone \/ Call \/ Returns
  \/ LoadMap \/ (\E y \in Dates : MakesDate(y)) \/ DateDone
  \/ (\E plan \in Plans : Hijack(plan)) \/ EngineComes
Spec == Init /\ [][Next]_vars

-----------------------------------------------------------------------------
\* Wherever the thread is back in its own code, its general registers, flags and stack
\* are what that code left there, however many calls came in between, at whatever
\* instruction, one inside the other.  EBX holds the date's year in the date's body,
\* where the comparison has had the flags.
ThreadRestored ==
  /\ eip.at # "crashed"
  /\ eip.at = "idle" => reg = Own /\ stack = Idle
  /\ eip.at = "afterpush" => reg = Own /\ stack = Append(Idle, Slot("word", "imm")) /\ marker = 1
  /\ eip.at = "datebody" =>
       /\ \A r \in {"eax", "ecx", "edx"} : reg[r] = "own"
       /\ reg.ebx >= 1900
       /\ stack = Idle \o <<Slot("date", reg.ebx), Slot("address", Game("idle")),
                            Slot("word", "locals"), Slot("ebx", 0)>>

\* The loader's comments speak of the exact interrupted CPU state.  pushfd and pushad do
\* not save the x87 and SSE registers, and the function called may use them: after a call
\* this need not hold, and no run checks it.
CpuRestored == eip.at = "idle" => fpu = "own"

\* Each call gets the object and the arguments its trampoline was made with, of the kind
\* its function takes, an engine call only when there is an engine; and a result is
\* written for calls that were made.
CallsRight ==
  /\ \A c \in made : /\ c.args = Callee[c.callee].args
                     /\ Callee[c.callee].this \in {"any", c.this}
                     /\ c.callee = "Exec" => engine = "up"
  /\ \A i \in 1..Len(word) : word[i] # Sentinel =>
       /\ word[i] \in {"result", "1"}
       /\ \E c \in made : c.call = i
=============================================================================
