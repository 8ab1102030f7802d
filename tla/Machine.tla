------------------------------ MODULE Machine ------------------------------
(***************************************************************************)
(* The control of the firmware: main.c, the handlers of machine.c and the  *)
(* two functions of ucode that run or compile code under a name space of   *)
(* the caller's choice.                                                    *)
(*                                                                         *)
(* Exceptions are long jumps: nlr_push chains a buffer that lives in a     *)
(* frame of the C stack, nlr_raise jumps to the newest one.  So the chain  *)
(* must always lead to frames that are still on the stack.  The host may   *)
(* call into the firmware at any instruction (Call_Handler), on top of     *)
(* whatever runs.  A frame of Python code (the interpreter's, outside this *)
(* repository) arms a buffer, selects the globals of its module, and puts  *)
(* back its caller's when it returns or lets an exception through.         *)
(***************************************************************************)
EXTENDS Integers, Sequences, SequencesExt

CONSTANTS Modules,  \* name spaces of Python code
          MaxDepth  \* bound: frames on the C stack

ASSUME ModulesAssumption == Modules /= {}
ASSUME DepthAssumption == MaxDepth \in Nat

VARIABLES stack,   \* the C stack, innermost frame last
          chain,   \* nlr_top and its predecessors: places in the stack
          context, \* mp_globals_get(), mp_locals_get()
          status   \* running, or fatal: __fatal_error has told the host

vars == <<stack, chain, context, status>>

(* "c" is a function of the port that calls a hook: stdio, delay, decoder *)
Kinds == {"main", "py", "c", "compile", "call", "host"}

(* Where main is: in its body, printing an exception, printing that the    *)
(* print failed, spinning in _exit.  Any other frame runs, or has just     *)
(* caught an exception.                                                    *)
Places == {"body", "print", "reprint", "exit", "run", "caught"}

Context == [globals : Modules, locals : Modules]

(* own: the context that a frame of Python code works in;                  *)
(* saved: what the frame puts back                                         *)
Frame == [kind : Kinds, at : Places, own : Context, saved : Context]

Top == stack[Len(stack)]
Caller == SubSeq(stack, 1, Len(stack) - 1)
Running == status = "running"
At(kinds, place) == Running /\ Top.kind \in kinds /\ Top.at = place

(* A frame on top of the stack, with or without an armed buffer *)
Push(kind, inner) ==
    /\ Len(stack) < MaxDepth
    /\ stack' = Append(stack, [kind |-> kind, at |-> "run",
                               own |-> inner, saved |-> context])
    /\ context' = inner
    /\ UNCHANGED status

Armed == chain' = Append(chain, Len(stack) + 1)
Disarmed == chain' = Front(chain)

(* Mutant of Jump: the buffer that was jumped to stays in the chain *)
Jump_unpopped(s, c) ==
    IF c = << >> THEN status' = "fatal" /\ stack' = s /\ chain' = c
    ELSE LET i == Last(c)
             f == s[i]
         IN  /\ stack' = Append(SubSeq(s, 1, i - 1),
                   [f EXCEPT !.at = CASE f.at = "body"  -> "print"
                                      [] f.at = "print" -> "reprint"
                                      [] OTHER          -> "caught"])
             /\ chain' = IF f.at = "body" THEN <<1>> ELSE c
             /\ UNCHANGED status

(* Mutant of Jump: main prints an exception without a second buffer *)
Jump_unguarded(s, c) ==
    IF c = << >> THEN status' = "fatal" /\ stack' = s /\ chain' = c
    ELSE LET i == Last(c)
             f == s[i]
         IN  /\ stack' = Append(SubSeq(s, 1, i - 1),
                   [f EXCEPT !.at = CASE f.at = "body"  -> "print"
                                      [] f.at = "print" -> "reprint"
                                      [] OTHER          -> "caught"])
             /\ chain' = Front(c)
             /\ UNCHANGED status

(* nlr_raise from a stack s with a chain c; nlr_jump_fail if it is empty.  *)
(* main arms a second buffer before it prints the exception.               *)
Jump(s, c) ==
    IF c = << >> THEN status' = "fatal" /\ stack' = s /\ chain' = c
    ELSE LET i == Last(c)
             f == s[i]
         IN  /\ stack' = Append(SubSeq(s, 1, i - 1),
                   [f EXCEPT !.at = CASE f.at = "body"  -> "print"
                                      [] f.at = "print" -> "reprint"
                                      [] OTHER          -> "caught"])
             /\ chain' = IF f.at = "body" THEN <<1>> ELSE Front(c)
             /\ UNCHANGED status

----------------------------------------------------------------------------
(* Reset_Handler and the beginning of main, in the name space of __main__ *)
Init == \E m \in Modules :
           LET main == [globals |-> m, locals |-> m]
           IN  /\ stack = <<[kind |-> "main", at |-> "body",
                             own |-> main, saved |-> main]>>
               /\ chain = <<1>>
               /\ context = main
               /\ status = "running"

(* Python code of module m is called: by main (the BIOS, the REPL, or the  *)
(* __repr__ of an exception's argument), as a hook, or by a function       *)
Enter(m) == /\ Running
            /\ Top.kind \in {"main", "c", "call", "host", "py"}
            /\ Top.at \notin {"caught", "exit"}
            /\ Push("py", [context EXCEPT !.globals = m])
            /\ Armed

Leave == /\ At({"py"}, "run")
         /\ stack' = Caller /\ Disarmed
         /\ context' = [context EXCEPT !.globals = Top.saved.globals]
         /\ UNCHANGED status

(* The except clause of a Python function arms its buffer again *)
Handle == /\ At({"py"}, "caught")
          /\ stack' = [stack EXCEPT ![Len(stack)].at = "run"]
          /\ chain' = Append(chain, Len(stack))
          /\ UNCHANGED <<context, status>>

(* mp_hal_stdio_tx_strn, mp_hal_stdin_rx_chr, mp_hal_delay_ms and          *)
(* oc_create_value: no buffer, an exception of the hook passes through     *)
CallC == At({"py", "call", "host"}, "run") /\ Push("c", context) /\ UNCHANGED chain

ReturnC == /\ At({"c"}, "run")
           /\ stack' = Caller
           /\ UNCHANGED <<chain, context, status>>

(* ucode.repl_compile(code, globals), ucode.repl_call(func, locals) *)
CallCompile(m) == /\ At({"py"}, "run")
                  /\ Push("compile", [context EXCEPT !.globals = m])
                  /\ Armed

CallCall(m) == /\ At({"py"}, "run")
               /\ Push("call", [context EXCEPT !.locals = m])
               /\ Armed

(* Mutant of Restored: locals are left as the called code had them *)
Restored_globals(f) == [context EXCEPT !.globals = f.saved.globals]

(* What repl_compile and repl_call put back, returning or raising *)
Restored(f) == IF f.kind = "compile"
               THEN [context EXCEPT !.globals = f.saved.globals]
               ELSE [context EXCEPT !.locals = f.saved.locals]

ReturnRepl == /\ At({"compile", "call"}, "run")
              /\ stack' = Caller /\ Disarmed
              /\ context' = Restored(Top)
              /\ UNCHANGED status

(* A frame that does not keep the exception puts back what it saved and    *)
(* raises it again                                                         *)
Propagate == /\ At({"py", "compile", "call"}, "caught")
             /\ context' = IF Top.kind = "py"
                           THEN [context EXCEPT !.globals = Top.saved.globals]
                           ELSE Restored(Top)
             /\ Jump(Caller, chain)

(* Any code may raise, at least MemoryError *)
Raise == /\ Running /\ Top.at \notin {"caught", "exit"}
         /\ Jump(stack, chain)
         /\ UNCHANGED context

(* Mutant of HostCalls: the handler runs without a buffer of its own *)
HostCalls_unguarded == Running /\ Push("host", context) /\ UNCHANGED chain

(* Call_Handler, on top of whatever runs; more than four arguments are     *)
(* fatal                                                                   *)
HostCalls == Running /\ Push("host", context) /\ Armed

BadHostCall == /\ At({"host"}, "run")
               /\ status' = "fatal"
               /\ UNCHANGED <<stack, chain, context>>

(* SYS_CONTROL_RETURN, with the result, or with 0 after an exception *)
ReturnToHost == /\ Running /\ Top.kind = "host"
                /\ stack' = Caller
                /\ chain' = IF Top.at = "run" THEN Front(chain) ELSE chain
                /\ UNCHANGED <<context, status>>

(* main: the message of an uncaught exception goes to __fatal_error *)
Report == /\ At({"main"}, "print") \/ At({"main"}, "reprint")
          /\ status' = "fatal"
          /\ UNCHANGED <<stack, chain, context>>

(* main: the REPL was left; nlr_pop, return 0, and _exit spins, where only *)
(* the host can break in                                                   *)
LeaveRepl == /\ At({"main"}, "body")
             /\ stack' = [stack EXCEPT ![1].at = "exit"] /\ Disarmed
             /\ UNCHANGED <<context, status>>

Next == \/ \E m \in Modules : Enter(m) \/ CallCompile(m) \/ CallCall(m)
        \/ Leave \/ Handle \/ CallC \/ ReturnC \/ ReturnRepl \/ Propagate
        \/ Raise \/ HostCalls \/ BadHostCall \/ ReturnToHost \/ Report
        \/ LeaveRepl

Spec == Init /\ [][Next]_vars

----------------------------------------------------------------------------
(* Frames with an armed buffer *)
Guarded(f) == \/ f.kind = "main" /\ f.at \in {"body", "print"}
              \/ f.kind \in {"py", "compile", "call", "host"} /\ f.at = "run"

(* The chain leads through the armed buffers of the frames on the stack,   *)
(* from the newest to the oldest, and through no other: no long jump ever  *)
(* lands in a frame that is gone or past its guarded part                  *)
(* (machine.c:59, 81; main.c:59, 91, 94; moducode.c:49, 60, 78, 84).       *)
ChainIsLive ==
    Running => /\ \A k \in 1 .. Len(chain) - 1 : chain[k] < chain[k + 1]
               /\ Range(chain) = {i \in 1 .. Len(stack) : Guarded(stack[i])}

(* Python code always finds the name spaces it was entered with, whatever  *)
(* was called, compiled, or raised and caught above it, and wherever the   *)
(* host broke in (moducode.c:44-66, 73-91).                                *)
ContextIsOwn == At({"py"}, "run") => context = Top.own

(* An exception is lost for want of a handler only when printing the       *)
(* failure of printing an uncaught exception fails too: before that main   *)
(* has a buffer left, and a call of the host has its own                   *)
(* (main.c:93-98, machine.c:59, 98).                                       *)
LastResort ==
    Running /\ chain = << >> /\ Top.at \notin {"caught", "exit"} =>
        stack[1].at = "reprint"

(* What the host interrupts is still there when its call returns: no       *)
(* exception crosses Call_Handler (machine.c:59, 84).                      *)
HostIsIsolated ==
    [][\A i \in 2 .. Len(stack) :
          stack[i].kind = "host" => /\ Len(stack') >= i - 1
                                    /\ SubSeq(stack', 1, i - 1) = SubSeq(stack, 1, i - 1)]_vars
=============================================================================
