------------------------------- MODULE Delay -------------------------------
(***************************************************************************)
(* utime.sleep_ms / sleep_us: the waiting loops mp_hal_delay_ms and        *)
(* mp_hal_delay_us of mphalport.c.                                         *)
(*                                                                         *)
(* Both loops poll a tick counter of the host that wraps at Wrap (2^32).   *)
(* The millisecond loop yields to the host by calling the signal hook, a   *)
(* Python function: the hook may change the hook, raise, or sleep itself,  *)
(* so several loops can be suspended on the C stack at once ("frames").    *)
(* mp_handle_pending may run one scheduled callback, also Python code, in  *)
(* the middle of either loop.                                              *)
(*                                                                         *)
(* clock is the true time, which never wraps; the program only ever sees   *)
(* Ticks(unit).  The field "entered" of a frame is a history value: the    *)
(* true time of the call, that the code does not have.                     *)
(***************************************************************************)
EXTENDS Integers, Sequences

CONSTANTS Wrap,       \* 2^32, the range of a tick counter
          Requests,   \* arguments of the delay functions
          Hooks,      \* the callables a program installs as signal hook
          None,       \* mp_const_none
          MaxDepth,   \* bound: delays suspended on the C stack
          MaxLag,     \* bound: true time between two steps of the top delay
          MaxClock    \* bound: the end of the time that is explored

ASSUME WrapAssumption == Wrap \in Nat \ {0}
ASSUME RequestsAssumption == Requests \subseteq 1 .. (Wrap - 1)
ASSUME HooksAssumption == None \notin Hooks
ASSUME BoundsAssumption == MaxDepth \in Nat /\ MaxLag \in Nat /\ MaxClock \in Nat

VARIABLES clock,    \* true time, per unit
          hook,     \* MP_STATE_PORT(signal_hook_obj)
          frames,   \* the delays on the C stack, the innermost last
          crashed   \* __fatal_error has stopped the machine

vars == <<clock, hook, frames, crashed>>

Units == {"ms", "us"}

(* Where a delay is: evaluating its condition, about to run pending work,  *)
(* inside a scheduled callback, about to yield, inside the signal hook.    *)
Places == {"test", "pending", "callback", "yield", "hook"}

Frame == [unit : Units, start : 0 .. (Wrap - 1), wait : 1 .. (Wrap - 1),
          elapsed : 0 .. (Wrap - 1), at : Places,
          entered : Nat, seen : Nat]

Top == frames[Len(frames)]
OnStack == frames /= << >>
SetTop(f) == frames' = [frames EXCEPT ![Len(frames)] = f]
Pop == frames' = SubSeq(frames, 1, Len(frames) - 1)

(* mp_hal_ticks_ms, mp_hal_ticks_us *)
Ticks(unit) == clock[unit] % Wrap

(* Mutants of Elapsed: an absolute difference, a narrower integer *)
Elapsed_absolute(f) == IF Ticks(f.unit) >= f.start THEN Ticks(f.unit) - f.start
                                                   ELSE f.start - Ticks(f.unit)
Elapsed_narrow(f) == (Ticks(f.unit) - f.start) % (Wrap \div 2)

(* Unsigned subtraction: what "mp_hal_ticks_ms() - start" leaves *)
Elapsed(f) == (Ticks(f.unit) - f.start) % Wrap

(* Python code runs when no delay does, and inside hooks and callbacks *)
PythonRuns == ~crashed /\ (OnStack => Top.at \in {"hook", "callback"})

----------------------------------------------------------------------------
Init == /\ clock = [u \in Units |-> 0]
        /\ hook = None
        /\ frames = << >>
        /\ crashed = FALSE

(* machine.hook_signal(h) *)
HookSignal(h) == /\ PythonRuns
                 /\ hook' = h
                 /\ UNCHANGED <<clock, frames, crashed>>

(* utime.sleep_ms(n), utime.sleep_us(n): entry of the delay function *)
CallDelay(unit, n) ==
    /\ PythonRuns
    /\ Len(frames) < MaxDepth
    /\ clock[unit] + n <= MaxClock
    /\ frames' = Append(frames, [unit |-> unit, start |-> Ticks(unit),
                                 wait |-> n, elapsed |-> 0, at |-> "test",
                                 entered |-> clock[unit],
                                 seen |-> clock[unit]])
    /\ UNCHANGED <<clock, hook, crashed>>

(* The loop condition: the microsecond loop reads the counter in it, the   *)
(* millisecond loop uses the elapsed time computed at the end of its body. *)
Measured(f) == IF f.unit = "us" THEN Elapsed(f) ELSE f.elapsed

AtTest == ~crashed /\ OnStack /\ Top.at = "test"

Again == /\ AtTest
         /\ Measured(Top) < Top.wait
         /\ SetTop([Top EXCEPT !.at = "pending", !.seen = clock[Top.unit]])
         /\ UNCHANGED <<clock, hook, crashed>>

Return == /\ AtTest
          /\ Measured(Top) >= Top.wait
          /\ Pop
          /\ UNCHANGED <<clock, hook, crashed>>

AfterPending(f) == IF f.unit = "us" THEN "test" ELSE "yield"

(* mp_handle_pending finds nothing to do, or the scheduler is locked *)
NothingPending == /\ ~crashed /\ OnStack /\ Top.at = "pending"
                  /\ SetTop([Top EXCEPT !.at = AfterPending(Top)])
                  /\ UNCHANGED <<clock, hook, crashed>>

(* mp_handle_pending runs a scheduled callback, with the scheduler locked *)
RunCallback == /\ ~crashed /\ OnStack /\ Top.at = "pending"
               /\ \A i \in 1 .. Len(frames) : frames[i].at /= "callback"
               /\ SetTop([Top EXCEPT !.at = "callback"])
               /\ UNCHANGED <<clock, hook, crashed>>

(* The scheduler catches what a callback raises: it always comes back here *)
CallbackReturns == /\ ~crashed /\ OnStack /\ Top.at = "callback"
                   /\ SetTop([Top EXCEPT !.at = AfterPending(Top)])
                   /\ UNCHANGED <<clock, hook, crashed>>

(* signal_hook(ticks): the argument, what is left in ticks of the host, is  *)
(* only advice to the hook                                                  *)
Yield == /\ ~crashed /\ OnStack /\ Top.at = "yield"
         /\ hook /= None
         /\ SetTop([Top EXCEPT !.at = "hook"])
         /\ UNCHANGED <<clock, hook, crashed>>

(* __fatal_error("signal_hook is None") *)
NoHook == /\ ~crashed /\ OnStack /\ Top.at = "yield"
          /\ hook = None
          /\ crashed' = TRUE
          /\ UNCHANGED <<clock, hook, frames>>

(* Mutants of HookReturns: the hook is trusted to have waited as told, and *)
(* the elapsed time is not measured again                                  *)
HookReturns_trusting == /\ ~crashed /\ OnStack /\ Top.at = "hook"
                        /\ SetTop([Top EXCEPT !.at = "test", !.elapsed = Top.wait])
                        /\ UNCHANGED <<clock, hook, crashed>>
HookReturns_unmeasured == /\ ~crashed /\ OnStack /\ Top.at = "hook"
                          /\ SetTop([Top EXCEPT !.at = "test"])
                          /\ UNCHANGED <<clock, hook, crashed>>

HookReturns == /\ ~crashed /\ OnStack /\ Top.at = "hook"
               /\ SetTop([Top EXCEPT !.at = "test", !.elapsed = Elapsed(Top),
                                     !.seen = clock[Top.unit]])
               /\ UNCHANGED <<clock, hook, crashed>>

(* An exception of the hook leaves the delay function *)
HookRaises == /\ ~crashed /\ OnStack /\ Top.at = "hook"
              /\ Pop
              /\ UNCHANGED <<clock, hook, crashed>>

(* Time passes whatever the program does *)
Tick(unit) ==
    /\ clock[unit] < MaxClock
    /\ OnStack => clock[Top.unit] - Top.seen < MaxLag
    /\ clock' = [clock EXCEPT ![unit] = @ + 1]
    /\ UNCHANGED <<hook, frames, crashed>>

LoopStep == Again \/ Return \/ NothingPending \/ CallbackReturns
            \/ Yield \/ NoHook

Next == \/ \E h \in Hooks \cup {None} : HookSignal(h)
        \/ \E u \in Units, n \in Requests : CallDelay(u, n)
        \/ LoopStep \/ RunCallback \/ HookReturns \/ HookRaises
        \/ \E u \in Units : Tick(u)

Spec == Init /\ [][Next]_vars

(* The processor keeps executing the loop, time passes, and the hook and   *)
(* the callbacks return: a hook that does not return keeps the machine.    *)
Fairness == /\ WF_vars(LoopStep)
            /\ WF_vars(HookReturns)
            /\ \A u \in Units : WF_vars(Tick(u))

FairSpec == Spec /\ Fairness

----------------------------------------------------------------------------
TypeOK == /\ clock \in [Units -> Nat]
          /\ hook \in Hooks \cup {None}
          /\ frames \in Seq(Frame)
          /\ crashed \in BOOLEAN

(* What a suspended delay has in its registers never runs ahead of the     *)
(* true time: its start is the reading made at its call, and the elapsed   *)
(* time it compares next is at most the time since then, however many      *)
(* delays, callbacks and hooks ran above it meanwhile (mphalport.c:52).    *)
ElapsedIsTrue ==
    \A i \in 1 .. Len(frames) :
        LET f == frames[i]
        IN  /\ f.start = f.entered % Wrap
            /\ f.entered <= clock[f.unit]
            /\ f.elapsed <= clock[f.unit] - f.entered

(* A delay that returns has really waited for the time it was asked to,    *)
(* although its counter wraps, other delays ran inside its hook and the    *)
(* elapsed time it compares was read earlier (mphalport.c:45 and :58).     *)
SleepsLongEnough ==
    [][Return => clock[Top.unit] - Top.entered >= Top.wait]_vars

(* A delay stops at the first reading past its deadline: it is late by at  *)
(* most the time that passes in one turn of the loop, never by a wrap.     *)
(* This is about one delay alone, whose steps are at most MaxLag apart.    *)
OversleepBounded ==
    [][Return => clock[Top.unit] - Top.entered < Top.wait + 3 * MaxLag]_vars

(* Every delay ends: by returning, by the exception of its hook, or, when  *)
(* the program has removed the hook, by the fatal error (mphalport.c:50).  *)
SleepEnds == OnStack ~> (~OnStack \/ crashed)
============================================================================
