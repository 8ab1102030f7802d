-------------------------------- MODULE UValue --------------------------------
(***************************************************************************)
(* Values of the host as objects of Python (moduvalue.c): the host keeps a *)
(* table of the values it has handed out, a reply names them by their      *)
(* handles, and the decoder of msgpack.c makes an object UValue of each,   *)
(* which it shows to the object hook, Python code that may do anything a   *)
(* program may, another call included, while the reply is half decoded.    *)
(* dispose() gives a value back.  What Python code can no longer reach the *)
(* garbage collector takes.                                                *)
(*                                                                         *)
(* The host hands every value out under a handle that is free, and lets go *)
(* of a handle only when it is disposed of.                                *)
(***************************************************************************)
EXTENDS Integers, Sequences, SequencesExt

CONSTANTS Handles,    \* the host's names of values
          Objects,    \* places of the heap for objects UValue
          None,       \* the value of an object that was disposed of
          MaxReplies  \* bound: replies being decoded, one inside another

ASSUME NoneAssumption == None \notin Handles
ASSUME RepliesAssumption == MaxReplies \in Nat

VARIABLES table,     \* the host's: handles handed out and not disposed of
          value,     \* the objects on the heap and the value of each
          held,      \* objects that Python code can reach
          decodes,   \* replies being decoded, innermost last
          hooked,    \* an object hook is set
          request,   \* the last operation on a value: as asked for, as sent
          collected, undelivered, \* history: handles lost with an object, and
                                  \* in a reply that was not decoded to its end
          doubtful   \* history: handles that an object kept, or that another
                     \* object was using, when the host let go of them

valueVars == <<table, value, held, decodes, hooked, request,
               collected, undelivered, doubtful>>

Operations == {"invoke", "call", "apply", "unapply"}

(* A reply in decodes is a record: pending, the handles still to be         *)
(* decoded; made, the objects already in its tuple; hook, whether the hook *)
(* runs on one of them; and of, the object whose dispose() it answers, if  *)
(* it does: dispose() clears the object after the reply is decoded, so     *)
(* until then the object has a value that the host has let go of           *)

Live == DOMAIN value
Innermost == Last(decodes)
InPython == decodes /= << >> => Innermost.hook
Pending == UNION {d.pending : d \in ToSet(decodes)}
Made == UNION {d.made : d \in ToSet(decodes)}
Disposing == UNION {d.of : d \in ToSet(decodes)}
Owners == Live \ Disposing
ValuesOf(objects) == {value[o] : o \in objects} \ {None}

ValueInit == /\ table = {} /\ value = << >> /\ held = {} /\ decodes = << >>
             /\ hooked = FALSE
             /\ request = [asked |-> "invoke", sent |-> "invoke"]
             /\ collected = {} /\ undelivered = {} /\ doubtful = {}

(* hook_value(func) *)
HookValue == /\ InPython
             /\ hooked' = ~hooked
             /\ UNCHANGED <<table, value, held, decodes, request, collected, undelivered, doubtful>>

(* The host, which keeps these handles, answers the dispose() of the       *)
(* objects of, or another call if there are none, with some values that it *)
(* enters in its table                                                     *)
Answer(kept, of) ==
    /\ InPython /\ Len(decodes) < MaxReplies
    /\ \E new \in SUBSET (Handles \ kept) :
          /\ table' = kept \cup new
          /\ decodes' = Append(decodes,
                               [pending |-> new, made |-> {}, hook |-> FALSE, of |-> of])
    /\ UNCHANGED <<value, held, hooked, collected, undelivered>>

Reply == Answer(table, {}) /\ UNCHANGED doubtful

(* A call that is not about a value, such as ucomponent.invoke *)
Component == Reply /\ UNCHANGED request

(* The number of the system call that each function makes *)
Sent(op) == IF op = "invoke" THEN "invoke" ELSE "call"

(* invoke, call, apply or unapply: the message names the value of o; the   *)
(* host raises SystemError for one that it does not have                   *)
Operate(o, op) ==
    /\ InPython /\ o \in held
    /\ request' = [asked |-> op, sent |-> Sent(op)]
    /\ \/ value[o] \in table /\ Reply
       \/ UNCHANGED <<table, value, held, decodes, hooked, collected, undelivered, doubtful>>

(* oc_create_value: a new object, shown to the hook if there is one *)
CreateValue(h, o) ==
    /\ decodes /= << >> /\ ~Innermost.hook
    /\ h \in Innermost.pending /\ o \notin Live
    /\ value' = [p \in Live \cup {o} |-> IF p = o THEN h ELSE value[p]]
    /\ held' = IF hooked THEN held \cup {o} ELSE held
    /\ decodes' = [decodes EXCEPT ![Len(decodes)] =
                      [pending |-> @.pending \ {h}, hook |-> hooked, of |-> @.of,
                       made |-> IF hooked THEN @.made ELSE @.made \cup {o}]]
    /\ UNCHANGED <<table, hooked, request, collected, undelivered, doubtful>>

(* The hook returns an object, in most programs the one it was shown, or   *)
(* anything else                                                           *)
HookReturns ==
    /\ decodes /= << >> /\ Innermost.hook
    /\ \E result \in SUBSET held :
          /\ \A o, p \in result : o = p
          /\ decodes' = [decodes EXCEPT ![Len(decodes)].hook = FALSE,
                                        ![Len(decodes)].made = @ \cup result]
    /\ UNCHANGED <<table, value, held, hooked, request, collected, undelivered, doubtful>>

(* An exception, of the hook, of a full heap, of a malformed reply or of   *)
(* one with an unknown status, goes through the decoder to its caller: the *)
(* rest of the reply is dropped, and nobody else has a copy; an object     *)
(* that was being disposed of keeps its value, which the host has not      *)
RaiseThrough ==
    /\ decodes /= << >>
    /\ undelivered' = undelivered \cup Innermost.pending
    /\ doubtful' = doubtful \cup ValuesOf(Innermost.of)
    /\ decodes' = Front(decodes)
    /\ UNCHANGED <<table, value, held, hooked, request, collected>>

(* The reply is decoded.  The caller gets its objects, as a result or as   *)
(* the arguments of a SystemError, and in the second case an object that   *)
(* was being disposed of keeps its value; or dispose() ignores the result  *)
(* and clears its object                                                   *)
Decoded ==
    /\ decodes /= << >> /\ ~Innermost.hook /\ Innermost.pending = {}
    /\ decodes' = Front(decodes)
    /\ \/ /\ held' = held \cup Innermost.made
          /\ doubtful' = doubtful \cup ValuesOf(Innermost.of)
          /\ UNCHANGED value
       \/ /\ Innermost.of /= {}
          /\ value' = [o \in Live |-> IF o \in Innermost.of THEN None ELSE value[o]]
          /\ UNCHANGED <<held, doubtful>>
    /\ UNCHANGED <<table, hooked, request, collected, undelivered>>

(* The host lets go of the value of o.  If the object is being disposed of *)
(* already, further out, this is a second message about a value that the   *)
(* host let go of before: a value that it has under the same handle now is *)
(* somebody else's                                                         *)
LetGo(o) == doubtful' = doubtful \cup (IF o \in Disposing THEN {value[o]} \cap table ELSE {})

(* Mutants of Dispose: the value is forgotten before the host has agreed;  *)
(* the value is not forgotten                                              *)
Dispose_early(o) ==
    /\ InPython /\ o \in held /\ value[o] /= None
    /\ value' = [value EXCEPT ![o] = None]
    /\ \/ table' = table \ {value[o]} /\ LetGo(o)
       \/ UNCHANGED <<table, doubtful>>
    /\ UNCHANGED <<held, decodes, hooked, request, collected, undelivered>>
Dispose_keeps(o) ==
    /\ InPython /\ o \in held /\ value[o] /= None
    /\ table' = table \ {value[o]} /\ LetGo(o)
    /\ UNCHANGED <<value, held, decodes, hooked, request, collected, undelivered>>

(* dispose(), also under the name __del__: nothing is done for an object   *)
(* that was cleared.  The host lets go of the value and answers nothing,   *)
(* and the object is cleared; or it lets go and answers something, which   *)
(* is decoded before the object is cleared; or it refuses, with or without *)
(* values in the exception, or there is no memory for the message, and the *)
(* object keeps its value                                                  *)
Dispose(o) ==
    /\ InPython /\ o \in held /\ value[o] /= None
    /\ \/ /\ table' = table \ {value[o]} /\ LetGo(o)
          /\ value' = [value EXCEPT ![o] = None]
          /\ UNCHANGED <<held, decodes, hooked, collected, undelivered>>
       \/ Answer(table \ {value[o]}, {o}) /\ LetGo(o)
       \/ Reply
       \/ UNCHANGED <<table, value, held, decodes, hooked, collected, undelivered, doubtful>>
    /\ UNCHANGED request

(* Python code drops its last reference *)
Forget(o) == /\ InPython /\ o \in held
             /\ held' = held \ {o}
             /\ UNCHANGED <<table, value, decodes, hooked, request, collected, undelivered, doubtful>>

(* Mutant of Reachable: the C stack is not scanned *)
Reachable_heap == held

(* gc_collect marks from the root pointers and from the C stack, where the *)
(* decoder keeps the tuple that it fills and dispose() its object          *)
Reachable == held \cup Made \cup Disposing

(* Objects UValue are allocated without a finaliser: __del__ is not run *)
Collect == /\ Live \ Reachable /= {}
           /\ value' = [o \in Live \cap Reachable |-> value[o]]
           /\ collected' = collected \cup ValuesOf(Live \ Reachable)
           /\ UNCHANGED <<table, held, decodes, hooked, request, undelivered, doubtful>>

ValueNext == \/ HookValue \/ Component \/ HookReturns \/ RaiseThrough \/ Decoded \/ Collect
             \/ \E o \in Objects : \/ Dispose(o) \/ Forget(o)
                                   \/ \E op \in Operations : Operate(o, op)
                                   \/ \E h \in Handles : CreateValue(h, o)

ValueSpec == ValueInit /\ [][ValueNext]_valueVars

----------------------------------------------------------------------------
(* No object is taken away while Python code, a tuple that is still being  *)
(* filled or a dispose() under way refers to it, although the hook may     *)
(* allocate, collect, drop the last reference of Python code and decode    *)
(* replies of its own in the middle of a reply                             *)
(* (gccollect.c:40-47, msgpack.c:87-91, moduvalue.c:15-16).                *)
NothingDangles == held \cup Made \cup Disposing \subseteq Live

(* An object that has a value, and is not being disposed of, has one that  *)
(* the host still knows, and no other such object and no reply under way   *)
(* has the same: dispose() gives back no value twice, nor one that was     *)
(* handed out again under the handle of another (moduvalue.c:13-16).  The  *)
(* one way around it is between moduvalue.c:15 and :16: a dispose() whose  *)
(* reply does not come back as a result, after the host has let go, and    *)
(* one that is called again from its own reply; `doubtful' has the handles *)
(* to which that happened, and the claim is about all the others.          *)
NoStaleValue ==
    /\ ValuesOf(Owners) \cup Pending \subseteq table \cup doubtful
    /\ ValuesOf(Owners) \cap Pending \subseteq doubtful
    /\ \A o, p \in Owners :
          value[o] = value[p] /\ value[o] \notin doubtful \cup {None} => o = p

(* The host never keeps a value that the firmware has forgotten: it is in  *)
(* an object, so that a dispose() that the host refused can be repeated,   *)
(* or in a reply under way, or it was lost in one of two known ways, with  *)
(* an object that was collected or with a reply whose decoding was cut     *)
(* short.  An object that is being disposed of does not count, as it is    *)
(* about to be cleared: what the host knows under its handle by then is    *)
(* another value (moduvalue.c:14-16, 57, 70; msgpack.c:114-119).           *)
NothingForgotten ==
    table \subseteq ValuesOf(Owners) \cup Pending \cup collected \cup undelivered

(* apply and unapply are operations of their own (uvalue.pyi:31-36,        *)
(* syscall_table.h:29-30): the host should be asked for what the program   *)
(* called.  It is not: both send SYS_VALUE_CALL (moduvalue.c:124-132).     *)
AskedIsSent == request.sent = request.asked
=============================================================================
