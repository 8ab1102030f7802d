---------------------------- MODULE PythonProofs ----------------------------
(***************************************************************************)
(* Proofs about what Python code stands on: Machine, for any number of     *)
(* frames and name spaces (the chain of buffers leads to live frames only, *)
(* every frame finds its name spaces, no exception crosses a call of the   *)
(* host, and none is lost but in the way that main foresees); UValue, for  *)
(* any number of values, objects and nested replies (whatever the object   *)
(* hooks do in the middle of a reply, no object dangles, no value is given *)
(* back twice, and none is kept by the host without a reason); and         *)
(* MpackWriter, for every capacity, message and pattern of failing         *)
(* allocations (the writer is memory safe, its buffer holds the message    *)
(* exactly, only memory can fail, and it implements MessageLog).           *)
(***************************************************************************)
EXTENDS Machine, UValue, MpackWriter, SequenceTheorems, TLAPS

-----------------------------------------------------------------------------
(* The machine: Machine *)

TypeOK == /\ stack \in Seq(Frame)
          /\ chain \in Seq(Nat)
          /\ context \in Context
          /\ status \in {"running", "fatal"}

MainFrame(f) == f.kind = "main" /\ f.at \in {"body", "print", "reprint", "exit"}

(* g may lie on f: only the host breaks into a frame that has caught an    *)
(* exception or that spins; a function of the port that has no buffer lies *)
(* on one that has; and g has changed only what it puts back               *)
Fits(f, g) ==
    /\ g.kind /= "main" /\ g.at \in {"run", "caught"}
    /\ f.at \in {"caught", "exit"} => g.kind = "host"
    /\ g.kind = "c" => g.at = "run" /\ Guarded(f)
    /\ g.saved = f.own
    /\ g.kind \in {"py", "compile"} => g.own.locals = g.saved.locals
    /\ g.kind = "call" => g.own.globals = g.saved.globals
    /\ g.kind \in {"c", "host"} => g.own = g.saved

Shape(s) == /\ s \in Seq(Frame) /\ Len(s) >= 1
            /\ MainFrame(s[1])
            /\ \A i \in 2 .. Len(s) : Fits(s[i - 1], s[i])

Increasing(c) == \A j, k \in 1 .. Len(c) : j < k => c[j] < c[k]
GuardedIn(s) == {i \in 1 .. Len(s) : Guarded(s[i])}

Linked(s, c) == c \in Seq(Nat) /\ Increasing(c) /\ Range(c) = GuardedIn(s)

(* The inductive invariant: ContextIsOwn for every frame, on top or not,   *)
(* at work or not                                                          *)
IInv == /\ TypeOK
        /\ Running => Shape(stack) /\ Linked(stack, chain) /\ context = Top.own
-----------------------------------------------------------------------------
(* Stacks *)

(* s with its frames from some place on replaced by one frame *)
LEMMA ShapeKept ==
    ASSUME NEW s, NEW t \in Seq(Frame), Shape(s),
           Len(t) \in 1 .. Len(s) + 1,
           \A k \in 1 .. Len(t) - 1 : t[k] = s[k],
           Len(t) = 1 => MainFrame(t[1]),
           Len(t) > 1 => Fits(s[Len(t) - 1], t[Len(t)])
    PROVE  Shape(t)
<1>1. Len(t) \in Nat /\ Len(s) \in Nat /\ Len(t) >= 1 /\ Len(t) <= Len(s) + 1
  <2>1. Len(t) \in Nat /\ Len(s) \in Nat  BY LenProperties DEF Shape
  <2>2. \A l, m \in Nat : l \in 1 .. m + 1 => l >= 1 /\ l <= m + 1  OBVIOUS
  <2>. QED  BY <2>1, <2>2
<1>2. MainFrame(t[1])
  <2>1. CASE Len(t) = 1  BY <2>1
  <2>2. CASE Len(t) > 1  BY <1>1, <2>2 DEF Shape
  <2>3. \A l \in Nat : l >= 1 => l = 1 \/ l > 1  OBVIOUS
  <2>4. Len(t) = 1 \/ Len(t) > 1  BY <1>1, <2>3
  <2>. QED  BY <2>1, <2>2, <2>4
<1>3. ASSUME NEW i \in 2 .. Len(t)  PROVE Fits(t[i - 1], t[i])
  <2>1. i - 1 \in 1 .. Len(t) - 1 /\ t[i - 1] = s[i - 1]  BY <1>1, <1>3
  <2>2. CASE i = Len(t)  BY <1>1, <1>3, <2>1, <2>2
  <2>3. CASE i < Len(t)
    <3>1. i \in 2 .. Len(s) /\ t[i] = s[i]  BY <1>1, <1>3, <2>3
    <3>. QED  BY <2>1, <3>1 DEF Shape
  <2>. QED  BY <1>1, <1>3, <2>2, <2>3
<1>. QED  BY <1>1, <1>2, <1>3 DEF Shape

LEMMA Pushed ==
    ASSUME NEW s, Shape(s), NEW g \in Frame
    PROVE  /\ Append(s, g) \in Seq(Frame) /\ Len(Append(s, g)) = Len(s) + 1
           /\ Append(s, g)[Len(s) + 1] = g
           /\ \A k \in 1 .. Len(s) : Append(s, g)[k] = s[k]
BY AppendProperties DEF Shape

(* The frames below place j *)
LEMMA Below ==
    ASSUME NEW s, Shape(s), NEW j \in 1 .. Len(s)
    PROVE  /\ SubSeq(s, 1, j - 1) \in Seq(Frame) /\ Len(SubSeq(s, 1, j - 1)) = j - 1
           /\ \A k \in 1 .. j - 1 : SubSeq(s, 1, j - 1)[k] = s[k]
<1>. DEFINE m == j - 1
<1>1. m \in Nat /\ m <= Len(s) /\ Len(s) \in Nat  BY LenProperties DEF Shape
<1>. HIDE DEF m
<1>2. \A k \in 1 .. m : s[k] \in Frame  BY <1>1, ElementOfSeq DEF Shape
<1>3. /\ SubSeq(s, 1, m) \in Seq(Frame)
      /\ Len(SubSeq(s, 1, m)) = IF 1 <= m THEN m - 1 + 1 ELSE 0
      /\ \A k \in 1 .. m - 1 + 1 : SubSeq(s, 1, m)[k] = s[1 + k - 1]
  BY <1>1, <1>2, SubSeqProperties
<1>4. m - 1 + 1 = m /\ (1 > m => m = 0) /\ \A k \in 1 .. m : 1 + k - 1 = k  BY <1>1
<1>5. /\ SubSeq(s, 1, m) \in Seq(Frame) /\ Len(SubSeq(s, 1, m)) = m
      /\ \A k \in 1 .. m : SubSeq(s, 1, m)[k] = s[k]
  BY <1>1, <1>3, <1>4
<1>. QED  BY <1>5 DEF m

(* The stack is cut at j, and its frame there changes to g *)
LEMMA CutAt ==
    ASSUME NEW s, Shape(s), NEW j \in 1 .. Len(s), NEW g \in Frame
    PROVE  LET t == Append(SubSeq(s, 1, j - 1), g)
           IN  /\ t \in Seq(Frame) /\ Len(t) = j /\ t[j] = g
               /\ \A k \in 1 .. j - 1 : t[k] = s[k]
<1>. DEFINE b == SubSeq(s, 1, j - 1)
            t == Append(b, g)
<1>1. Len(s) \in Nat /\ j \in Nat  BY LenProperties DEF Shape
<1>2. b \in Seq(Frame) /\ Len(b) = j - 1 /\ \A k \in 1 .. j - 1 : b[k] = s[k]
  BY Below
<1>. HIDE DEF b
<1>3. /\ t \in Seq(Frame) /\ Len(t) = Len(b) + 1 /\ t[Len(b) + 1] = g
      /\ \A k \in 1 .. Len(b) : t[k] = b[k]
  BY <1>2, AppendProperties
<1>. HIDE DEF t
<1>4. t \in Seq(Frame) /\ Len(t) = j /\ t[j] = g /\ \A k \in 1 .. j - 1 : t[k] = s[k]
  BY <1>1, <1>2, <1>3
<1>. QED  BY <1>4 DEF t, b

-----------------------------------------------------------------------------
(* Chains *)

LEMMA Ends ==
    ASSUME NEW c \in Seq(Nat), Increasing(c), c /= << >>
    PROVE  /\ Front(c) \in Seq(Nat) /\ Increasing(Front(c))
           /\ Last(c) \in Range(c) /\ Last(c) \in Nat
           /\ \A x \in Range(c) : x <= Last(c)
           /\ Range(Front(c)) = Range(c) \ {Last(c)}
<1>. DEFINE n == Len(c)
            m == n - 1
<1>1. n \in Nat \ {0} /\ DOMAIN c = 1 .. n /\ \A i \in 1 .. n : c[i] \in Nat
  BY EmptySeq, LenProperties, ElementOfSeq
<1>2. Last(c) = c[n] /\ Front(c) = SubSeq(c, 1, m)  BY DEF Last, Front
<1>. HIDE DEF n
<1>3. m \in Nat /\ n = m + 1  BY <1>1
<1>. HIDE DEF m
<1>4. /\ SubSeq(c, 1, m) \in Seq(Nat)
      /\ Len(SubSeq(c, 1, m)) = IF 1 <= m THEN m - 1 + 1 ELSE 0
      /\ \A i \in 1 .. m - 1 + 1 : SubSeq(c, 1, m)[i] = c[1 + i - 1]
  BY <1>1, <1>3, SubSeqProperties
<1>5. m - 1 + 1 = m /\ (1 > m => m = 0) /\ \A k \in 1 .. m : 1 + k - 1 = k  BY <1>3
<1>6. /\ Front(c) \in Seq(Nat) /\ Len(Front(c)) = m /\ DOMAIN Front(c) = 1 .. m
      /\ \A k \in 1 .. m : Front(c)[k] = c[k]
  BY <1>2, <1>3, <1>4, <1>5, LenProperties
<1>7. \A j, k \in 1 .. n : j < k => c[j] < c[k]  BY DEF Increasing, n
<1>8. Increasing(Front(c))  BY <1>3, <1>6, <1>7 DEF Increasing
<1>9. Last(c) \in Range(c) /\ Last(c) \in Nat  BY <1>1, <1>2 DEF Range
<1>10. \A x \in Range(c) : x <= Last(c)
  <2>1. ASSUME NEW i \in 1 .. n  PROVE c[i] <= c[n]
    BY <1>1, <1>7, <2>1
  <2>. QED  BY <1>1, <1>2, <2>1 DEF Range
<1>11. Range(Front(c)) = Range(c) \ {Last(c)}
  <2>1. ASSUME NEW i \in 1 .. m  PROVE c[i] /= c[n] /\ i \in 1 .. n
    BY <1>1, <1>3, <1>7, <2>1
  <2>2. \A i \in 1 .. n : i \in 1 .. m \/ i = n  BY <1>3
  <2>. QED  BY <1>1, <1>2, <1>6, <2>1, <2>2 DEF Range
<1>. QED  BY <1>6, <1>8, <1>9, <1>10, <1>11

LEMMA Extended ==
    ASSUME NEW c \in Seq(Nat), Increasing(c), NEW e \in Nat, \A x \in Range(c) : x < e
    PROVE  /\ Append(c, e) \in Seq(Nat) /\ Increasing(Append(c, e))
           /\ Range(Append(c, e)) = Range(c) \cup {e}
<1>. DEFINE n == Len(c)
            a == Append(c, e)
<1>1. n \in Nat /\ DOMAIN c = 1 .. n  BY LenProperties
<1>2. /\ a \in Seq(Nat) /\ Len(a) = n + 1 /\ a[n + 1] = e /\ DOMAIN a = 1 .. n + 1
      /\ \A i \in 1 .. n : a[i] = c[i]
  BY AppendProperties, LenProperties
<1>3. \A i \in 1 .. n : c[i] \in Range(c) /\ c[i] < e  BY <1>1 DEF Range
<1>4. \A j, k \in 1 .. n : j < k => c[j] < c[k]  BY DEF Increasing
<1>. HIDE DEF n, a
<1>5. Increasing(a)
  <2>. SUFFICES ASSUME NEW j \in 1 .. n + 1, NEW k \in 1 .. n + 1, j < k
                PROVE  a[j] < a[k]
    BY <1>2 DEF Increasing
  <2>1. j \in 1 .. n  BY <1>1
  <2>2. CASE k = n + 1  BY <1>2, <1>3, <2>1, <2>2
  <2>3. CASE k \in 1 .. n  BY <1>2, <1>4, <2>1, <2>3
  <2>. QED  BY <1>1, <2>2, <2>3
<1>6. Range(a) = Range(c) \cup {e}
  <2>1. 1 .. n + 1 = 1 .. n \cup {n + 1}  BY <1>1
  <2>. QED  BY <1>1, <1>2, <2>1 DEF Range
<1>. QED  BY <1>2, <1>5, <1>6 DEF a

(* The guarded frames of a stack t that differs from s at its top only *)
LEMMA GuardedAfter ==
    ASSUME NEW s, NEW t, Len(s) \in Nat, Len(t) \in 1 .. Len(s) + 1,
           \A k \in 1 .. Len(t) - 1 : t[k] = s[k]
    PROVE  GuardedIn(t) = {i \in GuardedIn(s) : i < Len(t)} \cup
                          {i \in {Len(t)} : Guarded(t[i])}
BY DEF GuardedIn
-----------------------------------------------------------------------------
(* Steps of the invariant *)

(* The stack changes at its top only, by one frame *)
LEMMA StackKept ==
    ASSUME NEW s, Shape(s), stack' \in Seq(Frame),
           Len(stack') \in 1 .. Len(s) + 1,
           \A k \in 1 .. Len(stack') - 1 : stack'[k] = s[k],
           Len(stack') = 1 => MainFrame(stack'[1]),
           Len(stack') > 1 => Fits(s[Len(stack') - 1], stack'[Len(stack')]),
           Linked(stack', chain'), context' \in Context, status' \in {"running", "fatal"},
           context' = stack'[Len(stack')].own
    PROVE  IInv'
<1>1. Shape(stack')  BY ShapeKept
<1>. QED  BY <1>1 DEF IInv, TypeOK, Shape, Running, Top, Linked

(* A fatal error: nothing more is asked of the stack *)
LEMMA FatalKept ==
    ASSUME status' = "fatal", stack' \in Seq(Frame), chain' \in Seq(Nat), context' \in Context
    PROVE  IInv'
BY DEF IInv, TypeOK, Running

LEMMA Facts ==
    ASSUME IInv, Running
    PROVE  /\ Shape(stack) /\ Linked(stack, chain) /\ context = Top.own
           /\ Len(stack) \in Nat /\ Len(stack) >= 1
           /\ Top \in Frame /\ context \in Context /\ Top.own \in Context
           /\ \A i \in 1 .. Len(stack) : stack[i] \in Frame
<1>1. Shape(stack) /\ Linked(stack, chain) /\ context = Top.own  BY DEF IInv
<1>2. stack \in Seq(Frame) /\ context \in Context  BY DEF IInv, TypeOK
<1>3. Len(stack) \in Nat /\ Len(stack) >= 1  BY <1>1, <1>2, LenProperties DEF Shape
<1>4. \A i \in 1 .. Len(stack) : stack[i] \in Frame  BY <1>2, ElementOfSeq
<1>5. Top \in Frame  BY <1>3, <1>4 DEF Top
<1>. QED  BY <1>1, <1>2, <1>3, <1>4, <1>5

(* What a frame on top of the first looks like *)
LEMMA TopFits ==
    ASSUME IInv, Running, Len(stack) > 1
    PROVE  Fits(stack[Len(stack) - 1], Top)
BY Facts DEF Shape, Top

LEMMA OnlyMainIsFirst ==
    ASSUME IInv, Running
    PROVE  Top.kind = "main" <=> Len(stack) = 1
<1>1. Len(stack) = 1 => Top.kind = "main"  BY Facts DEF Shape, MainFrame, Top
<1>2. Len(stack) > 1 => Top.kind /= "main"  BY TopFits DEF Fits
<1>3. Len(stack) = 1 \/ Len(stack) > 1
  <2>1. \A l \in Nat : l >= 1 => l = 1 \/ l > 1  OBVIOUS
  <2>. QED  BY <2>1, Facts
<1>4. Len(stack) > 1 => Len(stack) /= 1
  <2>1. \A l \in Nat : l > 1 => l /= 1  OBVIOUS
  <2>. QED  BY <2>1, Facts
<1>. QED  BY <1>1, <1>2, <1>3, <1>4

(* A frame is pushed *)
LEMMA PushKeeps ==
    ASSUME IInv, Running, NEW kind \in Kinds, NEW inner \in Context, Push(kind, inner),
           Fits(Top, [kind |-> kind, at |-> "run", own |-> inner, saved |-> context]),
           IF Guarded([kind |-> kind, at |-> "run", own |-> inner, saved |-> context])
           THEN Armed ELSE chain' = chain
    PROVE  IInv'
<1>. DEFINE g == [kind |-> kind, at |-> "run", own |-> inner, saved |-> context]
            n == Len(stack)
<1>1. g \in Frame /\ g.own = inner  BY Facts DEF Frame, Places
<1>2. /\ stack' = Append(stack, g) /\ context' = inner /\ status' = status
  BY DEF Push
<1>3. Fits(stack[n], g)  BY DEF Top
<1>. HIDE DEF g
<1>4. /\ stack' \in Seq(Frame) /\ Len(stack') = n + 1 /\ stack'[n + 1] = g
      /\ \A k \in 1 .. n : stack'[k] = stack[k]
  BY <1>1, <1>2, Facts, Pushed
<1>5. n \in Nat /\ n >= 1 /\ Shape(stack) /\ Linked(stack, chain)  BY Facts
<1>. HIDE DEF n
<1>6. Linked(stack', chain')
  <2>1. /\ chain \in Seq(Nat) /\ Increasing(chain) /\ Range(chain) = GuardedIn(stack)
    BY <1>5 DEF Linked
  <2>2. \A x \in Range(chain) : x < n + 1  BY <1>5, <2>1 DEF GuardedIn, n
  <2>3. GuardedIn(stack') = GuardedIn(stack) \cup {i \in {n + 1} : Guarded(g)}
    <3>1. 1 .. n + 1 = 1 .. n \cup {n + 1}  BY <1>5
    <3>. QED  BY <1>4, <1>5, <3>1 DEF GuardedIn, n
  <2>4. CASE Guarded(g)
    <3>1. chain' = Append(chain, n + 1)  BY <2>4 DEF Armed, g, n
    <3>2. /\ chain' \in Seq(Nat) /\ Increasing(chain')
          /\ Range(chain') = Range(chain) \cup {n + 1}
      <4>1. n + 1 \in Nat  BY <1>5
      <4>2. /\ Append(chain, n + 1) \in Seq(Nat) /\ Increasing(Append(chain, n + 1))
            /\ Range(Append(chain, n + 1)) = Range(chain) \cup {n + 1}
        BY <2>1, <2>2, <4>1, Extended
      <4>. QED  BY <3>1, <4>2
    <3>. QED  BY <2>1, <2>3, <2>4, <3>2 DEF Linked
  <2>5. CASE ~Guarded(g)
    <3>1. chain' = chain  BY <2>5 DEF g
    <3>. QED  BY <2>1, <2>3, <2>5, <3>1 DEF Linked
  <2>. QED  BY <2>4, <2>5
<1>7. status' \in {"running", "fatal"}  BY <1>2 DEF IInv, TypeOK
<1>8. n + 1 > 1 /\ n + 1 - 1 = n /\ n + 1 \in 1 .. n + 1  BY <1>5
<1>. QED
  BY <1>1, <1>2, <1>3, <1>4, <1>5, <1>6, <1>7, <1>8, StackKept DEF n

(* The top frame is left: it has put back what it changed *)
LEMMA PopKeeps ==
    ASSUME IInv, Running, Len(stack) > 1, stack' = Caller,
           IF Guarded(Top) THEN Disarmed ELSE chain' = chain,
           context' = Top.saved, status' = status
    PROVE  IInv'
<1>. DEFINE n == Len(stack)
<1>1. /\ n \in Nat /\ n > 1 /\ Shape(stack) /\ Linked(stack, chain) /\ Top = stack[n]
      /\ stack[n] \in Frame
  BY Facts DEF Top
<1>2. /\ stack' \in Seq(Frame) /\ Len(stack') = n - 1
      /\ \A k \in 1 .. n - 1 : stack'[k] = stack[k]
  BY <1>1, Below DEF Caller
<1>3. context' = stack'[n - 1].own /\ context' \in Context
  BY <1>1, <1>2, TopFits DEF Fits, Frame
<1>. HIDE DEF n
<1>4. /\ chain \in Seq(Nat) /\ Increasing(chain) /\ Range(chain) = GuardedIn(stack)
  BY <1>1 DEF Linked
<1>5. GuardedIn(stack') = GuardedIn(stack) \ {n}
  BY <1>1, <1>2 DEF GuardedIn, n
<1>6. Linked(stack', chain')
  <2>1. CASE Guarded(Top)
    <3>1. n \in Range(chain)  BY <1>1, <1>4, <2>1 DEF GuardedIn, n
    <3>2. chain /= << >>  BY <3>1 DEF Range
    <3>3. /\ Front(chain) \in Seq(Nat) /\ Increasing(Front(chain))
          /\ Range(Front(chain)) = Range(chain) \ {Last(chain)}
          /\ Last(chain) \in Range(chain) /\ Last(chain) \in Nat
          /\ \A x \in Range(chain) : x <= Last(chain)
      BY <1>4, <3>2, Ends
    <3>4. Last(chain) = n
      <4>1. Last(chain) <= n  BY <1>4, <3>3 DEF GuardedIn, n
      <4>2. n <= Last(chain)  BY <3>1, <3>3
      <4>. QED  BY <1>1, <3>3, <4>1, <4>2
    <3>. QED  BY <1>4, <1>5, <2>1, <3>3, <3>4 DEF Linked, Disarmed
  <2>2. CASE ~Guarded(Top)
    BY <1>1, <1>4, <1>5, <2>2 DEF Linked, GuardedIn
  <2>. QED  BY <2>1, <2>2
<1>7. Shape(stack')
  <2>1. Len(stack') = 1 => MainFrame(stack'[1])  BY <1>1, <1>2 DEF Shape
  <2>2. Len(stack') > 1 => Fits(stack[Len(stack') - 1], stack'[Len(stack')])
    BY <1>1, <1>2 DEF Shape, n
  <2>3. Len(stack') \in 1 .. Len(stack) + 1 /\ \A k \in 1 .. Len(stack') - 1 : stack'[k] = stack[k]
    BY <1>1, <1>2 DEF n
  <2>. QED  BY <1>1, <1>2, <2>1, <2>2, <2>3, ShapeKept
<1>. QED  BY <1>2, <1>3, <1>6, <1>7 DEF IInv, TypeOK, Linked, Top, Running
-----------------------------------------------------------------------------
(* Exceptions *)

(* The newest buffer belongs to the top frame, or to the one below it if   *)
(* the top one is a function without a buffer                              *)
LEMMA Newest ==
    ASSUME NEW s, Shape(s), NEW c, Linked(s, c), c /= << >>,
           s[Len(s)].at \notin {"caught", "exit"}
    PROVE  /\ Len(s) \in Nat /\ Last(c) \in 1 .. Len(s) /\ Guarded(s[Last(c)])
           /\ \/ Last(c) = Len(s)
              \/ Len(s) > 1 /\ Last(c) = Len(s) - 1 /\ s[Len(s)].kind = "c"
<1>. DEFINE n == Len(s)
<1>1. n \in Nat /\ n >= 1  BY LenProperties DEF Shape
<1>2. /\ Last(c) \in Range(c) /\ Last(c) \in Nat
      /\ \A x \in Range(c) : x <= Last(c)
  BY Ends DEF Linked
<1>3. Last(c) \in 1 .. n /\ Guarded(s[Last(c)])  BY <1>2 DEF Linked, GuardedIn
<1>. HIDE DEF n
<1>4. CASE Guarded(s[n])
  <2>1. n <= Last(c)  BY <1>1, <1>2, <1>4 DEF Linked, GuardedIn, n
  <2>. QED  BY <1>1, <1>3, <2>1 DEF n
<1>5. CASE ~Guarded(s[n])
  <2>1. Last(c) /= n  BY <1>3, <1>5
  <2>2. n > 1  BY <1>1, <1>3, <2>1
  <2>3. Fits(s[n - 1], s[n])  BY <1>1, <2>2 DEF Shape, n
  <2>4. s[n].kind \in Kinds
    <3>1. s[n] \in Frame  BY <1>1, ElementOfSeq DEF Shape, n
    <3>. QED  BY <3>1 DEF Frame
  <2>5. s[n].kind = "c" /\ Guarded(s[n - 1])
    BY <1>5, <2>3, <2>4 DEF Fits, Guarded, Kinds, n
  <2>6. n - 1 <= Last(c)
    <3>1. n - 1 \in 1 .. n  BY <1>1, <2>2
    <3>. QED  BY <1>2, <2>5, <3>1 DEF Linked, GuardedIn, n
  <2>. QED  BY <1>1, <1>3, <2>1, <2>2, <2>5, <2>6 DEF n
<1>. QED  BY <1>4, <1>5

(* Where a jump lands *)
LEMMA Landing ==
    ASSUME NEW s, Shape(s), NEW c, Linked(s, c), c /= << >>,
           s[Len(s)].at \notin {"caught", "exit"}, Jump(s, c)
    PROVE  /\ stack' \in Seq(Frame) /\ Len(stack') = Last(c) /\ Last(c) \in 1 .. Len(s)
           /\ \A k \in 1 .. Last(c) - 1 : stack'[k] = s[k]
           /\ stack'[Last(c)] =
                [s[Last(c)] EXCEPT !.at = CASE s[Last(c)].at = "body"  -> "print"
                                            [] s[Last(c)].at = "print" -> "reprint"
                                            [] OTHER                   -> "caught"]
           /\ chain' = IF s[Last(c)].at = "body" THEN <<1>> ELSE Front(c)
           /\ status' = status
<1>. DEFINE i == Last(c)
            g == [s[i] EXCEPT !.at = CASE s[i].at = "body"  -> "print"
                                       [] s[i].at = "print" -> "reprint"
                                       [] OTHER             -> "caught"]
<1>1. i \in 1 .. Len(s)  BY Newest
<1>2. /\ stack' = Append(SubSeq(s, 1, i - 1), g) /\ status' = status
      /\ chain' = IF s[i].at = "body" THEN <<1>> ELSE Front(c)
  BY DEF Jump
<1>3. g \in Frame
  <2>1. s[i] \in Frame  BY <1>1, ElementOfSeq DEF Shape
  <2>2. \/ s[i].at = "body" /\ g = [s[i] EXCEPT !.at = "print"]
        \/ s[i].at = "print" /\ g = [s[i] EXCEPT !.at = "reprint"]
        \/ g = [s[i] EXCEPT !.at = "caught"]
    OBVIOUS
  <2>. HIDE DEF g
  <2>. QED  BY <2>1, <2>2 DEF Frame, Places
<1>. HIDE DEF g, i
<1>4. /\ stack' \in Seq(Frame) /\ Len(stack') = i /\ stack'[i] = g
      /\ \A k \in 1 .. i - 1 : stack'[k] = s[k]
  BY <1>1, <1>2, <1>3, CutAt
<1>. QED  BY <1>1, <1>2, <1>4 DEF g, i

LEMMA JumpKeeps ==
    ASSUME NEW s, Shape(s), NEW c, Linked(s, c), s[Len(s)].at \notin {"caught", "exit"},
           Jump(s, c), Running, context' = s[Len(s)].own, context' \in Context
    PROVE  IInv'
<1>1. CASE c = << >>
  BY <1>1, FatalKept DEF Jump, Shape, Linked
<1>2. CASE c /= << >>
  <2>. DEFINE i == Last(c)
              f == s[i]
              g == stack'[i]
  <2>1. /\ Len(s) \in Nat /\ i \in 1 .. Len(s) /\ Guarded(f)
        /\ \/ i = Len(s)
           \/ Len(s) > 1 /\ i = Len(s) - 1 /\ s[Len(s)].kind = "c"
    BY <1>2, Newest
  <2>2. /\ stack' \in Seq(Frame) /\ Len(stack') = i
        /\ \A k \in 1 .. i - 1 : stack'[k] = s[k]
        /\ g = [f EXCEPT !.at = CASE f.at = "body"  -> "print"
                                  [] f.at = "print" -> "reprint"
                                  [] OTHER          -> "caught"]
        /\ chain' = IF f.at = "body" THEN <<1>> ELSE Front(c)
        /\ status' = status
    BY <1>2, Landing
  <2>3. f \in Frame  BY <2>1, ElementOfSeq DEF Shape
  <2>. HIDE DEF i, f, g
  <2>4. g.kind = f.kind /\ g.own = f.own /\ g.saved = f.saved
    BY <2>2, <2>3 DEF Frame
  <2>5. \/ f.at = "body" /\ g.at = "print"
        \/ f.at = "print" /\ g.at = "reprint"
        \/ f.at \notin {"body", "print"} /\ g.at = "caught"
    BY <2>2, <2>3 DEF Frame
  <2>6. i = 1 => MainFrame(f)  BY DEF Shape, f
  <2>7. i > 1 => Fits(s[i - 1], f)
    <3>1. ASSUME i > 1  PROVE i \in 2 .. Len(s)  BY <2>1, <3>1
    <3>. QED  BY <3>1 DEF Shape, f
  <2>8. i = 1 => MainFrame(g)
    BY <2>1, <2>4, <2>5, <2>6 DEF MainFrame, Guarded
  <2>9. i > 1 => Fits(s[i - 1], g) /\ g.at = "caught"
    BY <2>1, <2>4, <2>5, <2>7 DEF Fits, Guarded
  <2>10. Linked(stack', chain')
    <3>1. /\ c \in Seq(Nat) /\ Increasing(c) /\ Range(c) = GuardedIn(s)
      BY DEF Linked
    <3>2. /\ Front(c) \in Seq(Nat) /\ Increasing(Front(c))
          /\ \A x \in Range(c) : x <= i
          /\ Range(Front(c)) = Range(c) \ {i}
      BY <1>2, <3>1, Ends DEF i
    <3>3. GuardedIn(stack') = (GuardedIn(s) \ {i}) \cup {k \in {i} : Guarded(g)}
      <4>1. GuardedIn(stack') = {k \in GuardedIn(s) : k < i} \cup {k \in {i} : Guarded(stack'[k])}
        BY <2>1, <2>2, GuardedAfter
      <4>2. {k \in GuardedIn(s) : k < i} = GuardedIn(s) \ {i}
        BY <2>1, <3>1, <3>2 DEF GuardedIn
      <4>. QED  BY <4>1, <4>2 DEF g
    <3>4. CASE f.at = "body"
      <4>1. i = 1  BY <2>1, <2>7, <3>4 DEF Fits
      <4>2. f.kind = "main" /\ g.at = "print" /\ Guarded(g)
        BY <2>4, <2>5, <2>6, <3>4, <4>1 DEF MainFrame, Guarded
      <4>3. GuardedIn(s) \ {i} = {}  BY <3>1, <3>2, <4>1 DEF GuardedIn
      <4>4. chain' = <<1>>  BY <2>2, <3>4
      <4>5. chain' \in Seq(Nat) /\ Increasing(chain') /\ Range(chain') = {1}
        BY <4>4 DEF Increasing, Range
      <4>. QED  BY <3>3, <4>1, <4>2, <4>3, <4>5 DEF Linked
    <3>5. CASE f.at /= "body"
      <4>1. ~Guarded(g)  BY <2>5, <3>5 DEF Guarded
      <4>. QED  BY <2>2, <3>1, <3>2, <3>3, <3>5, <4>1 DEF Linked
    <3>. QED  BY <3>4, <3>5
  <2>11. context' = stack'[Len(stack')].own
    <3>1. CASE i = Len(s)  BY <2>2, <2>4, <3>1 DEF f, g
    <3>2. CASE Len(s) > 1 /\ i = Len(s) - 1 /\ s[Len(s)].kind = "c"
      <4>1. Len(s) \in 2 .. Len(s)  BY <2>1, <3>2
      <4>2. Fits(s[i], s[Len(s)])  BY <3>2, <4>1 DEF Shape
      <4>3. s[Len(s)].own = s[i].own  BY <3>2, <4>2 DEF Fits
      <4>. QED  BY <2>2, <2>4, <4>3 DEF f, g
    <3>. QED  BY <2>1, <3>1, <3>2
  <2>12. status' \in {"running", "fatal"}  BY <2>2 DEF Running
  <2>13. /\ Len(stack') \in 1 .. Len(s) + 1
         /\ \A k \in 1 .. Len(stack') - 1 : stack'[k] = s[k]
         /\ Len(stack') = 1 => MainFrame(stack'[1])
         /\ Len(stack') > 1 => Fits(s[Len(stack') - 1], stack'[Len(stack')])
    BY <2>1, <2>2, <2>8, <2>9 DEF g
  <2>. QED  BY <2>2, <2>10, <2>11, <2>12, <2>13, StackKept
<1>. QED  BY <1>1, <1>2
-----------------------------------------------------------------------------
(* The actions *)

LEMMA InitHolds == Init => IInv
<1>. SUFFICES ASSUME Init  PROVE IInv
  OBVIOUS
<1>1. PICK m \in Modules :
        /\ stack = <<[kind |-> "main", at |-> "body", own |-> [globals |-> m, locals |-> m],
                      saved |-> [globals |-> m, locals |-> m]]>>
        /\ chain = <<1>> /\ context = [globals |-> m, locals |-> m] /\ status = "running"
  BY DEF Init
<1>. DEFINE f == [kind |-> "main", at |-> "body", own |-> [globals |-> m, locals |-> m],
                  saved |-> [globals |-> m, locals |-> m]]
<1>2. context \in Context  BY <1>1 DEF Context
<1>3. f \in Frame /\ MainFrame(f) /\ Guarded(f) /\ f.own = context
  BY <1>1, <1>2 DEF Frame, Kinds, Places, MainFrame, Guarded
<1>. HIDE DEF f
<1>4. stack = <<f>>  BY <1>1 DEF f
<1>5. stack \in Seq(Frame) /\ Len(stack) = 1 /\ stack[1] = f  BY <1>3, <1>4
<1>6. Shape(stack)  BY <1>3, <1>5 DEF Shape
<1>7. Linked(stack, chain)
  <2>1. chain \in Seq(Nat) /\ Increasing(chain) /\ Range(chain) = {1}
    BY <1>1 DEF Increasing, Range
  <2>2. GuardedIn(stack) = {1}  BY <1>3, <1>5 DEF GuardedIn
  <2>. QED  BY <2>1, <2>2 DEF Linked
<1>. QED  BY <1>1, <1>2, <1>3, <1>5, <1>6, <1>7 DEF IInv, TypeOK, Top, Linked

(* The context that a frame leaves behind is its caller's *)
LEMMA Restores ==
    ASSUME IInv, Running, Len(stack) > 1, Top.kind \in {"py", "compile", "call"}
    PROVE  /\ Top.kind = "py" => [context EXCEPT !.globals = Top.saved.globals] = Top.saved
           /\ Top.kind /= "py" => Restored(Top) = Top.saved
<1>1. Top.own \in Context /\ Top.saved \in Context /\ context = Top.own
  BY Facts DEF Frame
<1>2. /\ Top.kind \in {"py", "compile"} => context.locals = Top.saved.locals
      /\ Top.kind = "call" => context.globals = Top.saved.globals
  BY <1>1, TopFits DEF Fits
<1>3. ASSUME context.locals = Top.saved.locals
      PROVE  [context EXCEPT !.globals = Top.saved.globals] = Top.saved
  BY <1>1, <1>3 DEF Context
<1>4. ASSUME context.globals = Top.saved.globals
      PROVE  [context EXCEPT !.locals = Top.saved.locals] = Top.saved
  BY <1>1, <1>4 DEF Context
<1>. QED  BY <1>2, <1>3, <1>4 DEF Restored

LEMMA AboveMain ==
    ASSUME IInv, Running, Top.kind /= "main"
    PROVE  Len(stack) > 1 /\ Top.at \in {"run", "caught"}
<1>1. Len(stack) /= 1  BY OnlyMainIsFirst
<1>2. \A l \in Nat : l >= 1 /\ l /= 1 => l > 1  OBVIOUS
<1>3. Len(stack) > 1  BY <1>1, <1>2, Facts
<1>. QED  BY <1>3, TopFits DEF Fits

LEMMA EnterKeeps == ASSUME IInv, NEW m \in Modules, Enter(m)  PROVE IInv'
<1>. DEFINE inner == [context EXCEPT !.globals = m]
            g == [kind |-> "py", at |-> "run", own |-> inner, saved |-> context]
<1>1. Running /\ Push("py", inner) /\ Armed /\ Top.at \notin {"caught", "exit"}
  BY DEF Enter
<1>2. inner \in Context /\ inner.locals = context.locals /\ context = Top.own
  BY <1>1, Facts DEF Context
<1>3. Fits(Top, g)  BY <1>1, <1>2 DEF Fits
<1>4. Guarded(g)  BY DEF Guarded
<1>. QED  BY <1>1, <1>2, <1>3, <1>4, PushKeeps DEF Kinds

LEMMA CallReplKeeps ==
    ASSUME IInv, NEW m \in Modules, CallCompile(m) \/ CallCall(m)  PROVE IInv'
<1>1. Running /\ Top.at = "run"  BY DEF CallCompile, CallCall, At
<1>2. context = Top.own /\ context \in Context  BY <1>1, Facts
<1>3. CASE CallCompile(m)
  <2>. DEFINE inner == [context EXCEPT !.globals = m]
              g == [kind |-> "compile", at |-> "run", own |-> inner, saved |-> context]
  <2>1. Push("compile", inner) /\ Armed  BY <1>3 DEF CallCompile
  <2>2. inner \in Context /\ inner.locals = context.locals  BY <1>2 DEF Context
  <2>3. Fits(Top, g)  BY <1>1, <1>2, <2>2 DEF Fits
  <2>4. Guarded(g)  BY DEF Guarded
  <2>. QED  BY <1>1, <2>1, <2>2, <2>3, <2>4, PushKeeps DEF Kinds
<1>4. CASE CallCall(m)
  <2>. DEFINE inner == [context EXCEPT !.locals = m]
              g == [kind |-> "call", at |-> "run", own |-> inner, saved |-> context]
  <2>1. Push("call", inner) /\ Armed  BY <1>4 DEF CallCall
  <2>2. inner \in Context /\ inner.globals = context.globals  BY <1>2 DEF Context
  <2>3. Fits(Top, g)  BY <1>1, <1>2, <2>2 DEF Fits
  <2>4. Guarded(g)  BY DEF Guarded
  <2>. QED  BY <1>1, <2>1, <2>2, <2>3, <2>4, PushKeeps DEF Kinds
<1>. QED  BY <1>3, <1>4

LEMMA CallCKeeps == ASSUME IInv, CallC  PROVE IInv'
<1>. DEFINE g == [kind |-> "c", at |-> "run", own |-> context, saved |-> context]
<1>1. /\ Running /\ Top.at = "run" /\ Top.kind \in {"py", "call", "host"}
      /\ Push("c", context) /\ chain' = chain
  BY DEF CallC, At
<1>2. context = Top.own /\ context \in Context  BY <1>1, Facts
<1>3. Fits(Top, g)  BY <1>1, <1>2 DEF Fits, Guarded
<1>4. ~Guarded(g)  BY DEF Guarded
<1>. QED  BY <1>1, <1>2, <1>3, <1>4, PushKeeps DEF Kinds

LEMMA HostCallsKeeps == ASSUME IInv, HostCalls  PROVE IInv'
<1>. DEFINE g == [kind |-> "host", at |-> "run", own |-> context, saved |-> context]
<1>1. Running /\ Push("host", context) /\ Armed  BY DEF HostCalls
<1>2. context = Top.own /\ context \in Context  BY <1>1, Facts
<1>3. Fits(Top, g)  BY <1>1, <1>2 DEF Fits
<1>4. Guarded(g)  BY DEF Guarded
<1>. QED  BY <1>1, <1>2, <1>3, <1>4, PushKeeps DEF Kinds

LEMMA ReturnKeeps ==
    ASSUME IInv, Leave \/ ReturnC \/ ReturnRepl \/ ReturnToHost  PROVE IInv'
<1>1. Running /\ Top.kind /= "main" /\ stack' = Caller /\ status' = status
  BY DEF Leave, ReturnC, ReturnRepl, ReturnToHost, At
<1>2. Len(stack) > 1 /\ Top.at \in {"run", "caught"}  BY <1>1, AboveMain
<1>3. CASE Leave
  <2>1. /\ Top.kind = "py" /\ Guarded(Top) /\ Disarmed
        /\ context' = [context EXCEPT !.globals = Top.saved.globals]
    BY <1>3 DEF Leave, At, Guarded
  <2>. QED  BY <1>1, <1>2, <2>1, Restores, PopKeeps
<1>4. CASE ReturnRepl
  <2>1. /\ Top.kind \in {"compile", "call"} /\ Guarded(Top) /\ Disarmed
        /\ context' = Restored(Top)
    BY <1>4 DEF ReturnRepl, At, Guarded
  <2>. QED  BY <1>1, <1>2, <2>1, Restores, PopKeeps
<1>5. ASSUME Top.kind \in {"c", "host"}, context' = context  PROVE context' = Top.saved
  BY <1>1, <1>2, <1>5, Facts, TopFits DEF Fits
<1>6. CASE ReturnC
  <2>1. Top.kind = "c" /\ ~Guarded(Top) /\ chain' = chain /\ context' = context
    BY <1>6 DEF ReturnC, At, Guarded
  <2>. QED  BY <1>1, <1>2, <1>5, <2>1, PopKeeps
<1>7. CASE ReturnToHost
  <2>1. /\ Top.kind = "host" /\ context' = context
        /\ chain' = IF Top.at = "run" THEN Front(chain) ELSE chain
    BY <1>7 DEF ReturnToHost
  <2>2. Guarded(Top) <=> Top.at = "run"  BY <2>1 DEF Guarded
  <2>3. IF Guarded(Top) THEN Disarmed ELSE chain' = chain
    BY <2>1, <2>2 DEF Disarmed
  <2>. QED  BY <1>1, <1>2, <1>5, <2>1, <2>3, PopKeeps
<1>. QED  BY <1>3, <1>4, <1>6, <1>7

LEMMA HandleKeeps == ASSUME IInv, Handle  PROVE IInv'
<1>. DEFINE n == Len(stack)
            g == [Top EXCEPT !.at = "run"]
<1>1. /\ Running /\ Top.kind = "py" /\ Top.at = "caught"
      /\ stack' = [stack EXCEPT ![n].at = "run"] /\ chain' = Append(chain, n)
      /\ UNCHANGED <<context, status>>
  BY DEF Handle, At
<1>2. n > 1 /\ n \in Nat /\ Shape(stack) /\ Linked(stack, chain) /\ context = Top.own
  BY <1>1, Facts, AboveMain
<1>3. /\ g \in Frame /\ g.kind = "py" /\ g.at = "run" /\ g.own = Top.own
      /\ g.saved = Top.saved
  BY <1>1, Facts DEF Frame, Places
<1>4. stack' = [stack EXCEPT ![n] = g]  BY <1>1, <1>2 DEF Top
<1>5. Fits(stack[n - 1], g)  BY <1>1, <1>2, <1>3, TopFits DEF Fits
<1>. HIDE DEF g
<1>6. /\ stack' \in Seq(Frame) /\ Len(stack') = n /\ stack'[n] = g
      /\ \A k \in 1 .. n - 1 : stack'[k] = stack[k]
  <2>1. n \in 1 .. n /\ stack \in Seq(Frame)  BY <1>2 DEF Shape
  <2>2. /\ stack' \in Seq(Frame) /\ Len(stack') = n
        /\ \A k \in 1 .. n : stack'[k] = IF k = n THEN g ELSE stack[k]
    BY <1>3, <1>4, <2>1, ExceptSeq
  <2>. QED  BY <1>2, <2>2
<1>7. Linked(stack', chain')
  <2>1. /\ chain \in Seq(Nat) /\ Increasing(chain) /\ Range(chain) = GuardedIn(stack)
    BY <1>2 DEF Linked
  <2>2. ~Guarded(stack[n])  BY <1>1 DEF Guarded, Top
  <2>3. \A x \in Range(chain) : x < n  BY <1>2, <2>1, <2>2 DEF GuardedIn
  <2>4. /\ Append(chain, n) \in Seq(Nat) /\ Increasing(Append(chain, n))
        /\ Range(Append(chain, n)) = Range(chain) \cup {n}
    BY <1>2, <2>1, <2>3, Extended
  <2>5. GuardedIn(stack') = GuardedIn(stack) \cup {n}
    <3>1. Guarded(g)  BY <1>3 DEF Guarded
    <3>. QED  BY <1>2, <1>6, <2>2, <3>1 DEF GuardedIn
  <2>. QED  BY <1>1, <2>1, <2>4, <2>5 DEF Linked
<1>8. context' \in Context /\ status' \in {"running", "fatal"} /\ context' = g.own
  BY <1>1, <1>2, <1>3 DEF IInv, TypeOK
<1>9. Len(stack') \in 1 .. n + 1 /\ Len(stack') > 1 /\ Len(stack') /= 1
  BY <1>2, <1>6
<1>. QED  BY <1>2, <1>5, <1>6, <1>7, <1>8, <1>9, StackKept

LEMMA LeaveReplKeeps == ASSUME IInv, LeaveRepl  PROVE IInv'
<1>. DEFINE g == [Top EXCEPT !.at = "exit"]
<1>1. /\ Running /\ Top.kind = "main" /\ Top.at = "body"
      /\ stack' = [stack EXCEPT ![1].at = "exit"] /\ Disarmed
      /\ UNCHANGED <<context, status>>
  BY DEF LeaveRepl, At
<1>2. Len(stack) = 1 /\ Shape(stack) /\ Linked(stack, chain) /\ context = Top.own
  BY <1>1, Facts, OnlyMainIsFirst
<1>3. g \in Frame /\ g.kind = "main" /\ g.at = "exit" /\ g.own = Top.own
  BY <1>1, Facts DEF Frame, Places
<1>4. stack' = [stack EXCEPT ![1] = g]  BY <1>1, <1>2 DEF Top
<1>. HIDE DEF g
<1>5. stack' \in Seq(Frame) /\ Len(stack') = 1 /\ stack'[1] = g
  <2>1. 1 \in 1 .. Len(stack) /\ stack \in Seq(Frame)  BY <1>2 DEF Shape
  <2>2. /\ stack' \in Seq(Frame) /\ Len(stack') = Len(stack)
        /\ \A k \in 1 .. Len(stack) : stack'[k] = IF k = 1 THEN g ELSE stack[k]
    BY <1>3, <1>4, <2>1, ExceptSeq
  <2>. QED  BY <1>2, <2>1, <2>2
<1>6. Linked(stack', chain')
  <2>1. /\ chain \in Seq(Nat) /\ Increasing(chain) /\ Range(chain) = GuardedIn(stack)
    BY <1>2 DEF Linked
  <2>2. GuardedIn(stack) = {1}  BY <1>1, <1>2 DEF GuardedIn, Guarded, Top
  <2>3. chain /= << >>  BY <2>1, <2>2 DEF Range
  <2>4. /\ Front(chain) \in Seq(Nat) /\ Increasing(Front(chain))
        /\ Last(chain) \in Range(chain)
        /\ Range(Front(chain)) = Range(chain) \ {Last(chain)}
    BY <2>1, <2>3, Ends
  <2>5. GuardedIn(stack') = {}  BY <1>3, <1>5 DEF GuardedIn, Guarded
  <2>. QED  BY <1>1, <2>1, <2>2, <2>4, <2>5 DEF Linked, Disarmed
<1>7. MainFrame(g)  BY <1>3 DEF MainFrame
<1>8. context' \in Context /\ status' \in {"running", "fatal"} /\ context' = g.own
  BY <1>1, <1>2, <1>3 DEF IInv, TypeOK
<1>. QED  BY <1>2, <1>5, <1>6, <1>7, <1>8, StackKept

LEMMA RaiseKeeps == ASSUME IInv, Raise  PROVE IInv'
<1>1. Running /\ Top.at \notin {"caught", "exit"} /\ Jump(stack, chain) /\ context' = context
  BY DEF Raise
<1>. QED  BY <1>1, Facts, JumpKeeps DEF Top

(* The stack and the chain from which an exception goes on *)
LEMMA Onward ==
    ASSUME IInv, Running, Top.kind \in {"py", "compile", "call"}, Top.at = "caught"
    PROVE  /\ Shape(Caller) /\ Linked(Caller, chain) /\ Len(Caller) = Len(stack) - 1
           /\ \A k \in 1 .. Len(stack) - 1 : Caller[k] = stack[k]
           /\ Caller[Len(Caller)].at \notin {"caught", "exit"}
           /\ Top.saved = Caller[Len(Caller)].own
<1>. DEFINE n == Len(stack)
<1>1. n > 1 /\ n \in Nat /\ Shape(stack) /\ Linked(stack, chain)
  BY Facts, AboveMain
<1>2. /\ Caller \in Seq(Frame) /\ Len(Caller) = n - 1
      /\ \A k \in 1 .. n - 1 : Caller[k] = stack[k]
  <2>1. n \in 1 .. Len(stack)  BY <1>1
  <2>. QED  BY <1>1, <2>1, Below DEF Caller
<1>. HIDE DEF n
<1>3. Shape(Caller)
  <2>1. Len(Caller) = 1 => MainFrame(Caller[1])  BY <1>1, <1>2 DEF Shape
  <2>2. Len(Caller) > 1 => Fits(stack[Len(Caller) - 1], Caller[Len(Caller)])
    BY <1>1, <1>2 DEF Shape, n
  <2>3. Len(Caller) \in 1 .. Len(stack) + 1
        /\ \A k \in 1 .. Len(Caller) - 1 : Caller[k] = stack[k]
    BY <1>1, <1>2 DEF n
  <2>. QED  BY <1>1, <1>2, <2>1, <2>2, <2>3, ShapeKept
<1>4. Linked(Caller, chain)
  <2>1. ~Guarded(stack[n])  BY DEF Guarded, Top, n
  <2>2. GuardedIn(Caller) = GuardedIn(stack)
    BY <1>1, <1>2, <2>1 DEF GuardedIn, n
  <2>. QED  BY <1>1, <2>2 DEF Linked
<1>5. Fits(stack[n - 1], Top)  BY <1>1, TopFits DEF n
<1>6. n - 1 \in 1 .. n - 1  BY <1>1
<1>7. Caller[n - 1] = stack[n - 1]  BY <1>2, <1>6
<1>. QED  BY <1>2, <1>3, <1>4, <1>5, <1>7 DEF Fits, n

LEMMA PropagateKeeps == ASSUME IInv, Propagate  PROVE IInv'
<1>1. /\ Running /\ Top.kind \in {"py", "compile", "call"} /\ Top.at = "caught"
      /\ context' = IF Top.kind = "py" THEN [context EXCEPT !.globals = Top.saved.globals]
                                       ELSE Restored(Top)
      /\ Jump(Caller, chain)
  BY DEF Propagate, At
<1>2. context' = Top.saved  BY <1>1, AboveMain, Restores
<1>3. context' \in Context  BY <1>1, <1>2, Facts DEF Frame
<1>. QED  BY <1>1, <1>2, <1>3, Onward, JumpKeeps

LEMMA NextKeeps == IInv /\ [Next]_vars => IInv'
<1>. SUFFICES ASSUME IInv, [Next]_vars  PROVE IInv'
  OBVIOUS
<1>1. ASSUME NEW m \in Modules, Enter(m) \/ CallCompile(m) \/ CallCall(m)  PROVE IInv'
  BY <1>1, EnterKeeps, CallReplKeeps
<1>2. CASE Leave \/ ReturnC \/ ReturnRepl \/ ReturnToHost  BY <1>2, ReturnKeeps
<1>3. CASE Handle  BY <1>3, HandleKeeps
<1>4. CASE CallC  BY <1>4, CallCKeeps
<1>5. CASE Propagate  BY <1>5, PropagateKeeps
<1>6. CASE Raise  BY <1>6, RaiseKeeps
<1>7. CASE HostCalls  BY <1>7, HostCallsKeeps
<1>8. CASE BadHostCall \/ Report
  <2>1. status' = "fatal" /\ UNCHANGED <<stack, chain, context>>
    BY <1>8 DEF BadHostCall, Report
  <2>. QED  BY <2>1, FatalKept DEF IInv, TypeOK
<1>9. CASE LeaveRepl  BY <1>9, LeaveReplKeeps
<1>10. CASE UNCHANGED vars
  BY <1>10 DEF vars, IInv, TypeOK, Running, Top
<1>. QED
  BY <1>1, <1>2, <1>3, <1>4, <1>5, <1>6, <1>7, <1>8, <1>9, <1>10 DEF Next

LEMMA Invariance == Spec => []IInv
BY InitHolds, NextKeeps, PTL DEF Spec
-----------------------------------------------------------------------------
(* The chain of buffers leads to the guarded frames of the stack, newest   *)
(* first, and nowhere else, however deep calls, hooks and calls of the     *)
(* host are nested (machine.c:59, 81; main.c:59, 91, 94;                   *)
(* moducode.c:49, 60, 78, 84).                                             *)
THEOREM ChainLive == Spec => []ChainIsLive
<1>1. ASSUME IInv, Running
      PROVE  /\ \A k \in 1 .. Len(chain) - 1 : chain[k] < chain[k + 1]
             /\ Range(chain) = {i \in 1 .. Len(stack) : Guarded(stack[i])}
  <2>1. chain \in Seq(Nat) /\ Increasing(chain) /\ Range(chain) = GuardedIn(stack)
    BY <1>1, Facts DEF Linked
  <2>2. ASSUME NEW k \in 1 .. Len(chain) - 1  PROVE chain[k] < chain[k + 1]
    <3>1. Len(chain) \in Nat  BY <2>1, LenProperties
    <3>2. k \in 1 .. Len(chain) /\ k + 1 \in 1 .. Len(chain) /\ k < k + 1
      BY <2>2, <3>1
    <3>. QED  BY <2>1, <3>2 DEF Increasing
  <2>. QED  BY <2>1, <2>2 DEF GuardedIn
<1>2. IInv => ChainIsLive  BY <1>1 DEF ChainIsLive
<1>. QED  BY <1>2, Invariance, PTL

(* Python code finds the name spaces it was entered with whenever it runs, *)
(* after any calls, compilations, exceptions and interruptions             *)
(* (moducode.c:44-66, 73-91).                                              *)
THEOREM ContextKept == Spec => []ContextIsOwn
<1>1. IInv => ContextIsOwn  BY DEF IInv, ContextIsOwn, At
<1>. QED  BY <1>1, Invariance, PTL

(* Only when printing the failure of a print fails as well is there nobody *)
(* left to take an exception (main.c:93-98, machine.c:59, 98).             *)
THEOREM HandlerLeft == Spec => []LastResort
<1>1. ASSUME IInv, Running, chain = << >>, Top.at \notin {"caught", "exit"}
      PROVE  stack[1].at = "reprint"
  <2>1. GuardedIn(stack) = {}  BY <1>1, Facts DEF Linked, Range
  <2>2. /\ Len(stack) \in Nat /\ Len(stack) >= 1 /\ Top \in Frame
        /\ MainFrame(stack[1])
    BY <1>1, Facts DEF Shape
  <2>3. \A i \in 1 .. Len(stack) : ~Guarded(stack[i])  BY <2>1 DEF GuardedIn
  <2>4. CASE Len(stack) > 1
    <3>1. Fits(stack[Len(stack) - 1], Top)  BY <1>1, <2>4, TopFits
    <3>2. Len(stack) - 1 \in 1 .. Len(stack) /\ Len(stack) \in 1 .. Len(stack)
      BY <2>2, <2>4
    <3>3. ~Guarded(Top) /\ ~Guarded(stack[Len(stack) - 1])
      BY <2>3, <3>2 DEF Top
    <3>4. Top.kind \in Kinds  BY <2>2 DEF Frame
    <3>. QED  BY <1>1, <3>1, <3>3, <3>4 DEF Fits, Guarded, Kinds
  <2>5. CASE Len(stack) = 1
    <3>1. 1 \in 1 .. Len(stack)  BY <2>2
    <3>. QED  BY <1>1, <2>2, <2>3, <2>5, <3>1 DEF MainFrame, Guarded, Top
  <2>6. \A l \in Nat : l >= 1 => l > 1 \/ l = 1  OBVIOUS
  <2>7. Len(stack) > 1 \/ Len(stack) = 1  BY <2>2, <2>6
  <2>. QED  BY <2>4, <2>5, <2>7
<1>2. IInv => LastResort  BY <1>1 DEF LastResort
<1>. QED  BY <1>2, Invariance, PTL

-----------------------------------------------------------------------------
(* The frames of s below place i are still there *)
Spared(s, i) == Len(stack') >= i - 1 /\ \A k \in 1 .. i - 1 : stack'[k] = s[k]

(* An exception is taken at or above every call of the host *)
LEMMA JumpSpares ==
    ASSUME NEW s, Shape(s), NEW c, Linked(s, c), s[Len(s)].at \notin {"caught", "exit"},
           Jump(s, c), NEW i \in 2 .. Len(s), s[i].kind = "host"
    PROVE  Spared(s, i)
<1>1. CASE c = << >>  BY <1>1 DEF Jump, Spared
<1>2. CASE c /= << >>
  <2>1. /\ Len(s) \in Nat /\ Last(c) \in 1 .. Len(s)
        /\ \/ Last(c) = Len(s)
           \/ Last(c) = Len(s) - 1 /\ s[Len(s)].kind = "c"
    BY <1>2, Newest
  <2>2. Len(stack') = Last(c) /\ \A k \in 1 .. Last(c) - 1 : stack'[k] = s[k]
    BY <1>2, Landing
  <2>3. i <= Last(c)  BY <2>1
  <2>. QED  BY <2>1, <2>2, <2>3 DEF Spared
<1>. QED  BY <1>1, <1>2

LEMMA PushSpares ==
    ASSUME IInv, Running, NEW kind, NEW inner, Push(kind, inner), NEW i \in 2 .. Len(stack)
    PROVE  Spared(stack, i)
BY Facts DEF Push, Spared, Shape

LEMMA PopSpares ==
    ASSUME IInv, Running, Len(stack) > 1, stack' = Caller, NEW i \in 2 .. Len(stack)
    PROVE  Spared(stack, i)
<1>1. Shape(stack) /\ Len(stack) \in 1 .. Len(stack)  BY Facts
<1>2. /\ Len(Caller) = Len(stack) - 1
      /\ \A k \in 1 .. Len(stack) - 1 : Caller[k] = stack[k]
  BY <1>1, Below DEF Caller
<1>. QED  BY <1>2, Facts DEF Spared

LEMMA StepSpares ==
    ASSUME IInv, Running, Next, NEW i \in 2 .. Len(stack), stack[i].kind = "host"
    PROVE  Spared(stack, i)
<1>1. ASSUME NEW m \in Modules, Enter(m) \/ CallCompile(m) \/ CallCall(m)
      PROVE  Spared(stack, i)
  BY <1>1, PushSpares DEF Enter, CallCompile, CallCall
<1>2. CASE CallC \/ HostCalls  BY <1>2, PushSpares DEF CallC, HostCalls
<1>3. CASE Leave \/ ReturnC \/ ReturnRepl \/ ReturnToHost
  <2>1. stack' = Caller /\ Top.kind /= "main"
    BY <1>3 DEF Leave, ReturnC, ReturnRepl, ReturnToHost, At
  <2>. QED  BY <2>1, AboveMain, PopSpares
<1>4. CASE Handle \/ LeaveRepl
  <2>1. CASE Handle
    <3>1. stack' = [stack EXCEPT ![Len(stack)].at = "run"]  BY <2>1 DEF Handle
    <3>. QED  BY <3>1, Facts DEF Spared, Shape
  <2>2. CASE LeaveRepl
    <3>1. Len(stack) = 1  BY <2>2, OnlyMainIsFirst DEF LeaveRepl, At
    <3>. QED  BY <3>1
  <2>. QED  BY <1>4, <2>1, <2>2
<1>5. CASE Raise
  <2>1. Top.at \notin {"caught", "exit"} /\ Jump(stack, chain)  BY <1>5 DEF Raise
  <2>. QED  BY <2>1, Facts, JumpSpares DEF Top
<1>6. CASE Propagate
  <2>1. /\ Top.kind \in {"py", "compile", "call"} /\ Top.at = "caught"
        /\ Jump(Caller, chain)
    BY <1>6 DEF Propagate, At
  <2>2. /\ Shape(Caller) /\ Linked(Caller, chain) /\ Len(Caller) = Len(stack) - 1
        /\ \A k \in 1 .. Len(stack) - 1 : Caller[k] = stack[k]
        /\ Caller[Len(Caller)].at \notin {"caught", "exit"}
    BY <2>1, Onward
  <2>3. i /= Len(stack)  BY <2>1 DEF Top
  <2>4. i \in 2 .. Len(Caller) /\ Caller[i].kind = "host"
    BY <2>2, <2>3, Facts
  <2>5. Spared(Caller, i)  BY <2>1, <2>2, <2>4, JumpSpares
  <2>. QED  BY <2>2, <2>4, <2>5, Facts DEF Spared
<1>7. CASE BadHostCall \/ Report
  BY <1>7, Facts DEF BadHostCall, Report, Spared
<1>. QED  BY <1>1, <1>2, <1>3, <1>4, <1>5, <1>6, <1>7 DEF Next

(* What the host interrupted is the same when its call returns: no step,   *)
(* and in particular no exception, reaches below a frame of Call_Handler   *)
(* (machine.c:59, 84).                                                     *)
THEOREM HostIsolated == Spec => HostIsIsolated
<1>1. ASSUME IInv, IInv', [Next]_vars, NEW i \in 2 .. Len(stack), stack[i].kind = "host"
      PROVE  /\ Len(stack') >= i - 1
             /\ SubSeq(stack', 1, i - 1) = SubSeq(stack, 1, i - 1)
  <2>1. stack \in Seq(Frame) /\ stack' \in Seq(Frame)  BY <1>1 DEF IInv, TypeOK
  <2>2. Len(stack) \in Nat /\ Len(stack') \in Nat  BY <2>1, LenProperties
  <2>3. Spared(stack, i)
    <3>1. CASE UNCHANGED vars  BY <2>2, <3>1 DEF vars, Spared
    <3>2. CASE Next /\ Running  BY <1>1, <3>2, StepSpares
    <3>3. Next => Running
      BY DEF Next, Enter, CallCompile, CallCall, Leave, Handle, CallC, ReturnC, ReturnRepl,
             Propagate, Raise, HostCalls, BadHostCall, ReturnToHost, Report, LeaveRepl, At
    <3>. QED  BY <1>1, <3>1, <3>2, <3>3
  <2>. DEFINE m == i - 1
  <2>4. m \in Nat /\ m >= 1 /\ m <= Len(stack) /\ m <= Len(stack')
    BY <2>2, <2>3 DEF Spared
  <2>5. \A k \in 1 .. m : stack'[k] = stack[k]  BY <2>3 DEF Spared
  <2>. HIDE DEF m
  <2>6. /\ \A k \in 1 .. m : stack[k] \in Frame
        /\ m - 1 + 1 = m /\ \A k \in 1 .. m : 1 + k - 1 = k
    BY <2>1, <2>2, <2>4, ElementOfSeq
  <2>7. /\ SubSeq(stack, 1, m) \in Seq(Frame) /\ Len(SubSeq(stack, 1, m)) = m
        /\ \A k \in 1 .. m : SubSeq(stack, 1, m)[k] = stack[k]
    BY <2>4, <2>6, SubSeqProperties
  <2>8. /\ SubSeq(stack', 1, m) \in Seq(Frame) /\ Len(SubSeq(stack', 1, m)) = m
        /\ \A k \in 1 .. m : SubSeq(stack', 1, m)[k] = stack'[k]
    BY <2>4, <2>5, <2>6, SubSeqProperties
  <2>9. SubSeq(stack', 1, m) = SubSeq(stack, 1, m)
    BY <2>5, <2>7, <2>8, SeqEqual
  <2>. QED  BY <2>3, <2>9 DEF Spared, m
<1>2. IInv /\ IInv' /\ [Next]_vars =>
        [\A i \in 2 .. Len(stack) :
            stack[i].kind = "host" => /\ Len(stack') >= i - 1
                                      /\ SubSeq(stack', 1, i - 1) = SubSeq(stack, 1, i - 1)]_vars
  BY <1>1
<1>. QED  BY <1>2, Invariance, PTL DEF Spec, HostIsIsolated

-----------------------------------------------------------------------------
(* The values of the host: UValue *)

(* A reply that is being decoded *)
Decode == [pending : SUBSET Handles, made : SUBSET Objects, hook : BOOLEAN,
           of : SUBSET Objects]

ValueTypeOK == /\ table \subseteq Handles
               /\ Live \subseteq Objects
               /\ value \in [Live -> Handles \cup {None}]
               /\ held \subseteq Objects
               /\ decodes \in Seq(Decode)
               /\ hooked \in BOOLEAN

(* What Pending, Made and Disposing are of a stack of replies s *)
PendingIn(s) == UNION {d.pending : d \in ToSet(s)}
MadeIn(s) == UNION {d.made : d \in ToSet(s)}
OfIn(s) == UNION {d.of : d \in ToSet(s)}

(* No value is in two replies, those in lost apart *)
Apart(s, lost) == \A i, j \in 1 .. Len(s) : i = j \/ s[i].pending \cap s[j].pending \subseteq lost

(* The inductive invariant: NoStaleValue alone would let the hook of one   *)
(* reply make an object of a value that an outer reply will make again     *)
ValuesInv == /\ ValueTypeOK /\ Apart(decodes, doubtful)
             /\ NothingDangles /\ NoStaleValue /\ NothingForgotten

-----------------------------------------------------------------------------
(* The stack of replies *)

(* A reply is decoded on top of the others *)
LEMMA OnTop ==
    ASSUME NEW s \in Seq(Decode), NEW d \in Decode, NEW lost
    PROVE  /\ Append(s, d) \in Seq(Decode)
           /\ PendingIn(Append(s, d)) = PendingIn(s) \cup d.pending
           /\ MadeIn(Append(s, d)) = MadeIn(s) \cup d.made
           /\ OfIn(Append(s, d)) = OfIn(s) \cup d.of
           /\ Apart(Append(s, d), lost)
                 <=> Apart(s, lost) /\ PendingIn(s) \cap d.pending \subseteq lost
<1>. DEFINE t == Append(s, d)
<1>1. /\ t \in Seq(Decode) /\ Len(t) = Len(s) + 1 /\ t[Len(s) + 1] = d
      /\ \A i \in 1 .. Len(s) : t[i] = s[i]
      /\ Len(s) \in Nat /\ DOMAIN s = 1 .. Len(s) /\ DOMAIN t = 1 .. Len(s) + 1
  BY AppendProperties, LenProperties
<1>. HIDE DEF t
<1>2. ToSet(t) = ToSet(s) \cup {d}
  <2>1. 1 .. Len(s) + 1 = 1 .. Len(s) \cup {Len(s) + 1}  BY <1>1
  <2>. QED  BY <1>1, <2>1 DEF ToSet
<1>3. PendingIn(t) = PendingIn(s) \cup d.pending  BY <1>2 DEF PendingIn
<1>4. MadeIn(t) = MadeIn(s) \cup d.made /\ OfIn(t) = OfIn(s) \cup d.of
  BY <1>2 DEF MadeIn, OfIn
<1>5. \A i \in 1 .. Len(s) : s[i].pending \subseteq PendingIn(s)
  BY <1>1 DEF PendingIn, ToSet
<1>6. ASSUME Apart(s, lost), PendingIn(s) \cap d.pending \subseteq lost
      PROVE  Apart(t, lost)
  <2>. SUFFICES ASSUME NEW i \in 1 .. Len(t), NEW j \in 1 .. Len(t), i /= j
                PROVE  t[i].pending \cap t[j].pending \subseteq lost
    BY DEF Apart
  <2>1. CASE i \in 1 .. Len(s) /\ j \in 1 .. Len(s)  BY <1>1, <1>6, <2>1 DEF Apart
  <2>2. CASE i \in 1 .. Len(s) /\ j = Len(s) + 1  BY <1>1, <1>5, <1>6, <2>2
  <2>3. CASE j \in 1 .. Len(s) /\ i = Len(s) + 1  BY <1>1, <1>5, <1>6, <2>3
  <2>. QED  BY <1>1, <2>1, <2>2, <2>3
<1>7. ASSUME Apart(t, lost)
      PROVE  Apart(s, lost) /\ PendingIn(s) \cap d.pending \subseteq lost
  <2>1. Apart(s, lost)  BY <1>1, <1>7 DEF Apart
  <2>2. ASSUME NEW h \in PendingIn(s), h \in d.pending  PROVE h \in lost
    <3>1. PICK i \in 1 .. Len(s) : h \in s[i].pending
      BY <1>1, <2>2 DEF PendingIn, ToSet
    <3>2. h \in t[i].pending \cap t[Len(s) + 1].pending  BY <1>1, <2>2, <3>1
    <3>3. i /= Len(s) + 1 /\ i \in 1 .. Len(t) /\ Len(s) + 1 \in 1 .. Len(t)  BY <1>1
    <3>. QED  BY <1>7, <3>2, <3>3 DEF Apart
  <2>. QED  BY <2>1, <2>2
<1>. QED  BY <1>1, <1>3, <1>4, <1>6, <1>7 DEF t

(* Only the innermost reply is worked on *)
LEMMA InnermostLast ==
    ASSUME NEW s \in Seq(Decode), s /= << >>
    PROVE  /\ Front(s) \in Seq(Decode) /\ Last(s) \in Decode
           /\ s = Append(Front(s), Last(s))
           /\ \A d \in Decode : [s EXCEPT ![Len(s)] = d] = Append(Front(s), d)
<1>1. Len(s) \in Nat \ {0} /\ \A i \in 1 .. Len(s) : s[i] \in Decode
  BY EmptySeq, ElementOfSeq
<1>2. /\ Front(s) \in Seq(Decode) /\ Len(Front(s)) = Len(s) - 1
      /\ \A i \in 1 .. Len(s) - 1 : Front(s)[i] = s[i]
  <2>. DEFINE n == Len(s) - 1
  <2>1. n \in Nat /\ \A i \in 1 .. n : s[i] \in Decode  BY <1>1
  <2>2. /\ SubSeq(s, 1, n) \in Seq(Decode)
        /\ Len(SubSeq(s, 1, n)) = IF 1 <= n THEN n - 1 + 1 ELSE 0
        /\ \A i \in 1 .. n - 1 + 1 : SubSeq(s, 1, n)[i] = s[1 + i - 1]
    BY <2>1, SubSeqProperties
  <2>3. Front(s) = SubSeq(s, 1, n)  BY DEF Front
  <2>. HIDE DEF n
  <2>4. n - 1 + 1 = n /\ (1 > n => n = 0) /\ \A i \in 1 .. n : 1 + i - 1 = i  BY <2>1
  <2>5. /\ Front(s) \in Seq(Decode) /\ Len(Front(s)) = n
        /\ \A i \in 1 .. n : Front(s)[i] = s[i]
    BY <2>1, <2>2, <2>3, <2>4
  <2>. QED  BY <2>5 DEF n
<1>3. Last(s) = s[Len(s)] /\ Last(s) \in Decode  BY <1>1 DEF Last
<1>4. ASSUME NEW d \in Decode  PROVE [s EXCEPT ![Len(s)] = d] = Append(Front(s), d)
  <2>. DEFINE e == [s EXCEPT ![Len(s)] = d]
              a == Append(Front(s), d)
  <2>1. /\ e \in Seq(Decode) /\ Len(e) = Len(s)
        /\ \A i \in 1 .. Len(s) : e[i] = IF i = Len(s) THEN d ELSE s[i]
    BY <1>1, ExceptSeq
  <2>2. /\ a \in Seq(Decode) /\ Len(a) = Len(s)
        /\ \A i \in 1 .. Len(s) : a[i] = IF i = Len(s) THEN d ELSE s[i]
    <3>1. /\ a \in Seq(Decode) /\ Len(a) = Len(Front(s)) + 1
          /\ \A i \in 1 .. Len(Front(s)) : a[i] = Front(s)[i]
          /\ a[Len(Front(s)) + 1] = d
      BY <1>2, AppendProperties
    <3>. HIDE DEF a
    <3>. QED  BY <1>1, <1>2, <3>1
  <2>. HIDE DEF e, a
  <2>3. e = a  BY <2>1, <2>2, SeqEqual
  <2>. QED  BY <2>3 DEF e, a
<1>5. [s EXCEPT ![Len(s)] = Last(s)] = s  BY <1>1, <1>3
<1>6. s = Append(Front(s), Last(s))  BY <1>3, <1>4, <1>5
<1>. QED  BY <1>2, <1>3, <1>4, <1>6
-----------------------------------------------------------------------------
(* The invariant *)

LEMMA ValuesAtFirst == ValueInit => ValuesInv
<1>. SUFFICES ASSUME ValueInit  PROVE ValuesInv
  OBVIOUS
<1>1. /\ decodes \in Seq(Decode) /\ Pending = {} /\ Made = {} /\ Disposing = {}
      /\ Apart(decodes, doubtful)
  BY EmptySeq DEF ValueInit, Pending, Made, Disposing, ToSet, Apart
<1>2. Live = {} /\ Owners = {} /\ value \in [Live -> Handles \cup {None}]
  BY DEF ValueInit, Live, Owners
<1>3. ValuesOf(Owners) = {}  BY <1>2 DEF ValuesOf
<1>4. ValueTypeOK  BY <1>1, <1>2 DEF ValueInit, ValueTypeOK
<1>. QED
  BY <1>1, <1>2, <1>3, <1>4 DEF ValueInit, ValuesInv, NothingDangles, NoStaleValue, NothingForgotten

(* What the state says of a stack of replies *)
LEMMA Stack ==
    /\ Pending = PendingIn(decodes) /\ Made = MadeIn(decodes) /\ Disposing = OfIn(decodes)
    /\ Pending' = PendingIn(decodes') /\ Made' = MadeIn(decodes') /\ Disposing' = OfIn(decodes')
BY DEF Pending, Made, Disposing, PendingIn, MadeIn, OfIn

(* The parts of the invariant in terms of the replies outside the          *)
(* innermost one and the innermost one                                     *)
LEMMA Split ==
    ASSUME ValuesInv, decodes /= << >>
    PROVE  /\ Front(decodes) \in Seq(Decode) /\ Innermost \in Decode
           /\ decodes = Append(Front(decodes), Innermost)
           /\ Apart(Front(decodes), doubtful)
           /\ Pending = PendingIn(Front(decodes)) \cup Innermost.pending
           /\ Made = MadeIn(Front(decodes)) \cup Innermost.made
           /\ Disposing = OfIn(Front(decodes)) \cup Innermost.of
           /\ PendingIn(Front(decodes)) \cap Innermost.pending \subseteq doubtful
<1>. DEFINE f == Front(decodes)
            d == Innermost
<1>1. decodes \in Seq(Decode) /\ Apart(decodes, doubtful)  BY DEF ValuesInv, ValueTypeOK
<1>2. f \in Seq(Decode) /\ d \in Decode /\ decodes = Append(f, d)
  BY <1>1, InnermostLast DEF Innermost
<1>. HIDE DEF f, d
<1>3. /\ PendingIn(decodes) = PendingIn(f) \cup d.pending
      /\ MadeIn(decodes) = MadeIn(f) \cup d.made
      /\ OfIn(decodes) = OfIn(f) \cup d.of
      /\ Apart(f, doubtful) /\ PendingIn(f) \cap d.pending \subseteq doubtful
  BY <1>1, <1>2, OnTop
<1>. QED  BY <1>2, <1>3, Stack DEF f, d

(* The innermost reply becomes d *)
LEMMA Reworked ==
    ASSUME ValuesInv, decodes /= << >>, NEW d \in Decode,
           d.pending \subseteq Innermost.pending, d.of = Innermost.of,
           decodes' = [decodes EXCEPT ![Len(decodes)] = d]
    PROVE  /\ decodes' \in Seq(Decode) /\ Apart(decodes', doubtful)
           /\ Pending' = PendingIn(Front(decodes)) \cup d.pending
           /\ Made' = MadeIn(Front(decodes)) \cup d.made
           /\ Disposing' = Disposing
<1>. DEFINE f == Front(decodes)
<1>1. decodes' = Append(f, d)
  BY InnermostLast DEF ValuesInv, ValueTypeOK
<1>2. /\ f \in Seq(Decode) /\ Apart(f, doubtful)
      /\ PendingIn(f) \cap d.pending \subseteq doubtful /\ Disposing = OfIn(f) \cup d.of
  BY Split
<1>. HIDE DEF f
<1>3. /\ Append(f, d) \in Seq(Decode) /\ Apart(Append(f, d), doubtful)
      /\ PendingIn(Append(f, d)) = PendingIn(f) \cup d.pending
      /\ MadeIn(Append(f, d)) = MadeIn(f) \cup d.made
      /\ OfIn(Append(f, d)) = OfIn(f) \cup d.of
  BY <1>2, OnTop
<1>. QED  BY <1>1, <1>2, <1>3, Stack DEF f

(* The host, which keeps these handles, answers with values: what it does  *)
(* not keep is nobody's but that of the objects being disposed of, or      *)
(* doubtful                                                                *)
LEMMA AnswerKeeps ==
    ASSUME ValuesInv, NEW kept, NEW of, Answer(kept, of), kept \subseteq table,
           of \subseteq held, doubtful \subseteq doubtful',
           (ValuesOf(Owners \ of) \cup Pending) \cap (table \ kept) \subseteq doubtful',
           ValuesOf(of) \cap kept = {}
    PROVE  ValuesInv'
<1>1. PICK new \in SUBSET (Handles \ kept) :
         /\ table' = kept \cup new
         /\ decodes' = Append(decodes,
                              [pending |-> new, made |-> {}, hook |-> FALSE, of |-> of])
  BY DEF Answer
<1>2. UNCHANGED <<value, held, hooked, collected, undelivered>>  BY DEF Answer
<1>. DEFINE d == [pending |-> new, made |-> {}, hook |-> FALSE, of |-> of]
<1>3. d \in Decode /\ d.pending = new /\ d.made = {} /\ d.of = of
  <2>1. new \in SUBSET Handles /\ of \in SUBSET Objects
    BY <1>1 DEF ValuesInv, ValueTypeOK
  <2>. QED  BY <2>1 DEF Decode
<1>4. decodes' = Append(decodes, d)  BY <1>1
<1>. HIDE DEF d
<1>5. Pending \cap new \subseteq doubtful' /\ ValuesOf(Owners \ of) \cap new \subseteq doubtful'
  <2>1. ValuesOf(Owners \ of) \subseteq ValuesOf(Owners)  BY DEF ValuesOf
  <2>2. ValuesOf(Owners) \cup Pending \subseteq table \cup doubtful
    BY DEF ValuesInv, NoStaleValue
  <2>. QED  BY <1>1, <2>1, <2>2
<1>6. decodes \in Seq(Decode) /\ Apart(decodes, doubtful')
  BY DEF ValuesInv, ValueTypeOK, Apart
<1>7. /\ decodes' \in Seq(Decode) /\ Apart(decodes', doubtful')
      /\ PendingIn(decodes') = PendingIn(decodes) \cup new
      /\ MadeIn(decodes') = MadeIn(decodes)
      /\ OfIn(decodes') = OfIn(decodes) \cup of
  <2>1. PendingIn(decodes) \cap d.pending \subseteq doubtful'  BY <1>3, <1>5, Stack
  <2>2. /\ Append(decodes, d) \in Seq(Decode) /\ Apart(Append(decodes, d), doubtful')
        /\ PendingIn(Append(decodes, d)) = PendingIn(decodes) \cup d.pending
        /\ MadeIn(Append(decodes, d)) = MadeIn(decodes) \cup d.made
        /\ OfIn(Append(decodes, d)) = OfIn(decodes) \cup d.of
    BY <1>3, <1>6, <2>1, OnTop
  <2>. QED  BY <1>3, <1>4, <2>2
<1>8. Pending' = Pending \cup new /\ Made' = Made /\ Disposing' = Disposing \cup of
  BY <1>7, Stack
<1>9. /\ Live' = Live /\ Owners' = Owners \ of
      /\ \A o \in Live : value'[o] = value[o]
  BY <1>2, <1>8 DEF Live, Owners
<1>10. ValuesOf(Owners)' = ValuesOf(Owners \ of)
  BY <1>2, <1>9 DEF ValuesOf
<1>11. ValuesOf(Owners \ of) \subseteq ValuesOf(Owners)
       /\ ValuesOf(Owners) \subseteq ValuesOf(Owners \ of) \cup ValuesOf(of)
  BY DEF ValuesOf
<1>12. ValueTypeOK'  BY <1>1, <1>2, <1>7, <1>9 DEF ValuesInv, ValueTypeOK
<1>13. NothingDangles'  BY <1>2, <1>8, <1>9 DEF ValuesInv, NothingDangles
<1>14. NoStaleValue'
  <2>1. (ValuesOf(Owners) \cup Pending \subseteq table \cup doubtful)'
    BY <1>1, <1>8, <1>10, <1>11 DEF ValuesInv, NoStaleValue
  <2>2. (ValuesOf(Owners) \cap Pending \subseteq doubtful)'
    BY <1>5, <1>8, <1>10, <1>11 DEF ValuesInv, NoStaleValue
  <2>3. ASSUME NEW o \in Owners', NEW p \in Owners', value'[o] = value'[p],
               value'[o] \notin doubtful' \cup {None}
        PROVE  o = p
    <3>1. o \in Owners /\ p \in Owners /\ value[o] = value[p]
          /\ value[o] \notin doubtful \cup {None}
      BY <1>9, <2>3 DEF Owners
    <3>. QED  BY <3>1 DEF ValuesInv, NoStaleValue
  <2>. QED  BY <2>1, <2>2, <2>3 DEF NoStaleValue
<1>15. NothingForgotten'
  BY <1>1, <1>2, <1>8, <1>10, <1>11 DEF ValuesInv, NothingForgotten
<1>. QED  BY <1>7, <1>12, <1>13, <1>14, <1>15 DEF ValuesInv

LEMMA ReplyKeeps == ASSUME ValuesInv, Reply  PROVE ValuesInv'
<1>1. Answer(table, {}) /\ doubtful' = doubtful  BY DEF Reply
<1>2. table \ table = {} /\ ValuesOf({}) = {}  BY DEF ValuesOf
<1>. QED  BY <1>1, <1>2, AnswerKeeps

LEMMA CreateValueKeeps ==
    ASSUME ValuesInv, NEW h \in Handles, NEW o \in Objects, CreateValue(h, o)  PROVE ValuesInv'
<1>. DEFINE d == [pending |-> Innermost.pending \ {h}, hook |-> hooked, of |-> Innermost.of,
                 made |-> IF hooked THEN Innermost.made ELSE Innermost.made \cup {o}]
<1>1. /\ decodes /= << >> /\ h \in Innermost.pending /\ o \notin Live
      /\ value' = [p \in Live \cup {o} |-> IF p = o THEN h ELSE value[p]]
      /\ held' = IF hooked THEN held \cup {o} ELSE held
      /\ UNCHANGED <<table, hooked, request, collected, undelivered, doubtful>>
  BY DEF CreateValue
<1>2. decodes' = [decodes EXCEPT ![Len(decodes)] = d]
  BY DEF CreateValue, Innermost, Last
<1>3. d \in Decode /\ d.of = Innermost.of
  BY <1>1, Split DEF Decode, ValuesInv, ValueTypeOK
<1>4. /\ decodes' \in Seq(Decode) /\ Apart(decodes', doubtful')
      /\ Pending' = PendingIn(Front(decodes)) \cup d.pending
      /\ Made' = MadeIn(Front(decodes)) \cup d.made
      /\ Disposing' = Disposing
  BY <1>1, <1>2, <1>3, Reworked
<1>5. /\ Pending \ {h} \subseteq Pending' /\ Pending' \subseteq Pending /\ h \in Pending
      /\ h \in Pending' => h \in doubtful
  BY <1>1, <1>4, Split
<1>6. held' \cup Made' \subseteq held \cup Made \cup {o}  BY <1>1, <1>4, Split
<1>7. Live' = Live \cup {o} /\ Owners' = Owners \cup {o} /\ o \notin Owners
  <2>1. o \notin Disposing  BY <1>1 DEF ValuesInv, NothingDangles
  <2>. QED  BY <1>1, <1>4, <2>1 DEF Live, Owners
<1>8. /\ \A r \in Owners : value'[r] = value[r]
      /\ value'[o] = h
  BY <1>1 DEF Owners
<1>9. ValuesOf(Owners)' = ValuesOf(Owners) \cup {h}
  BY <1>7, <1>8, NoneAssumption DEF ValuesOf
<1>10. h \in ValuesOf(Owners) => h \in doubtful  BY <1>5 DEF ValuesInv, NoStaleValue
<1>11. ValueTypeOK'  BY <1>1, <1>4, <1>7 DEF ValuesInv, ValueTypeOK
<1>12. NothingDangles'  BY <1>4, <1>6, <1>7 DEF ValuesInv, NothingDangles
<1>13. NoStaleValue'
  <2>1. (ValuesOf(Owners) \cup Pending \subseteq table \cup doubtful)'
    BY <1>1, <1>5, <1>9 DEF ValuesInv, NoStaleValue
  <2>2. (ValuesOf(Owners) \cap Pending \subseteq doubtful)'
    BY <1>1, <1>5, <1>9 DEF ValuesInv, NoStaleValue
  <2>3. ASSUME NEW p \in Owners', NEW q \in Owners', value'[p] = value'[q],
               value'[p] \notin doubtful' \cup {None}
        PROVE  p = q
    <3>1. \A r \in Owners : value[r] /= None => value[r] \in ValuesOf(Owners)
      BY DEF ValuesOf
    <3>2. \A r \in Owners : value'[r] \notin doubtful \cup {None} => value'[r] /= h
      BY <1>8, <1>10, <3>1
    <3>. QED  BY <1>1, <1>7, <1>8, <2>3, <3>2 DEF ValuesInv, NoStaleValue
  <2>. QED  BY <2>1, <2>2, <2>3 DEF NoStaleValue
<1>14. NothingForgotten'
  BY <1>1, <1>5, <1>9 DEF ValuesInv, NothingForgotten
<1>. QED  BY <1>4, <1>11, <1>12, <1>13, <1>14 DEF ValuesInv

LEMMA HookReturnsKeeps == ASSUME ValuesInv, HookReturns  PROVE ValuesInv'
<1>1. PICK answer \in SUBSET held :
         decodes' = [decodes EXCEPT ![Len(decodes)].hook = FALSE,
                                    ![Len(decodes)].made = @ \cup answer]
  BY DEF HookReturns
<1>2. /\ decodes /= << >>
      /\ UNCHANGED <<table, value, held, hooked, request, collected, undelivered, doubtful>>
  BY DEF HookReturns
<1>. DEFINE d == [Innermost EXCEPT !.hook = FALSE, !.made = @ \cup answer]
<1>3. /\ d \in Decode /\ d.pending = Innermost.pending /\ d.of = Innermost.of
      /\ d.made = Innermost.made \cup answer
  BY <1>2, Split DEF Decode, ValuesInv, ValueTypeOK
<1>4. decodes' = [decodes EXCEPT ![Len(decodes)] = d]
  <2>1. Len(decodes) \in 1 .. Len(decodes) /\ Len(decodes) \in DOMAIN decodes
    BY <1>2, EmptySeq, LenProperties DEF ValuesInv, ValueTypeOK
  <2>2. decodes[Len(decodes)] = Innermost  BY DEF Innermost, Last
  <2>. QED  BY <1>1, <2>1, <2>2
<1>. HIDE DEF d
<1>5. /\ decodes' \in Seq(Decode) /\ Apart(decodes', doubtful')
      /\ Pending' = PendingIn(Front(decodes)) \cup d.pending
      /\ Made' = MadeIn(Front(decodes)) \cup d.made
      /\ Disposing' = Disposing
  BY <1>2, <1>3, <1>4, Reworked
<1>6. Pending' = Pending /\ Made' = Made \cup answer  BY <1>2, <1>3, <1>5, Split
<1>7. Live' = Live /\ Owners' = Owners /\ ValuesOf(Owners)' = ValuesOf(Owners)
  BY <1>2, <1>5 DEF Live, Owners, ValuesOf
<1>8. ValueTypeOK'  BY <1>2, <1>5, <1>7 DEF ValuesInv, ValueTypeOK
<1>9. NothingDangles'  BY <1>2, <1>5, <1>6, <1>7 DEF ValuesInv, NothingDangles
<1>10. NoStaleValue'  BY <1>2, <1>6, <1>7 DEF ValuesInv, NoStaleValue
<1>11. NothingForgotten'  BY <1>2, <1>6, <1>7 DEF ValuesInv, NothingForgotten
<1>. QED  BY <1>5, <1>8, <1>9, <1>10, <1>11 DEF ValuesInv

(* The innermost reply is left, decoded to its end or not: the objects     *)
(* that it was the dispose() of are cleared, or what they keep is doubtful *)
LEMMA LeftKeeps == ASSUME ValuesInv, RaiseThrough \/ Decoded  PROVE ValuesInv'
<1>1. /\ decodes /= << >> /\ decodes' = Front(decodes)
      /\ UNCHANGED <<table, hooked, request, collected>>
      /\ doubtful \subseteq doubtful'
  BY DEF RaiseThrough, Decoded
<1>2. /\ decodes' \in Seq(Decode) /\ Apart(decodes', doubtful')
      /\ Pending = Pending' \cup Innermost.pending
      /\ Made = Made' \cup Innermost.made
      /\ Disposing = Disposing' \cup Innermost.of
  <2>1. Front(decodes) \in Seq(Decode) /\ Apart(Front(decodes), doubtful')
    BY <1>1, Split DEF Apart
  <2>. QED  BY <1>1, <2>1, Split, Stack
<1>3. held \subseteq held' /\ held' \cup Made' \subseteq held \cup Made
  BY <1>2 DEF RaiseThrough, Decoded
<1>4. undelivered \cup Pending \subseteq undelivered' \cup Pending'
  BY <1>2 DEF RaiseThrough, Decoded
<1>5. /\ Live' = Live /\ value' \in [Live -> Handles \cup {None}]
      /\ \A o \in Live \ Innermost.of : value'[o] = value[o]
      /\ \A o \in Live \cap Innermost.of : value'[o] \in doubtful' \cup {None}
  <2>1. value \in [Live -> Handles \cup {None}]  BY DEF ValuesInv, ValueTypeOK
  <2>2. CASE UNCHANGED value /\ doubtful' = doubtful \cup ValuesOf(Innermost.of)
    BY <2>1, <2>2 DEF Live, ValuesOf
  <2>3. CASE value' = [o \in Live |-> IF o \in Innermost.of THEN None ELSE value[o]]
    BY <2>1, <2>3 DEF Live
  <2>. QED  BY <2>2, <2>3 DEF RaiseThrough, Decoded
<1>6. /\ Owners \subseteq Owners' /\ Owners' \subseteq Owners \cup (Live \cap Innermost.of)
      /\ Owners \cap Innermost.of = {} /\ Owners \subseteq Live
  BY <1>2, <1>5 DEF Owners
<1>7. /\ \A o \in Owners : value'[o] = value[o]
      /\ \A o \in Owners' : o \in Owners \/ value'[o] \in doubtful' \cup {None}
  BY <1>5, <1>6
<1>8. /\ ValuesOf(Owners) \subseteq ValuesOf(Owners)'
      /\ ValuesOf(Owners)' \subseteq ValuesOf(Owners) \cup doubtful'
  BY <1>6, <1>7 DEF ValuesOf
<1>9. NothingDangles'  BY <1>2, <1>3, <1>5 DEF ValuesInv, NothingDangles
<1>10. ValueTypeOK'  BY <1>1, <1>2, <1>5, <1>9 DEF ValuesInv, ValueTypeOK, NothingDangles
<1>11. NoStaleValue'
  <2>1. (ValuesOf(Owners) \cup Pending \subseteq table \cup doubtful)'
    BY <1>1, <1>2, <1>8 DEF ValuesInv, NoStaleValue
  <2>2. (ValuesOf(Owners) \cap Pending \subseteq doubtful)'
    BY <1>1, <1>2, <1>8 DEF ValuesInv, NoStaleValue
  <2>3. \A o, p \in Owners' :
           value'[o] = value'[p] /\ value'[o] \notin doubtful' \cup {None} => o = p
    BY <1>1, <1>7 DEF ValuesInv, NoStaleValue
  <2>. QED  BY <2>1, <2>2, <2>3 DEF NoStaleValue
<1>12. NothingForgotten'  BY <1>1, <1>4, <1>8 DEF ValuesInv, NothingForgotten
<1>. QED  BY <1>2, <1>9, <1>10, <1>11, <1>12 DEF ValuesInv

(* What the host lets go of is nobody else's, or doubtful *)
LEMMA LetGoOfOwn ==
    ASSUME ValuesInv, NEW o \in held, value[o] /= None, LetGo(o)
    PROVE  /\ doubtful \subseteq doubtful'
           /\ (ValuesOf(Owners \ {o}) \cup Pending) \cap {value[o]} \cap table \subseteq doubtful'
<1>1. o \in Live  BY DEF ValuesInv, NothingDangles
<1>2. doubtful \subseteq doubtful'  BY DEF LetGo
<1>3. CASE o \in Disposing  BY <1>2, <1>3 DEF LetGo
<1>4. CASE o \notin Disposing
  <2>1. o \in Owners  BY <1>1, <1>4 DEF Owners
  <2>2. value[o] \in ValuesOf(Owners)  BY <2>1 DEF ValuesOf
  <2>3. value[o] \in Pending => value[o] \in doubtful  BY <2>2 DEF ValuesInv, NoStaleValue
  <2>4. value[o] \in ValuesOf(Owners \ {o}) => value[o] \in doubtful
    <3>. SUFFICES ASSUME NEW p \in Owners \ {o}, value[p] = value[o]
                  PROVE  value[o] \in doubtful
      BY DEF ValuesOf
    <3>. QED  BY <2>1 DEF ValuesInv, NoStaleValue
  <2>. QED  BY <1>2, <2>3, <2>4
<1>. QED  BY <1>2, <1>3, <1>4

(* What changes neither values, nor replies, nor the table, nor what is lost *)
LEMMA QuietKeeps ==
    ASSUME ValuesInv, held' \subseteq held, hooked' \in BOOLEAN,
           UNCHANGED <<table, value, decodes, collected, undelivered, doubtful>>
    PROVE  ValuesInv'
<1>1. Pending' = Pending /\ Made' = Made /\ Disposing' = Disposing  BY Stack
<1>2. Live' = Live /\ Owners' = Owners /\ ValuesOf(Owners)' = ValuesOf(Owners)
  BY <1>1 DEF Live, Owners, ValuesOf
<1>. QED
  BY <1>1, <1>2 DEF ValuesInv, ValueTypeOK, NothingDangles, NoStaleValue, NothingForgotten

LEMMA DisposeKeeps == ASSUME ValuesInv, NEW o \in Objects, Dispose(o)  PROVE ValuesInv'
<1>1. o \in held /\ value[o] /= None /\ o \in Live
  BY DEF Dispose, ValuesInv, NothingDangles
<1>2. CASE Answer(table \ {value[o]}, {o}) /\ LetGo(o)
  <2>1. table \ (table \ {value[o]}) \subseteq {value[o]} \cap table  OBVIOUS
  <2>2. ValuesOf({o}) \cap (table \ {value[o]}) = {}  BY DEF ValuesOf
  <2>3. /\ doubtful \subseteq doubtful'
        /\ (ValuesOf(Owners \ {o}) \cup Pending) \cap {value[o]} \cap table \subseteq doubtful'
    BY <1>1, <1>2, LetGoOfOwn
  <2>4. (ValuesOf(Owners \ {o}) \cup Pending) \cap (table \ (table \ {value[o]})) \subseteq doubtful'
    BY <2>1, <2>3
  <2>. QED  BY <1>1, <1>2, <2>2, <2>3, <2>4, AnswerKeeps
<1>3. CASE Reply  BY <1>3, ReplyKeeps
<1>4. CASE UNCHANGED <<table, value, held, decodes, hooked, collected, undelivered, doubtful>>
  <2>1. hooked \in BOOLEAN  BY DEF ValuesInv, ValueTypeOK
  <2>. QED  BY <1>4, <2>1, QuietKeeps
<1>5. CASE /\ table' = table \ {value[o]} /\ LetGo(o)
           /\ value' = [value EXCEPT ![o] = None]
           /\ UNCHANGED <<held, decodes, hooked, collected, undelivered>>
  <2>1. /\ doubtful \subseteq doubtful'
        /\ (ValuesOf(Owners \ {o}) \cup Pending) \cap {value[o]} \cap table \subseteq doubtful'
    BY <1>1, <1>5, LetGoOfOwn
  <2>2. Pending' = Pending /\ Made' = Made /\ Disposing' = Disposing  BY <1>5, Stack
  <2>3. /\ Live' = Live /\ Owners' = Owners /\ Owners \subseteq Live
        /\ \A p \in Live : value'[p] = IF p = o THEN None ELSE value[p]
    BY <1>5, <2>2 DEF Live, Owners
  <2>4. ValuesOf(Owners)' = ValuesOf(Owners \ {o})  BY <2>3 DEF ValuesOf
  <2>5. /\ ValuesOf(Owners \ {o}) \subseteq ValuesOf(Owners)
        /\ ValuesOf(Owners) \subseteq ValuesOf(Owners \ {o}) \cup {value[o]}
    BY DEF ValuesOf
  <2>6. value' \in [Live' -> Handles \cup {None}]
    BY <1>5, <2>3 DEF ValuesInv, ValueTypeOK
  <2>7. Apart(decodes', doubtful')  BY <1>5, <2>1 DEF ValuesInv, Apart
  <2>8. ValueTypeOK'  BY <1>5, <2>3, <2>6 DEF ValuesInv, ValueTypeOK
  <2>9. NothingDangles'  BY <1>5, <2>2, <2>3 DEF ValuesInv, NothingDangles
  <2>10. NoStaleValue'
    <3>1. (ValuesOf(Owners) \cup Pending \subseteq table \cup doubtful)'
      BY <1>5, <2>1, <2>2, <2>4, <2>5 DEF ValuesInv, NoStaleValue
    <3>2. (ValuesOf(Owners) \cap Pending \subseteq doubtful)'
      BY <2>1, <2>2, <2>4, <2>5 DEF ValuesInv, NoStaleValue
    <3>3. \A p, q \in Owners' :
             value'[p] = value'[q] /\ value'[p] \notin doubtful' \cup {None} => p = q
      BY <2>1, <2>3 DEF ValuesInv, NoStaleValue
    <3>. QED  BY <3>1, <3>2, <3>3 DEF NoStaleValue
  <2>11. NothingForgotten'
    BY <1>5, <2>2, <2>4, <2>5 DEF ValuesInv, NothingForgotten
  <2>. QED  BY <2>7, <2>8, <2>9, <2>10, <2>11 DEF ValuesInv
<1>. QED  BY <1>2, <1>3, <1>4, <1>5 DEF Dispose

LEMMA CollectKeeps == ASSUME ValuesInv, Collect  PROVE ValuesInv'
<1>1. /\ value' = [o \in Live \cap Reachable |-> value[o]]
      /\ collected' = collected \cup ValuesOf(Live \ Reachable)
      /\ UNCHANGED <<table, held, decodes, hooked, request, undelivered, doubtful>>
  BY DEF Collect
<1>2. Pending' = Pending /\ Made' = Made /\ Disposing' = Disposing  BY <1>1, Stack
<1>3. /\ Live' = Live \cap Reachable /\ \A o \in Live' : value'[o] = value[o]
      /\ Owners' = Owners \cap Reachable /\ Owners' \subseteq Live'
  BY <1>1, <1>2 DEF Live, Owners
<1>4. ValuesOf(Owners)' \subseteq ValuesOf(Owners)  BY <1>3 DEF ValuesOf
<1>5. ValuesOf(Owners) \subseteq ValuesOf(Owners)' \cup ValuesOf(Live \ Reachable)
  BY <1>3 DEF ValuesOf, Owners
<1>6. ValueTypeOK'  BY <1>1, <1>3 DEF ValuesInv, ValueTypeOK
<1>7. NothingDangles'
  BY <1>1, <1>2, <1>3 DEF ValuesInv, NothingDangles, Reachable
<1>8. NoStaleValue'
  <2>1. /\ (ValuesOf(Owners) \cup Pending \subseteq table \cup doubtful)'
        /\ (ValuesOf(Owners) \cap Pending \subseteq doubtful)'
    BY <1>1, <1>2, <1>4 DEF ValuesInv, NoStaleValue
  <2>2. \A p, q \in Owners' :
           value'[p] = value'[q] /\ value'[p] \notin doubtful' \cup {None} => p = q
    BY <1>1, <1>3 DEF ValuesInv, NoStaleValue
  <2>. QED  BY <2>1, <2>2 DEF NoStaleValue
<1>9. NothingForgotten'
  BY <1>1, <1>2, <1>5 DEF ValuesInv, NothingForgotten
<1>. QED  BY <1>1, <1>6, <1>7, <1>8, <1>9 DEF ValuesInv

LEMMA NextKeepsValues == ValuesInv /\ [ValueNext]_valueVars => ValuesInv'
<1>. SUFFICES ASSUME ValuesInv, [ValueNext]_valueVars  PROVE ValuesInv'
  OBVIOUS
<1>. hooked \in BOOLEAN  BY DEF ValuesInv, ValueTypeOK
<1>1. CASE HookValue  BY <1>1, QuietKeeps DEF HookValue
<1>2. CASE Component  BY <1>2, ReplyKeeps DEF Component
<1>3. CASE HookReturns  BY <1>3, HookReturnsKeeps
<1>4. CASE RaiseThrough \/ Decoded  BY <1>4, LeftKeeps
<1>5. CASE Collect  BY <1>5, CollectKeeps
<1>6. ASSUME NEW o \in Objects, Dispose(o)  PROVE ValuesInv'
  BY <1>6, DisposeKeeps
<1>7. ASSUME NEW o \in Objects, Forget(o)  PROVE ValuesInv'
  BY <1>7, QuietKeeps DEF Forget
<1>8. ASSUME NEW o \in Objects, NEW op \in Operations, Operate(o, op)  PROVE ValuesInv'
  <2>1. CASE Reply  BY <2>1, ReplyKeeps
  <2>2. CASE UNCHANGED <<table, value, held, decodes, hooked, collected, undelivered, doubtful>>
    BY <2>2, QuietKeeps
  <2>. QED  BY <1>8, <2>1, <2>2 DEF Operate
<1>9. ASSUME NEW o \in Objects, NEW h \in Handles, CreateValue(h, o)  PROVE ValuesInv'
  BY <1>9, CreateValueKeeps
<1>10. CASE UNCHANGED valueVars  BY <1>10, QuietKeeps DEF valueVars
<1>. QED
  BY <1>1, <1>2, <1>3, <1>4, <1>5, <1>6, <1>7, <1>8, <1>9, <1>10 DEF ValueNext

LEMMA ValuesHold == ValueSpec => []ValuesInv
BY ValuesAtFirst, NextKeepsValues, PTL DEF ValueSpec

-----------------------------------------------------------------------------
(* No object that Python code, a tuple under construction or a dispose()   *)
(* under way refers to is ever taken by the collector, for any number of   *)
(* values, objects and nested replies (gccollect.c:40-47, msgpack.c:87-91, *)
(* moduvalue.c:15-16).                                                     *)
THEOREM ObjectsStay == ValueSpec => []NothingDangles
<1>1. ValuesInv => NothingDangles  BY DEF ValuesInv
<1>. QED  BY <1>1, ValuesHold, PTL

(* Every value that the firmware has, in an object that is not just being  *)
(* disposed of or in a reply, is one that the host still knows, and the    *)
(* firmware has it once, whatever the hooks did between, but for the       *)
(* handles that the host let go of in a dispose() that did not come back   *)
(* with a result, or that was called again from within (moduvalue.c:13-16) *)
THEOREM ValuesAreFresh == ValueSpec => []NoStaleValue
<1>1. ValuesInv => NoStaleValue  BY DEF ValuesInv
<1>. QED  BY <1>1, ValuesHold, PTL

(* The host keeps no value that the firmware has forgotten, but for those  *)
(* lost with a collected object or a reply that was cut short              *)
(* (moduvalue.c:14-16, 57, 70; msgpack.c:114-119).                         *)
THEOREM ValuesAreKept == ValueSpec => []NothingForgotten
<1>1. ValuesInv => NothingForgotten  BY DEF ValuesInv
<1>. QED  BY <1>1, ValuesHold, PTL

-----------------------------------------------------------------------------
(* The messages that Python code sends: MpackWriter *)

(* What holds of a writer x after k bytes were asked of it *)
Sound(x, k) ==
    /\ x \in Writer
    /\ x.error \in {"ok", "memory"}
    /\ x.used <= x.size
    /\ x.size > 0 => x.buffer \in Nat /\ x.heap = {x.buffer}
    /\ x.size = 0 => x.buffer = NULL /\ x.heap = {}
    /\ x.error = "ok" => /\ x.flush /\ x.size >= Capacity /\ x.used = k
                         /\ \A i \in 1 .. k : x.mem[i] = i

LEMMA DoomedStaysSound ==
    ASSUME NEW x, NEW k \in Nat, NEW n \in Nat, Sound(x, k), x.error /= "ok"
    PROVE  Sound(x, k + n)
BY DEF Sound

(* Storing at the cursor what fits *)
LEMMA PutSound ==
    ASSUME NEW x, NEW k \in Nat, NEW n \in Nat, k + n <= MaxAsked,
           Sound(x, k), n <= Left(x)
    PROVE  Sound(Put(x, k, n), k + n)
<1>. DEFINE m == [i \in BytePlaces |-> IF i \in (x.used + 1) .. (x.used + n)
                                   THEN k + (i - x.used) ELSE x.mem[i]]
            y == Put(x, k, n)
<1>1. x \in Writer /\ x.used \in Nat /\ x.size \in Nat
      /\ x.mem \in [BytePlaces -> Nat]
  BY DEF Sound, Writer
<1>2. m \in [BytePlaces -> Nat]
  <2>1. ASSUME NEW i \in BytePlaces, i \in (x.used + 1) .. (x.used + n)
        PROVE  k + (i - x.used) \in Nat
    BY <1>1, <2>1 DEF BytePlaces
  <2>2. ASSUME NEW i \in BytePlaces  PROVE  x.mem[i] \in Nat
    BY <1>1
  <2>. QED  BY <2>1, <2>2
<1>3. /\ y \in Writer /\ y.used = x.used + n /\ y.mem = m
      /\ y.error = x.error /\ y.buffer = x.buffer /\ y.size = x.size
      /\ y.flush = x.flush /\ y.heap = x.heap
  <2>1. y = [x EXCEPT !.used = @ + n, !.mem = m]  BY DEF Put
  <2>2. x.used + n \in Nat  BY <1>1
  <2>. HIDE DEF m, y
  <2>. QED  BY <1>1, <1>2, <2>1, <2>2 DEF Writer
<1>4. x.used + n <= x.size  BY <1>1 DEF Left
<1>5. ASSUME x.error = "ok"
      PROVE  y.used = k + n /\ \A i \in 1 .. k + n : y.mem[i] = i
  BY <1>1, <1>3, <1>5, BoundAssumption DEF Sound, BytePlaces
<1>. HIDE DEF m, y
<1>6. Sound(y, k + n)  BY <1>1, <1>3, <1>4, <1>5 DEF Sound
<1>. QED  BY <1>6 DEF y

(* Growing never loses a byte, and makes at least the room of the old      *)
(* buffer again                                                            *)
LEMMA NewSizesGrow ==
    ASSUME NEW size \in Nat, NEW need \in Nat, NEW s \in NewSizes(size, need)
    PROVE  s \in Nat /\ s >= 2 * size /\ s >= need
<1>1. PICK m \in 2 .. MaxSize : s = size * m
  BY DEF NewSizes, Doublings
<1>2. m \in Int /\ m >= 2  BY <1>1, BoundAssumption
<1>3. size * m = 2 * size + size * (m - 2)  BY <1>2
<1>4. size * (m - 2) \in Nat  BY <1>2
<1>5. s >= need  BY DEF NewSizes
<1>. QED  BY <1>1, <1>2, <1>3, <1>4, <1>5

(* A moved block replaces the one block of the writer *)
LEMMA MovedFacts ==
    ASSUME NEW x \in Writer, x.buffer \in Nat, x.heap = {x.buffer}, NEW s \in Nat
    PROVE  LET y == Moved(x, s)
           IN  /\ y \in Writer /\ y.buffer \in Nat /\ y.heap = {y.buffer}
               /\ y.size = s /\ y.used = x.used /\ y.mem = x.mem
               /\ y.error = x.error /\ y.flush = x.flush
<1>. DEFINE y == Moved(x, s)
            next == x.buffer + 1
<1>1. (x.heap \ {x.buffer}) \cup {next} = {next}
  <2>1. x.heap \ {x.buffer} = {}  OBVIOUS
  <2>. HIDE DEF next
  <2>2. {} \cup {next} = {next}  OBVIOUS
  <2>. QED  BY <2>1, <2>2
<1>2. next \in Nat /\ {next} \in SUBSET Nat  OBVIOUS
<1>3. y = [x EXCEPT !.buffer = next, !.size = s, !.heap = {next}]
  BY <1>1 DEF Moved
<1>. HIDE DEF next, y
<1>4. /\ y \in Writer /\ y.buffer \in Nat /\ y.heap = {y.buffer}
      /\ y.size = s /\ y.used = x.used /\ y.mem = x.mem
      /\ y.error = x.error /\ y.flush = x.flush
  BY <1>2, <1>3 DEF Writer
<1>. QED  BY <1>4 DEF y

LEMMA GrownSound ==
    ASSUME NEW x, NEW k \in Nat, Sound(x, k), x.error = "ok",
           NEW need \in Nat, NEW y \in Grown(x, need)
    PROVE  /\ Sound(y, k)
           /\ y.error = "ok" => /\ y.used = x.used /\ y.size >= need
                                /\ y.size >= 2 * x.size
<1>1. x \in Writer /\ x.size \in Nat /\ x.size > 0 /\ x.buffer \in Nat
  BY CapacityAssumption DEF Sound, Writer
<1>2. CASE y = FlagError(x, "memory")
  BY <1>1, <1>2 DEF FlagError, Sound, Writer, Errors
<1>3. ASSUME NEW s \in NewSizes(x.size, need), y = Moved(x, s)
      PROVE  /\ Sound(y, k)
             /\ y.used = x.used /\ y.size >= need /\ y.size >= 2 * x.size
  <2>1. s \in Nat /\ s >= 2 * x.size /\ s >= need
    BY <1>1, NewSizesGrow
  <2>2. x.buffer \in Nat /\ x.heap = {x.buffer}  BY <1>1 DEF Sound
  <2>4. /\ y \in Writer /\ y.buffer \in Nat /\ y.size = s
        /\ y.heap = {y.buffer} /\ y.used = x.used /\ y.mem = x.mem
        /\ y.error = x.error /\ y.flush = x.flush
    BY <1>1, <1>3, <2>1, <2>2, MovedFacts
  <2>5. /\ x.error = "ok" /\ x.flush /\ x.size >= Capacity /\ x.used = k
        /\ x.used \in Nat /\ x.used <= x.size
        /\ \A i \in 1 .. k : x.mem[i] = i
    BY <1>1 DEF Sound, Writer
  <2>6. y.size > 0 /\ y.used <= y.size /\ y.size >= Capacity
    BY <1>1, <2>1, <2>4, <2>5, CapacityAssumption
  <2>. QED  BY <2>1, <2>4, <2>5, <2>6 DEF Sound
<1>. QED  BY <1>2, <1>3 DEF Grown

LEMMA FlushUncheckedSound ==
    ASSUME NEW x, NEW k \in Nat, Sound(x, k), x.error = "ok",
           NEW y \in FlushUnchecked(x)
    PROVE  /\ Sound(y, k)
           /\ y.error = "ok" => y.used = x.used /\ Left(y) >= MinBuffer
<1>1. x.used \in Nat /\ x.size \in Nat /\ x.used <= x.size
      /\ x.size >= MinBuffer
  BY CapacityAssumption DEF Sound, Writer
<1>2. CASE x.used = 0
  BY <1>1, <1>2 DEF FlushUnchecked, Left
<1>3. CASE x.used /= 0
  <2>1. y \in Grown(x, x.used)  BY <1>3 DEF FlushUnchecked
  <2>2. Sound(y, k) /\ (y.error = "ok" => /\ y.used = x.used
                                          /\ y.size >= 2 * x.size)
    BY <1>1, <2>1, GrownSound
  <2>3. y.size \in Nat /\ y.used \in Nat  BY <2>2 DEF Sound, Writer
  <2>. QED  BY <1>1, <2>2, <2>3, CapacityAssumption DEF Left
<1>. QED  BY <1>2, <1>3

(* flush(p, n) on data outside the buffer: the buffer is enlarged to hold  *)
(* both, so the store that follows fits                                    *)
LEMMA FlushExtraSound ==
    ASSUME NEW x, NEW k \in Nat, NEW n \in Nat, k + n <= MaxAsked,
           Sound(x, k), x.error = "ok", NEW z \in FlushExtra(x, k, n)
    PROVE  Sound(z, k + n)
<1>1. x.used \in Nat  BY DEF Sound, Writer
<1>2. PICK y \in Grown(x, x.used + n) :
           z = IF y.error = "ok" THEN Put(y, k, n) ELSE y
  BY DEF FlushExtra
<1>3. /\ Sound(y, k)
      /\ y.error = "ok" => y.used = x.used /\ y.size >= x.used + n
  BY <1>1, <1>2, GrownSound
<1>4. CASE y.error = "ok"
  <2>1. n <= Left(y)  BY <1>1, <1>3, <1>4 DEF Left, Sound, Writer
  <2>. QED  BY <1>2, <1>3, <1>4, <2>1, PutSound
<1>5. CASE y.error /= "ok"
  BY <1>2, <1>3, <1>5, DoomedStaysSound
<1>. QED  BY <1>4, <1>5

(* A scalar always finds its room in a writer that has no error, and is    *)
(* dropped by one that has                                                 *)
LEMMA EncodedSound ==
    ASSUME NEW x, NEW k \in Nat, NEW n \in 1 .. MinBuffer, k + n <= MaxAsked,
           Sound(x, k), NEW z \in Encoded(x, k, n)
    PROVE  Sound(z, k + n)
<1>1. n \in Nat /\ n <= MinBuffer  BY CapacityAssumption
<1>2. CASE Left(x) >= n
  <2>1. z = Put(x, k, n)  BY <1>2 DEF Encoded
  <2>2. n <= Left(x)  BY <1>1, <1>2 DEF Left, Sound, Writer
  <2>. QED  BY <1>1, <2>1, <2>2, PutSound
<1>3. CASE ~(Left(x) >= n) /\ x.error /= "ok"
  BY <1>1, <1>3, DoomedStaysSound DEF Encoded, EnsureThenPut
<1>4. CASE ~(Left(x) >= n) /\ x.error = "ok"
  <2>1. PICK y \in FlushUnchecked(x) :
             z = IF y.error /= "ok" THEN y
                 ELSE IF Left(y) >= n THEN Put(y, k, n)
                 ELSE FlagError(y, "io")
    BY <1>4 DEF Encoded, EnsureThenPut, Sound
  <2>2. /\ Sound(y, k)
        /\ y.error = "ok" => Left(y) >= MinBuffer
    BY <1>4, FlushUncheckedSound
  <2>3. CASE y.error /= "ok"
    BY <1>1, <2>1, <2>2, <2>3, DoomedStaysSound
  <2>4. CASE y.error = "ok"
    <3>1. Left(y) \in Int  BY <2>2 DEF Left, Sound, Writer
    <3>2. n <= Left(y) /\ Left(y) >= n
      BY <1>1, <2>2, <2>4, <3>1, CapacityAssumption
    <3>. QED  BY <1>1, <2>1, <2>2, <2>4, <3>2, PutSound
  <2>. QED  BY <2>3, <2>4
<1>. QED  BY <1>2, <1>3, <1>4

(* A payload of any length finds its room, in the buffer or by straddling *)
LEMMA NativeSound ==
    ASSUME NEW x, NEW k \in Nat, NEW n \in Nat, k + n <= MaxAsked,
           Sound(x, k), NEW z \in Native(x, k, n)
    PROVE  Sound(z, k + n)
<1>1. Left(x) \in Int  BY DEF Left, Sound, Writer
<1>2. CASE ~(Left(x) < n)
  <2>1. z = Put(x, k, n) /\ n <= Left(x)  BY <1>1, <1>2 DEF Native
  <2>. QED  BY <2>1, PutSound
<1>3. CASE Left(x) < n /\ x.error /= "ok"
  BY <1>3, DoomedStaysSound DEF Native, Straddle
<1>4. CASE Left(x) < n /\ x.error = "ok"
  <2>1. PICK y \in FlushUnchecked(x) :
             z \in IF y.error /= "ok" THEN {y}
                   ELSE IF n > Left(y) THEN FlushExtra(y, k, n)
                   ELSE {Put(y, k, n)}
    BY <1>4 DEF Native, Straddle, Sound
  <2>2. Sound(y, k)  BY <1>4, FlushUncheckedSound
  <2>3. CASE y.error /= "ok"
    BY <2>1, <2>2, <2>3, DoomedStaysSound
  <2>4. CASE y.error = "ok" /\ n > Left(y)
    <3>1. z \in FlushExtra(y, k, n)  BY <2>1, <2>4
    <3>. QED  BY <2>2, <2>4, <3>1, FlushExtraSound
  <2>5. CASE y.error = "ok" /\ ~(n > Left(y))
    <3>1. z = Put(y, k, n)  BY <2>1, <2>5
    <3>2. n <= Left(y)  BY <2>2, <2>5 DEF Left, Sound, Writer
    <3>. QED  BY <2>2, <3>1, <3>2, PutSound
  <2>. QED  BY <2>3, <2>4, <2>5
<1>. QED  BY <1>2, <1>3, <1>4

----------------------------------------------------------------------------
(* What destroy leaves: one owner for the block, the caller or nobody *)
Closed == /\ w \in Writer
          /\ w.error \in {"ok", "memory"}
          /\ w.error = "ok" => /\ w.used = asked /\ w.heap = {result.data}
                               /\ result.data \in Nat /\ result.size = asked
                               /\ result.bytes = [i \in 1 .. asked |-> i]
          /\ w.error = "memory" => w.heap = {} /\ result = NoResult

(* The inductive invariant *)
WInv == /\ asked \in 0 .. MaxAsked
        /\ phase \in Phases
        /\ phase = "none" => w = NoWriter /\ asked = 0
        /\ phase \in {"open", "abandoned"} => Sound(w, asked)
        /\ phase /= "closed" => result = NoResult
        /\ phase = "closed" => Closed

LEMMA NoWriterIsWriter == NoWriter \in Writer
<1>1. Blank \in [BytePlaces -> Nat]  BY DEF Blank
<1>. HIDE DEF Blank
<1>. QED  BY <1>1 DEF NoWriter, Writer, Errors

LEMMA NoResultFacts ==
    /\ NoResult.data = NULL /\ NoResult.size = 0
    /\ NoResult.bytes = [i \in 1 .. 0 |-> i]
BY DEF NoResult, Bytes

LEMMA InitWInv == WriterInit => WInv
BY BoundAssumption DEF WriterInit, WInv, Phases

LEMMA InitGrowableKeepsWInv == WInv /\ InitGrowable => WInv'
<1>. SUFFICES ASSUME WInv, InitGrowable  PROVE WInv'
  OBVIOUS
<1>1. asked = 0 /\ asked' = 0 /\ phase' = "open" /\ result' = NoResult
  BY DEF WInv, InitGrowable
<1>2. NoWriter \in Writer /\ NoWriter.mem = Blank /\ NoWriter.size = 0
      /\ NoWriter.used = 0 /\ NoWriter.buffer = NULL /\ NoWriter.heap = {}
  BY NoWriterIsWriter DEF NoWriter
<1>3. Sound(w', 0)
  <2>. DEFINE full == [NoWriter EXCEPT !.buffer = 0, !.size = Capacity,
                                       !.flush = TRUE, !.heap = {0}]
              empty == [NoWriter EXCEPT !.error = "memory"]
  <2>1. w' = full \/ w' = empty  BY DEF InitGrowable
  <2>2. Sound(full, 0)
    <3>1. /\ full \in Writer /\ full.error = "ok" /\ full.buffer = 0
          /\ full.size = Capacity /\ full.used = 0 /\ full.flush = TRUE
          /\ full.heap = {0}
      <4>. HIDE DEF Blank
      <4>1. {0} \in SUBSET Nat  OBVIOUS
      <4>. QED  BY <1>2, <4>1, CapacityAssumption DEF Writer, NoWriter
    <3>. HIDE DEF full
    <3>. QED  BY <3>1, CapacityAssumption DEF Sound
  <2>3. Sound(empty, 0)
    <3>1. /\ empty \in Writer /\ empty.error = "memory" /\ empty.buffer = NULL
          /\ empty.size = 0 /\ empty.used = 0 /\ empty.heap = {}
      BY <1>2 DEF Writer, Errors
    <3>. HIDE DEF empty
    <3>. QED  BY <3>1 DEF Sound
  <2>. QED  BY <2>1, <2>2, <2>3
<1>. QED  BY <1>1, <1>3 DEF WInv, Phases

LEMMA WriteKeepsWInv ==
    WInv /\ (\/ \E n \in 1 .. MinBuffer : asked + n <= MaxAsked /\ WriteEncoded(n)
             \/ \E n \in 0 .. MaxAsked : asked + n <= MaxAsked /\ WriteNative(n))
    => WInv'
<1>1. ASSUME WInv, NEW n \in 1 .. MinBuffer, asked + n <= MaxAsked, WriteEncoded(n)
      PROVE  WInv'
  <2>1. asked \in Nat /\ n \in Nat /\ asked + n \in 0 .. MaxAsked
    BY <1>1, CapacityAssumption, BoundAssumption DEF WInv
  <2>2. Sound(w', asked + n)
    BY <1>1, <2>1, EncodedSound DEF WInv, WriteEncoded
  <2>. QED  BY <1>1, <2>1, <2>2 DEF WInv, WriteEncoded
<1>2. ASSUME WInv, NEW n \in 0 .. MaxAsked, asked + n <= MaxAsked, WriteNative(n)
      PROVE  WInv'
  <2>1. asked \in Nat /\ n \in Nat /\ asked + n \in 0 .. MaxAsked
    BY <1>2, BoundAssumption DEF WInv
  <2>2. Sound(w', asked + n)
    BY <1>2, <2>1, NativeSound DEF WInv, WriteNative
  <2>. QED  BY <1>2, <2>1, <2>2 DEF WInv, WriteNative
<1>. QED  BY <1>1, <1>2

LEMMA DestroyKeepsWInv == WInv /\ Destroy => WInv'
<1>. SUFFICES ASSUME WInv, Destroy  PROVE WInv'
  OBVIOUS
<1>1. /\ Sound(w, asked) /\ result = NoResult /\ asked \in Nat
      /\ asked' = asked /\ phase' = "closed"
  BY BoundAssumption DEF WInv, Destroy
<1>2. w \in Writer /\ w.error \in {"ok", "memory"} /\ w.size \in Nat
      /\ w.used \in Nat
  BY <1>1 DEF Sound, Writer
<1>3. CASE DestroyOk
  <2>1. /\ w.error = "ok" /\ w.used = asked /\ w.size > 0
        /\ \A i \in 1 .. asked : w.mem[i] = i
        /\ w.buffer \in Nat /\ w.heap = {w.buffer}
    BY <1>1, <1>2, <1>3, CapacityAssumption DEF DestroyOk, Sound
  <2>. DEFINE s == IF w.used = 0 THEN 1 ELSE w.used
              x == IF Shrinks(w) THEN Moved(w, s) ELSE w
  <2>2. w' = [x EXCEPT !.buffer = NULL] /\ result' = HandOver(x)
    BY <1>3 DEF DestroyOk
  <2>3. /\ x \in Writer /\ x.buffer \in Nat /\ x.heap = {x.buffer}
        /\ x.used = w.used /\ x.mem = w.mem /\ x.error = w.error
    BY <1>2, <2>1, MovedFacts
  <2>. HIDE DEF x
  <2>4. /\ w' \in Writer /\ w'.error = "ok" /\ w'.used = asked
        /\ w'.heap = {x.buffer}
    BY <2>1, <2>2, <2>3 DEF Writer
  <2>5. result'.data = x.buffer /\ result'.size = asked
        /\ result'.bytes = [i \in 1 .. asked |-> i]
    BY <2>1, <2>2, <2>3 DEF HandOver, Bytes
  <2>. QED  BY <1>1, <2>3, <2>4, <2>5 DEF WInv, Closed, Phases
<1>4. CASE ShrinkFails
  <2>1. w.heap = {w.buffer} /\ w.error = "ok"
    BY <1>1, <1>2, <1>4, CapacityAssumption DEF ShrinkFails, Sound
  <2>2. w.heap \ {w.buffer} = {}  BY <2>1
  <2>3. w' = [w EXCEPT !.error = "memory", !.heap = {}]
    BY <1>4, <2>1, <2>2 DEF ShrinkFails, FlagError
  <2>4. w' \in Writer /\ w'.error = "memory" /\ w'.heap = {}
    BY <1>2, <2>3 DEF Writer, Errors
  <2>. QED  BY <1>1, <1>4, <2>4 DEF WInv, Closed, Phases, ShrinkFails
<1>5. CASE DestroyFailed
  <2>1. w.error = "memory"  BY <1>2, <1>5 DEF DestroyFailed
  <2>2. w.heap \ {w.buffer} = {}
    <3>1. w.size = 0 \/ w.size > 0  BY <1>2
    <3>2. w.heap = {} \/ w.heap = {w.buffer}  BY <1>1, <3>1 DEF Sound
    <3>. QED  BY <3>2
  <2>3. w' = [w EXCEPT !.heap = {}, !.buffer = NULL]
    BY <1>5, <2>2 DEF DestroyFailed
  <2>4. w' \in Writer /\ w'.error = "memory" /\ w'.heap = {}
    BY <1>2, <2>1, <2>3 DEF Writer
  <2>. QED  BY <1>1, <1>5, <2>4 DEF WInv, Closed, Phases, DestroyFailed
<1>. QED  BY <1>3, <1>4, <1>5 DEF Destroy

LEMMA NextWInv == WInv /\ [WriterNext]_writerVars => WInv'
<1>1. WInv /\ Abandon => WInv'  BY DEF WInv, Abandon, Phases
<1>2. WInv /\ UNCHANGED writerVars => WInv'
  BY DEF WInv, writerVars, Sound, Closed
<1>. QED
  BY <1>1, <1>2, InitGrowableKeepsWInv, WriteKeepsWInv, DestroyKeepsWInv DEF WriterNext

LEMMA InvariantWInv == WriterSpec => []WInv
BY InitWInv, NextWInv, PTL DEF WriterSpec

----------------------------------------------------------------------------
LEMMA WInvFacts ==
    ASSUME WInv
    PROVE  WriterTypeOK /\ NoOverrun /\ ContentsExact /\ OnlyOutOfMemory /\ OneOwner
<1>1. phase = "none" => w \in Writer /\ w.error = "ok"
  <2>1. NoWriter.error = "ok"  BY DEF NoWriter
  <2>. QED  BY <2>1, NoWriterIsWriter DEF WInv
<1>2. phase \in {"open", "abandoned"} => w \in Writer /\ w.error \in {"ok", "memory"}
  BY DEF WInv, Sound
<1>3. phase = "closed" => w \in Writer /\ w.error \in {"ok", "memory"}
  BY DEF WInv, Closed
<1>4. w \in Writer /\ w.error \in {"ok", "memory"}
  BY <1>1, <1>2, <1>3 DEF WInv, Phases
<1>5. asked \in Nat  BY BoundAssumption DEF WInv
<1>6. /\ result.data \in Nat \cup {NULL} /\ result.size \in Nat
      /\ DOMAIN result.bytes = 1 .. result.size
  <2>1. CASE result = NoResult  BY <2>1, NoResultFacts
  <2>2. CASE phase = "closed" /\ w.error = "ok"
    BY <1>5, <2>2 DEF WInv, Closed
  <2>. QED  BY <1>4, <2>1, <2>2 DEF WInv, Closed
<1>7. WriterTypeOK  BY <1>4, <1>6 DEF WriterTypeOK, WInv
<1>8. NoOverrun  BY DEF NoOverrun, WInv, Sound
<1>9. ContentsExact  BY DEF ContentsExact, WInv, Sound
<1>10. OneOwner  BY <1>4 DEF OneOwner, WInv, Closed
<1>. QED  BY <1>4, <1>7, <1>8, <1>9, <1>10 DEF OnlyOutOfMemory

(* The writer, the counter of the message and its result keep their types, *)
(* in every state of every message.                                        *)
THEOREM WriterTypeCorrect == WriterSpec => []WriterTypeOK
BY InvariantWInv, WInvFacts, PTL

(* Memory safety of the unchecked stores: the cursor never passes the end  *)
(* of a block that the writer owns, whatever is written and whichever      *)
(* allocation fails.                                                       *)
THEOREM MemorySafe == WriterSpec => []NoOverrun
BY InvariantWInv, WInvFacts, PTL

(* A writer without an error holds exactly the bytes that were asked for,  *)
(* in order, however often the buffer moved and however long the payloads. *)
THEOREM MessageExact == WriterSpec => []ContentsExact
BY InvariantWInv, WInvFacts, PTL

(* The paths that flag too_big or io in mpack_writer_ensure and in the     *)
(* straddling write are dead: a write fails only when realloc does.        *)
THEOREM OnlyMemoryFails == WriterSpec => []OnlyOutOfMemory
BY InvariantWInv, WInvFacts, PTL

(* After mpack_writer_destroy the block has one owner: the caller, with    *)
(* the size of the whole message, or nobody.                               *)
THEOREM BlockHasOneOwner == WriterSpec => []OneOwner
BY InvariantWInv, WInvFacts, PTL

----------------------------------------------------------------------------
(* The refinement: the length of the log is the cursor of the writer *)
Length == IF Status \in {"open", "delivered"} THEN w.used ELSE 0

LEMMA InitImplementsLog == WriterInit => Log!Init
BY DEF WriterInit, Log!Init, Log!Bytes, Status, NoWriter, NoResult, Bytes

(* Every write, moving or not, appends its bytes to the log or dooms it *)
LEMMA WriteImplementsLog ==
    ASSUME WInv, WInv', phase = "open", phase' = "open", result' = result,
           NEW n \in Nat, asked' = asked + n,
           w.error /= "ok" => w'.error /= "ok"
    PROVE  [Log!Next]_Log!vars
<1>1. w.used \in Nat /\ w'.used \in Nat  BY DEF WInv, Sound, Writer
<1>2. CASE w.error /= "ok"
  BY <1>2 DEF Log!vars, Status
<1>3. CASE w.error = "ok" /\ w'.error /= "ok"
  BY <1>3 DEF Log!Next, Log!Doom, Status
<1>4. CASE w.error = "ok" /\ w'.error = "ok"
  <2>1. w.used = asked /\ w'.used = asked + n /\ asked \in Nat
    BY <1>4, BoundAssumption DEF WInv, Sound
  <2>2. CASE n = 0
    BY <1>4, <2>1, <2>2 DEF Log!vars, Status
  <2>3. CASE n > 0
    BY <1>4, <2>1, <2>3 DEF Log!Next, Log!Extend, Status
  <2>. QED  BY <2>2, <2>3
<1>. QED  BY <1>2, <1>3, <1>4

LEMMA DoomedStaysDoomed ==
    ASSUME NEW x \in Writer, x.error /= "ok", NEW k \in Nat, NEW n \in Nat,
           NEW y \in Encoded(x, k, n) \cup Native(x, k, n)
    PROVE  y.error /= "ok"
<1>1. y = x \/ y = Put(x, k, n)
  BY DEF Encoded, EnsureThenPut, Native, Straddle
<1>2. Put(x, k, n).error = x.error
  <2>. DEFINE m == [i \in BytePlaces |-> IF i \in (x.used + 1) .. (x.used + n)
                                     THEN k + (i - x.used) ELSE x.mem[i]]
  <2>1. Put(x, k, n) = [x EXCEPT !.used = @ + n, !.mem = m]  BY DEF Put
  <2>. HIDE DEF m
  <2>. QED  BY <2>1 DEF Writer
<1>. QED  BY <1>1, <1>2

LEMMA DestroyImplementsLog ==
    ASSUME WInv, WInv', Destroy
    PROVE  [Log!Next]_Log!vars
<1>1. /\ Sound(w, asked) /\ w \in Writer /\ phase = "open" /\ phase' = "closed"
      /\ asked' = asked /\ asked \in Nat /\ result = NoResult
      /\ w.error \in {"ok", "memory"}
  BY BoundAssumption DEF WInv, Destroy, Sound
<1>2. Closed'  BY <1>1 DEF WInv
<1>3. CASE w.error = "ok" /\ w'.error = "ok"
  <2>1. w.used = asked /\ w'.used = asked  BY <1>1, <1>2, <1>3 DEF Sound, Closed
  <2>2. result'.bytes = [i \in 1 .. asked |-> i]
    BY <1>1, <1>2, <1>3 DEF Closed
  <2>. QED
    BY <1>1, <1>3, <2>1, <2>2 DEF Log!Next, Log!Deliver, Log!Bytes, Status
<1>4. CASE w'.error /= "ok"
  <2>1. result' = NoResult  BY <1>1, <1>2, <1>4 DEF Closed
  <2>. QED  BY <1>1, <1>4, <2>1 DEF Log!Next, Log!Fail, Status
<1>5. CASE w.error /= "ok"
  <2>1. w' = [w EXCEPT !.heap = @ \ {w.buffer}, !.buffer = NULL]
    BY <1>1, <1>5 DEF Destroy, DestroyOk, ShrinkFails, DestroyFailed
  <2>2. w'.error = w.error  BY <1>1, <2>1 DEF Writer
  <2>. QED  BY <1>4, <1>5, <2>2
<1>. QED  BY <1>3, <1>4, <1>5

(* The writer with its buffer, cursor and flush function does what a log   *)
(* of bytes does: each step appends, dooms, delivers, fails, or is nothing *)
(* to the log.                                                             *)
THEOREM ImplementsLog == WriterSpec => LogSpec
<1>1. ASSUME WInv, WInv', [WriterNext]_writerVars  PROVE [Log!Next]_Log!vars
  <2>1. CASE InitGrowable
    <3>1. /\ w = NoWriter /\ result = NoResult /\ result' = result
          /\ phase = "none" /\ phase' = "open" /\ asked' = 0
          /\ Sound(w', asked')
      BY <1>1, <2>1 DEF WInv, InitGrowable
    <3>2. w'.error = "ok" => w'.used = 0  BY <3>1 DEF Sound
    <3>. QED
      BY <3>1, <3>2 DEF Log!Next, Log!Open, Status
  <2>2. CASE Destroy  BY <1>1, <2>2, DestroyImplementsLog
  <2>3. CASE Abandon
    BY <2>3 DEF Abandon, Log!Next, Log!Abandon, Status
  <2>4. ASSUME NEW n \in 1 .. MinBuffer, WriteEncoded(n)
        PROVE  [Log!Next]_Log!vars
    <3>1. n \in Nat /\ asked \in Nat /\ (phase = "open" => w \in Writer)
      BY <1>1, BoundAssumption, CapacityAssumption DEF WInv, Sound
    <3>. QED
      BY <1>1, <2>4, <3>1, WriteImplementsLog, DoomedStaysDoomed DEF WriteEncoded
  <2>5. ASSUME NEW n \in 0 .. MaxAsked, WriteNative(n)
        PROVE  [Log!Next]_Log!vars
    <3>1. n \in Nat /\ asked \in Nat /\ (phase = "open" => w \in Writer)
      BY <1>1, BoundAssumption DEF WInv, Sound
    <3>. QED
      BY <1>1, <2>5, <3>1, WriteImplementsLog, DoomedStaysDoomed DEF WriteNative
  <2>6. CASE UNCHANGED writerVars
    BY <2>6 DEF writerVars, Log!vars, Status
  <2>. QED  BY <1>1, <2>1, <2>2, <2>3, <2>4, <2>5, <2>6 DEF WriterNext
<1>. QED  BY <1>1, InvariantWInv, InitImplementsLog, PTL DEF WriterSpec, LogSpec, Log!Spec

=============================================================================
