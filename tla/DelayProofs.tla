---------------------------- MODULE DelayProofs ----------------------------
(* Proofs about Delay: no delay ends early, for every counter width, every *)
(* nesting of delays and every speed of the clock.                         *)
EXTENDS Delay, SequenceTheorems, TLAPS

(* The multiples of W grow by at least W (used to compare two quotients).  *)
LEMMA Multiples ==
    ASSUME NEW W \in Nat \ {0}, NEW p \in Int, NEW q \in Int, p < q
    PROVE  W * p + W <= W * q
<1>1. W * q - W * p = W * (q - p)  OBVIOUS
<1>2. PICK d \in Nat : q - p = d + 1  BY q - p - 1 \in Nat
<1>3. W * (d + 1) = W * d + W  OBVIOUS
<1>4. W * d >= 0 /\ W * d \in Int /\ W * p \in Int /\ W * q \in Int  OBVIOUS
<1>. QED  BY <1>1, <1>2, <1>3, <1>4

(* The unsigned difference of two readings of a wrapping counter never     *)
(* exceeds the true time between them ("mp_hal_ticks_ms() - start").       *)
LEMMA WrappedDifference ==
    ASSUME NEW W \in Nat \ {0}, NEW a \in Nat, NEW b \in Nat, b <= a
    PROVE  ((a % W) - (b % W)) % W <= a - b
<1>. DEFINE qa == a \div W
            qb == b \div W
            ra == a % W
            rb == b % W
<1>1. a = W * qa + ra /\ qa \in Int /\ ra \in 0 .. (W - 1)  OBVIOUS
<1>2. b = W * qb + rb /\ qb \in Int /\ rb \in 0 .. (W - 1)  OBVIOUS
<1>3. W * qa \in Int /\ W * qb \in Int  BY <1>1, <1>2
<1>. HIDE DEF qa, qb, ra, rb
<1>4. CASE ra >= rb
  <2>1. (ra - rb) % W = ra - rb  BY <1>1, <1>2, <1>4
  <2>2. ~(qa < qb)
    <3>. SUFFICES ASSUME qa < qb  PROVE FALSE  OBVIOUS
    <3>1. W * qa + W <= W * qb  BY <1>1, <1>2, Multiples
    <3>. QED  BY <1>1, <1>2, <1>3, <3>1
  <2>3. CASE qa = qb  BY <1>1, <1>2, <1>3, <2>1, <2>3 DEF ra, rb
  <2>4. CASE qb < qa
    <3>1. W * qb + W <= W * qa  BY <1>1, <1>2, <2>4, Multiples
    <3>. QED  BY <1>1, <1>2, <1>3, <2>1, <3>1 DEF ra, rb
  <2>. QED  BY <1>1, <1>2, <2>2, <2>3, <2>4
<1>5. CASE ra < rb
  <2>1. (ra - rb) % W = ra - rb + W  BY <1>1, <1>2, <1>5
  <2>2. qb < qa
    <3>. SUFFICES ASSUME ~(qb < qa)  PROVE FALSE  OBVIOUS
    <3>1. CASE qa = qb  BY <1>1, <1>2, <1>3, <1>5, <3>1
    <3>2. CASE qa < qb
      <4>1. W * qa + W <= W * qb  BY <1>1, <1>2, <3>2, Multiples
      <4>. QED  BY <1>1, <1>2, <1>3, <4>1
    <3>. QED  BY <1>1, <1>2, <3>1, <3>2
  <2>3. W * qb + W <= W * qa  BY <1>1, <1>2, <2>2, Multiples
  <2>. QED  BY <1>1, <1>2, <1>3, <2>1, <2>3 DEF ra, rb
<1>. QED  BY <1>1, <1>2, <1>4, <1>5

----------------------------------------------------------------------------
IInv == TypeOK /\ ElapsedIsTrue

LEMMA InitIInv == Init => IInv
<1>. SUFFICES ASSUME Init  PROVE IInv  OBVIOUS
<1>1. frames \in Seq(Frame) /\ Len(frames) = 0  BY DEF Init
<1>2. clock \in [Units -> Nat]  BY DEF Init
<1>3. hook \in Hooks \cup {None} /\ crashed \in BOOLEAN  BY DEF Init
<1>. QED  BY <1>1, <1>2, <1>3 DEF IInv, TypeOK, ElapsedIsTrue

(* The facts about the innermost delay that the steps below use *)
LEMMA TopFacts ==
    ASSUME IInv, OnStack
    PROVE  /\ Len(frames) \in Nat \ {0}
           /\ Top = frames[Len(frames)]
           /\ Top \in Frame
           /\ Top.start = Top.entered % Wrap
           /\ Top.entered <= clock[Top.unit]
           /\ clock[Top.unit] \in Nat
           /\ Elapsed(Top) <= clock[Top.unit] - Top.entered
           /\ Elapsed(Top) \in 0 .. (Wrap - 1)
<1>1. Len(frames) \in Nat \ {0}  BY DEF IInv, TypeOK, OnStack
<1>2. Top \in Frame  BY <1>1 DEF Top, IInv, TypeOK
<1>3. Top.start = Top.entered % Wrap /\ Top.entered <= clock[Top.unit]
  BY <1>1 DEF Top, IInv, ElapsedIsTrue
<1>4. clock[Top.unit] \in Nat /\ Top.entered \in Nat
  BY <1>2 DEF Frame, IInv, TypeOK
<1>5. Elapsed(Top) <= clock[Top.unit] - Top.entered
  BY <1>3, <1>4, WrapAssumption, WrappedDifference DEF Elapsed, Ticks
<1>6. Elapsed(Top) \in 0 .. (Wrap - 1)
  BY <1>3, <1>4, WrapAssumption DEF Elapsed, Ticks
<1>. QED  BY <1>1, <1>2, <1>3, <1>4, <1>5, <1>6 DEF Top

(* The same of the elapsed time in its register *)
LEMMA TopElapsed ==
    ASSUME IInv, OnStack
    PROVE  Top.elapsed <= clock[Top.unit] - Top.entered
BY TopFacts DEF Top, IInv, ElapsedIsTrue

(* Replacing the innermost delay by one that is as truthful *)
LEMMA SetTopKeepsIInv ==
    ASSUME IInv, OnStack, NEW f \in Frame, SetTop(f),
           f.unit = Top.unit, f.start = Top.start, f.entered = Top.entered,
           f.elapsed <= clock[Top.unit] - Top.entered,
           UNCHANGED <<clock, hook>>, crashed' \in BOOLEAN
    PROVE  IInv'
<1>1. Len(frames') = Len(frames) /\ frames' \in Seq(Frame)
  BY TopFacts DEF SetTop, IInv, TypeOK
<1>2. TypeOK'  BY <1>1 DEF IInv, TypeOK
<1>3. \A i \in 1 .. Len(frames) :
         frames'[i] = IF i = Len(frames) THEN f ELSE frames[i]
  BY DEF SetTop, IInv, TypeOK
<1>4. ElapsedIsTrue'  BY <1>1, <1>3, TopFacts DEF IInv, ElapsedIsTrue, Top
<1>. QED  BY <1>2, <1>4 DEF IInv

(* Leaving the innermost delay *)
LEMMA PopKeepsIInv ==
    ASSUME IInv, OnStack, Pop, UNCHANGED <<clock, hook, crashed>>
    PROVE  IInv'
<1>. DEFINE n == Len(frames) - 1
<1>1. frames \in Seq(Frame) /\ n \in Nat /\ n <= Len(frames)
  BY TopFacts DEF IInv, TypeOK
<1>2. frames' = SubSeq(frames, 1, n)  BY DEF Pop
<1>3. \A i \in 1 .. n : frames[i] \in Frame  BY <1>1
<1>. HIDE DEF n
<1>4. /\ frames' \in Seq(Frame)
      /\ Len(frames') = IF 1 <= n THEN n - 1 + 1 ELSE 0
      /\ \A i \in 1 .. n - 1 + 1 : frames'[i] = frames[1 + i - 1]
  BY <1>1, <1>2, <1>3, SubSeqProperties
<1>5. Len(frames') = n /\ \A i \in 1 .. n : frames'[i] = frames[i]
  BY <1>1, <1>4
<1>6. TypeOK'  BY <1>4 DEF IInv, TypeOK
<1>7. ElapsedIsTrue'  BY <1>1, <1>5 DEF IInv, ElapsedIsTrue
<1>. QED  BY <1>6, <1>7 DEF IInv

LEMMA NextIInv == IInv /\ [Next]_vars => IInv'
<1>. SUFFICES ASSUME IInv, [Next]_vars  PROVE IInv'  OBVIOUS
<1>1. CASE UNCHANGED vars
  BY <1>1 DEF vars, IInv, TypeOK, ElapsedIsTrue
<1>2. ASSUME NEW h \in Hooks \cup {None}, HookSignal(h)  PROVE IInv'
  BY <1>2 DEF HookSignal, IInv, TypeOK, ElapsedIsTrue
<1>3. ASSUME NEW u \in Units, NEW n \in Requests, CallDelay(u, n)  PROVE IInv'
  <2>. DEFINE f == [unit |-> u, start |-> Ticks(u), wait |-> n, elapsed |-> 0,
                    at |-> "test", entered |-> clock[u], seen |-> clock[u]]
  <2>1. clock[u] \in Nat  BY DEF IInv, TypeOK
  <2>2. Ticks(u) \in 0 .. (Wrap - 1)  BY <2>1, WrapAssumption DEF Ticks
  <2>3. f \in Frame
    BY <2>1, <2>2, WrapAssumption, RequestsAssumption DEF Frame, Places
  <2>4. frames' = Append(frames, f) /\ UNCHANGED <<clock, hook, crashed>>
    BY <1>3 DEF CallDelay
  <2>5. frames \in Seq(Frame)  BY DEF IInv, TypeOK
  <2>6. frames' \in Seq(Frame) /\ Len(frames') = Len(frames) + 1
    BY <2>3, <2>4, <2>5
  <2>7. frames'[Len(frames')] = f
        /\ \A i \in 1 .. Len(frames) : frames'[i] = frames[i]
    BY <2>3, <2>4, <2>5, <2>6
  <2>8. f.start = f.entered % Wrap /\ f.entered = clock[u] /\ f.unit = u
        /\ f.elapsed = 0
    BY DEF Ticks
  <2>. HIDE DEF f
  <2>9. TypeOK'  BY <2>4, <2>6 DEF IInv, TypeOK
  <2>10. ElapsedIsTrue'
    BY <2>1, <2>4, <2>5, <2>6, <2>7, <2>8 DEF IInv, ElapsedIsTrue
  <2>. QED  BY <2>9, <2>10 DEF IInv
<1>4. CASE Again
  <2>. DEFINE f == [Top EXCEPT !.at = "pending", !.seen = clock[Top.unit]]
  <2>1. /\ f \in Frame /\ f.unit = Top.unit /\ f.start = Top.start
        /\ f.entered = Top.entered
        /\ f.elapsed <= clock[Top.unit] - Top.entered
    BY <1>4, TopElapsed, TopFacts DEF Frame, Places, Again, AtTest
  <2>2. OnStack /\ SetTop(f) /\ UNCHANGED <<clock, hook, crashed>>
    BY <1>4 DEF Again, AtTest
  <2>3. crashed' \in BOOLEAN  BY <2>2 DEF IInv, TypeOK
  <2>. HIDE DEF f
  <2>. QED  BY <2>1, <2>2, <2>3, SetTopKeepsIInv
<1>5. CASE Return
  BY <1>5, PopKeepsIInv DEF Return, AtTest
<1>6. CASE NothingPending
  <2>. DEFINE f == [Top EXCEPT !.at = AfterPending(Top)]
  <2>1. /\ f \in Frame /\ f.unit = Top.unit /\ f.start = Top.start
        /\ f.entered = Top.entered
        /\ f.elapsed <= clock[Top.unit] - Top.entered
    BY <1>6, TopElapsed, TopFacts DEF Frame, Places, NothingPending, AfterPending
  <2>2. OnStack /\ SetTop(f) /\ UNCHANGED <<clock, hook, crashed>>
    BY <1>6 DEF NothingPending, AfterPending
  <2>3. crashed' \in BOOLEAN  BY <2>2 DEF IInv, TypeOK
  <2>. HIDE DEF f
  <2>. QED  BY <2>1, <2>2, <2>3, SetTopKeepsIInv
<1>7. CASE RunCallback
  <2>. DEFINE f == [Top EXCEPT !.at = "callback"]
  <2>1. /\ f \in Frame /\ f.unit = Top.unit /\ f.start = Top.start
        /\ f.entered = Top.entered
        /\ f.elapsed <= clock[Top.unit] - Top.entered
    BY <1>7, TopElapsed, TopFacts DEF Frame, Places, RunCallback
  <2>2. OnStack /\ SetTop(f) /\ UNCHANGED <<clock, hook, crashed>>
    BY <1>7 DEF RunCallback
  <2>3. crashed' \in BOOLEAN  BY <2>2 DEF IInv, TypeOK
  <2>. HIDE DEF f
  <2>. QED  BY <2>1, <2>2, <2>3, SetTopKeepsIInv
<1>8. CASE CallbackReturns
  <2>. DEFINE f == [Top EXCEPT !.at = AfterPending(Top)]
  <2>1. /\ f \in Frame /\ f.unit = Top.unit /\ f.start = Top.start
        /\ f.entered = Top.entered
        /\ f.elapsed <= clock[Top.unit] - Top.entered
    BY <1>8, TopElapsed, TopFacts DEF Frame, Places, CallbackReturns, AfterPending
  <2>2. OnStack /\ SetTop(f) /\ UNCHANGED <<clock, hook, crashed>>
    BY <1>8 DEF CallbackReturns, AfterPending
  <2>3. crashed' \in BOOLEAN  BY <2>2 DEF IInv, TypeOK
  <2>. HIDE DEF f
  <2>. QED  BY <2>1, <2>2, <2>3, SetTopKeepsIInv
<1>9. CASE Yield
  <2>. DEFINE f == [Top EXCEPT !.at = "hook"]
  <2>1. /\ f \in Frame /\ f.unit = Top.unit /\ f.start = Top.start
        /\ f.entered = Top.entered
        /\ f.elapsed <= clock[Top.unit] - Top.entered
    BY <1>9, TopElapsed, TopFacts DEF Frame, Places, Yield
  <2>2. OnStack /\ SetTop(f) /\ UNCHANGED <<clock, hook, crashed>>
    BY <1>9 DEF Yield
  <2>3. crashed' \in BOOLEAN  BY <2>2 DEF IInv, TypeOK
  <2>. HIDE DEF f
  <2>. QED  BY <2>1, <2>2, <2>3, SetTopKeepsIInv
<1>10. CASE NoHook
  BY <1>10 DEF NoHook, IInv, TypeOK, ElapsedIsTrue
<1>11. CASE HookReturns
  <2>. DEFINE f == [Top EXCEPT !.at = "test", !.elapsed = Elapsed(Top),
                               !.seen = clock[Top.unit]]
  <2>1. /\ f \in Frame /\ f.unit = Top.unit /\ f.start = Top.start
        /\ f.entered = Top.entered
        /\ f.elapsed <= clock[Top.unit] - Top.entered
    BY <1>11, TopElapsed, TopFacts DEF Frame, Places, HookReturns
  <2>2. OnStack /\ SetTop(f) /\ UNCHANGED <<clock, hook, crashed>>
    BY <1>11 DEF HookReturns
  <2>3. crashed' \in BOOLEAN  BY <2>2 DEF IInv, TypeOK
  <2>. HIDE DEF f
  <2>. QED  BY <2>1, <2>2, <2>3, SetTopKeepsIInv
<1>12. CASE HookRaises
  BY <1>12, PopKeepsIInv DEF HookRaises
<1>13. ASSUME NEW u \in Units, Tick(u)  PROVE IInv'
  <2>1. /\ UNCHANGED <<hook, frames, crashed>>
        /\ clock' \in [Units -> Nat]
        /\ \A v \in Units : clock[v] \in Nat /\ clock'[v] \in Nat /\ clock'[v] >= clock[v]
    BY <1>13 DEF Tick, IInv, TypeOK
  <2>2. TypeOK'  BY <2>1 DEF IInv, TypeOK
  <2>3. ASSUME NEW i \in 1 .. Len(frames)
        PROVE  frames[i] \in Frame
    BY DEF IInv, TypeOK
  <2>4. ASSUME NEW i \in 1 .. Len(frames)
        PROVE  /\ frames[i].start = frames[i].entered % Wrap
               /\ frames[i].entered <= clock'[frames[i].unit]
               /\ frames[i].elapsed <= clock'[frames[i].unit] - frames[i].entered
    <3>1. frames[i].unit \in Units /\ frames[i].entered \in Nat
          /\ frames[i].elapsed \in Int
      BY <2>3 DEF Frame
    <3>2. /\ frames[i].start = frames[i].entered % Wrap
          /\ frames[i].entered <= clock[frames[i].unit]
          /\ frames[i].elapsed <= clock[frames[i].unit] - frames[i].entered
      BY DEF IInv, ElapsedIsTrue
    <3>. QED  BY <2>1, <3>1, <3>2
  <2>5. ElapsedIsTrue'  BY <2>1, <2>4 DEF ElapsedIsTrue
  <2>. QED  BY <2>2, <2>5 DEF IInv
<1>. QED
  BY <1>1, <1>2, <1>3, <1>4, <1>5, <1>6, <1>7, <1>8, <1>9, <1>10, <1>11,
     <1>12, <1>13 DEF Next, LoopStep

LEMMA InvariantIInv == Spec => []IInv
BY InitIInv, NextIInv, PTL DEF Spec

(* The state of the delays is well typed for every counter width. *)
THEOREM TypeCorrect == Spec => []TypeOK
<1>1. IInv => TypeOK  BY DEF IInv
<1>. QED  BY <1>1, InvariantIInv, PTL

(* No delay, suspended or not, believes more time to have passed than has. *)
THEOREM ElapsedNeverAhead == Spec => []ElapsedIsTrue
<1>1. IInv => ElapsedIsTrue  BY DEF IInv
<1>. QED  BY <1>1, InvariantIInv, PTL

(* No delay returns early: for every width of the counters, every nesting  *)
(* of delays in hooks and callbacks, and every pace of the clock.          *)
THEOREM NoEarlyReturn == Spec => SleepsLongEnough
<1>1. IInv => (Return => clock[Top.unit] - Top.entered >= Top.wait)
  <2>. SUFFICES ASSUME IInv, Return
                PROVE  clock[Top.unit] - Top.entered >= Top.wait
    OBVIOUS
  <2>1. OnStack /\ Measured(Top) >= Top.wait  BY DEF Return, AtTest
  <2>2. Measured(Top) <= clock[Top.unit] - Top.entered
    BY <2>1, TopFacts, TopElapsed DEF Measured
  <2>3. Measured(Top) \in Int /\ Top.wait \in Int /\ Top.entered \in Int
    BY <2>1, TopFacts DEF Measured, Frame
  <2>. QED  BY <2>1, <2>2, <2>3, TopFacts
<1>. QED  BY <1>1, InvariantIInv, PTL DEF SleepsLongEnough
----------------------------------------------------------------------------
(* Within one period of the counter the unsigned difference is exact *)
LEMMA ExactDifference ==
    ASSUME NEW W \in Nat \ {0}, NEW a \in Nat, NEW b \in Nat, b <= a, a - b < W
    PROVE  ((a % W) - (b % W)) % W = a - b
<1>. DEFINE qa == a \div W
            qb == b \div W
            ra == a % W
            rb == b % W
<1>1. a = W * qa + ra /\ qa \in Int /\ ra \in 0 .. (W - 1)  OBVIOUS
<1>2. b = W * qb + rb /\ qb \in Int /\ rb \in 0 .. (W - 1)  OBVIOUS
<1>3. W * qa \in Int /\ W * qb \in Int  BY <1>1, <1>2
<1>. HIDE DEF qa, qb, ra, rb
<1>4. ~(qa < qb)
  <2>. SUFFICES ASSUME qa < qb  PROVE FALSE  OBVIOUS
  <2>1. W * qa + W <= W * qb  BY <1>1, <1>2, Multiples
  <2>. QED  BY <1>1, <1>2, <1>3, <2>1
<1>5. CASE qa = qb
  <2>1. ra - rb = a - b  BY <1>1, <1>2, <1>3, <1>5
  <2>2. (ra - rb) % W = a - b  BY <2>1
  <2>. QED  BY <2>2 DEF ra, rb
<1>6. CASE qb < qa
  <2>1. W * qb + W <= W * qa  BY <1>1, <1>2, <1>6, Multiples
  <2>2. ~(qb + 1 < qa)
    <3>. SUFFICES ASSUME qb + 1 < qa  PROVE FALSE  OBVIOUS
    <3>1. W * (qb + 1) + W <= W * qa  BY <1>1, <1>2, Multiples
    <3>2. W * (qb + 1) = W * qb + W  BY <1>2
    <3>. QED  BY <1>1, <1>2, <1>3, <3>1, <3>2
  <2>3. qa = qb + 1  BY <1>1, <1>2, <1>6, <2>2
  <2>4. W * qa = W * qb + W  BY <1>2, <2>3
  <2>5. ra - rb = (a - b) - W  BY <1>1, <1>2, <1>3, <2>4
  <2>6. ra - rb < 0 /\ ra - rb >= -W  BY <2>5
  <2>7. (ra - rb) % W = ra - rb + W  BY <1>1, <1>2, <2>6
  <2>8. ra - rb + W = a - b  BY <1>1, <1>2, <2>5
  <2>. QED  BY <2>7, <2>8 DEF ra, rb
<1>. QED  BY <1>1, <1>2, <1>4, <1>5, <1>6

(* How far a delay is, turn by turn: what the loop read last is behind the *)
(* clock by at most MaxLag, and it read it not far past the deadline       *)
Paced(f, now) ==
    /\ f.wait \in Requests
    /\ f.entered <= f.seen /\ f.seen <= now /\ now <= f.seen + MaxLag
    /\ f.unit = "us" =>
          f.at \in {"test", "pending", "callback"} /\ f.seen - f.entered < f.wait
    /\ f.unit = "ms" /\ f.at = "test" =>
          f.elapsed = f.seen - f.entered /\ f.elapsed < f.wait + 2 * MaxLag
    /\ f.unit = "ms" /\ f.at /= "test" => f.seen - f.entered < f.wait + MaxLag

(* The inductive invariant of a delay that runs alone *)
AloneInv == /\ IInv
            /\ Len(frames) <= 1
            /\ OnStack => Paced(Top, clock[Top.unit])

(* One delay at a time, and none so long that the counter wraps within it  *)
Alone == MaxDepth = 1 /\ \A n \in Requests : n + 2 * MaxLag <= Wrap

(* The loop goes on with the innermost delay *)
LEMMA SetTopAlone ==
    ASSUME AloneInv, OnStack, NEW f, SetTop(f), IInv', clock' = clock,
           f.unit = Top.unit, Paced(f, clock[Top.unit])
    PROVE  AloneInv'
<1>1. Len(frames) \in Nat \ {0} /\ Len(frames) <= 1 /\ frames \in Seq(Frame)
  BY TopFacts DEF AloneInv, IInv, TypeOK
<1>2. Len(frames) = 1
  <2>1. \A l \in Nat \ {0} : l <= 1 => l = 1  OBVIOUS
  <2>. QED  BY <1>1, <2>1
<1>3. frames' = [frames EXCEPT ![1] = f]  BY <1>2 DEF SetTop
<1>4. Len(frames') = 1 /\ frames'[1] = f  BY <1>1, <1>2, <1>3
<1>. QED  BY <1>4 DEF AloneInv, Top

LEMMA PopAlone ==
    ASSUME AloneInv, OnStack, Pop, IInv'
    PROVE  AloneInv'
<1>1. Len(frames) \in Nat \ {0} /\ Len(frames) <= 1
  BY TopFacts DEF AloneInv
<1>2. Len(frames) = 1
  <2>1. \A l \in Nat \ {0} : l <= 1 => l = 1  OBVIOUS
  <2>. QED  BY <1>1, <2>1
<1>3. frames' = << >>  BY <1>2, SubSeqEmpty DEF Pop
<1>. QED  BY <1>3 DEF AloneInv, OnStack

(* What the loop measures of a delay that runs alone is the true time *)
LEMMA MeasuresTrue ==
    ASSUME Alone, AloneInv, OnStack, Top.unit = "us" \/ Top.at /= "test"
    PROVE  /\ Elapsed(Top) = clock[Top.unit] - Top.entered
           /\ clock[Top.unit] - Top.entered < Top.wait + 2 * MaxLag
<1>. DEFINE now == clock[Top.unit]
<1>1. /\ Top \in Frame /\ now \in Nat /\ Top.entered \in Nat /\ Top.entered <= now
      /\ Top.start = Top.entered % Wrap
  BY TopFacts DEF AloneInv, Frame
<1>2. Paced(Top, now)  BY DEF AloneInv
<1>3. Top.wait \in Int /\ Top.seen \in Int /\ MaxLag \in Nat /\ Wrap \in Nat \ {0}
  BY <1>1, BoundsAssumption, WrapAssumption DEF Frame
<1>4. Top.unit \in {"ms", "us"}  BY <1>1 DEF Frame, Units
<1>5. Top.seen - Top.entered < Top.wait + MaxLag
  BY <1>1, <1>2, <1>3, <1>4 DEF Paced
<1>6. now - Top.entered < Top.wait + 2 * MaxLag
  BY <1>1, <1>2, <1>3, <1>5 DEF Paced
<1>7. Top.wait + 2 * MaxLag <= Wrap  BY <1>2 DEF Paced, Alone
<1>8. now - Top.entered < Wrap  BY <1>1, <1>3, <1>6, <1>7
<1>9. ((now % Wrap) - (Top.entered % Wrap)) % Wrap = now - Top.entered
  BY <1>1, <1>3, <1>8, ExactDifference
<1>. QED  BY <1>1, <1>6, <1>9 DEF Elapsed, Ticks

LEMMA NextAlone == ASSUME Alone  PROVE AloneInv /\ [Next]_vars => AloneInv'
<1>. SUFFICES ASSUME AloneInv, [Next]_vars  PROVE AloneInv'  OBVIOUS
<1>1. IInv'  BY NextIInv DEF AloneInv
<1>2. MaxLag \in Nat /\ frames \in Seq(Frame)
  BY BoundsAssumption DEF AloneInv, IInv, TypeOK
<1>3. ASSUME OnStack
      PROVE  /\ Top \in Frame /\ Paced(Top, clock[Top.unit])
             /\ clock[Top.unit] \in Nat /\ Top.unit \in {"ms", "us"}
             /\ Top.entered \in Nat /\ Top.seen \in Nat /\ Top.wait \in Nat
             /\ Top.elapsed \in Nat
  BY <1>3, TopFacts, WrapAssumption DEF AloneInv, Frame, Units
<1>4. CASE UNCHANGED vars
  BY <1>1, <1>4 DEF vars, AloneInv, Top, OnStack
<1>5. ASSUME NEW h \in Hooks \cup {None}, HookSignal(h)  PROVE AloneInv'
  BY <1>1, <1>5 DEF HookSignal, AloneInv, Top, OnStack
<1>6. ASSUME NEW u \in Units, NEW n \in Requests, CallDelay(u, n)  PROVE AloneInv'
  <2>. DEFINE f == [unit |-> u, start |-> Ticks(u), wait |-> n, elapsed |-> 0,
                    at |-> "test", entered |-> clock[u], seen |-> clock[u]]
  <2>1. clock[u] \in Nat /\ n \in Nat /\ n >= 1
    BY RequestsAssumption, WrapAssumption DEF AloneInv, IInv, TypeOK
  <2>2. Paced(f, clock[u])
    BY <1>2, <2>1 DEF Paced
  <2>3. frames' = Append(frames, f) /\ clock' = clock /\ Len(frames) < 1
    BY <1>6 DEF CallDelay, Alone
  <2>4. f.unit = u  OBVIOUS
  <2>. HIDE DEF f
  <2>5. Len(frames) = 0 /\ frames = << >>  BY <1>2, <2>3
  <2>6. frames' = <<f>>  BY <2>3, <2>5
  <2>7. Len(frames') = 1 /\ frames'[1] = f  BY <2>6
  <2>. QED  BY <1>1, <2>2, <2>3, <2>4, <2>7 DEF AloneInv, Top
<1>7. CASE Again
  <2>. DEFINE f == [Top EXCEPT !.at = "pending", !.seen = clock[Top.unit]]
              now == clock[Top.unit]
  <2>1. OnStack /\ SetTop(f) /\ clock' = clock /\ Measured(Top) < Top.wait /\ Top.at = "test"
    BY <1>7 DEF Again, AtTest
  <2>2. /\ f.unit = Top.unit /\ f.wait = Top.wait /\ f.entered = Top.entered
        /\ f.elapsed = Top.elapsed /\ f.at = "pending" /\ f.seen = now
    BY <1>3, <2>1 DEF Frame
  <2>3. Top.unit = "us" => now - Top.entered < Top.wait
    BY <2>1, MeasuresTrue DEF Measured
  <2>4. Top.unit = "ms" => now - Top.entered < Top.wait + MaxLag
    <3>1. SUFFICES ASSUME Top.unit = "ms"  PROVE now - Top.entered < Top.wait + MaxLag
      OBVIOUS
    <3>2. Top.elapsed < Top.wait  BY <2>1, <3>1 DEF Measured
    <3>3. Top.elapsed = Top.seen - Top.entered /\ now <= Top.seen + MaxLag
      BY <1>3, <2>1, <3>1 DEF Paced
    <3>4. /\ now \in Int /\ Top.entered \in Int /\ Top.seen \in Int
          /\ Top.wait \in Int /\ MaxLag \in Int
      BY <1>2, <1>3, <2>1
    <3>. HIDE DEF now
    <3>. QED  BY <3>2, <3>3, <3>4
  <2>5. Paced(f, now)
    BY <1>2, <1>3, <2>1, <2>2, <2>3, <2>4 DEF Paced
  <2>. HIDE DEF f
  <2>. QED  BY <1>1, <2>1, <2>2, <2>5, SetTopAlone
<1>8. CASE Return \/ HookRaises
  BY <1>1, <1>8, PopAlone DEF Return, AtTest, HookRaises
<1>9. CASE NothingPending \/ CallbackReturns
  <2>. DEFINE f == [Top EXCEPT !.at = AfterPending(Top)]
  <2>1. OnStack /\ SetTop(f) /\ clock' = clock /\ Top.at \in {"pending", "callback"}
    BY <1>9 DEF NothingPending, CallbackReturns
  <2>2. /\ f.unit = Top.unit /\ f.wait = Top.wait /\ f.entered = Top.entered
        /\ f.elapsed = Top.elapsed /\ f.seen = Top.seen
        /\ f.at = IF Top.unit = "us" THEN "test" ELSE "yield"
    BY <1>3, <2>1 DEF Frame, AfterPending
  <2>3. Paced(f, clock[Top.unit])  BY <1>3, <2>1, <2>2 DEF Paced
  <2>. HIDE DEF f
  <2>. QED  BY <1>1, <2>1, <2>2, <2>3, SetTopAlone
<1>10. CASE RunCallback
  <2>. DEFINE f == [Top EXCEPT !.at = "callback"]
  <2>1. OnStack /\ SetTop(f) /\ clock' = clock /\ Top.at = "pending"
    BY <1>10 DEF RunCallback
  <2>2. /\ f.unit = Top.unit /\ f.wait = Top.wait /\ f.entered = Top.entered
        /\ f.elapsed = Top.elapsed /\ f.seen = Top.seen /\ f.at = "callback"
    BY <1>3, <2>1 DEF Frame
  <2>3. Paced(f, clock[Top.unit])  BY <1>3, <2>1, <2>2 DEF Paced
  <2>. HIDE DEF f
  <2>. QED  BY <1>1, <2>1, <2>2, <2>3, SetTopAlone
<1>11. CASE Yield
  <2>. DEFINE f == [Top EXCEPT !.at = "hook"]
  <2>1. OnStack /\ SetTop(f) /\ clock' = clock /\ Top.at = "yield"
    BY <1>11 DEF Yield
  <2>2. /\ f.unit = Top.unit /\ f.wait = Top.wait /\ f.entered = Top.entered
        /\ f.elapsed = Top.elapsed /\ f.seen = Top.seen /\ f.at = "hook"
    BY <1>3, <2>1 DEF Frame
  <2>3. Paced(f, clock[Top.unit])  BY <1>3, <2>1, <2>2 DEF Paced
  <2>. HIDE DEF f
  <2>. QED  BY <1>1, <2>1, <2>2, <2>3, SetTopAlone
<1>12. CASE NoHook  BY <1>1, <1>12 DEF NoHook, AloneInv, Top, OnStack
<1>13. CASE HookReturns
  <2>. DEFINE f == [Top EXCEPT !.at = "test", !.elapsed = Elapsed(Top),
                               !.seen = clock[Top.unit]]
              now == clock[Top.unit]
  <2>1. OnStack /\ SetTop(f) /\ clock' = clock /\ Top.at = "hook"
    BY <1>13 DEF HookReturns
  <2>2. /\ f.unit = Top.unit /\ f.wait = Top.wait /\ f.entered = Top.entered
        /\ f.elapsed = Elapsed(Top) /\ f.seen = now /\ f.at = "test"
    BY <1>3, <2>1 DEF Frame
  <2>3. Elapsed(Top) = now - Top.entered /\ now - Top.entered < Top.wait + 2 * MaxLag
    BY <2>1, MeasuresTrue
  <2>4. Top.unit = "ms"  BY <1>3, <2>1 DEF Paced
  <2>5. Paced(f, now)
    <3>1. /\ now \in Int /\ f.entered \in Int /\ f.wait \in Int /\ MaxLag \in Nat
          /\ f.entered <= now /\ f.wait \in Requests
      BY <1>2, <1>3, <2>1, <2>2, TopFacts DEF Paced, AloneInv
    <3>2. /\ f.at = "test" /\ f.unit = "ms" /\ f.seen = now
          /\ f.elapsed = now - f.entered /\ now - f.entered < f.wait + 2 * MaxLag
      BY <2>2, <2>3, <2>4
    <3>. HIDE DEF f, now
    <3>. QED  BY <3>1, <3>2 DEF Paced
  <2>. HIDE DEF f
  <2>. QED  BY <1>1, <2>1, <2>2, <2>5, SetTopAlone
<1>14. ASSUME NEW u \in Units, Tick(u)  PROVE AloneInv'
  <2>1. /\ UNCHANGED <<hook, frames, crashed>>
        /\ OnStack => clock[Top.unit] - Top.seen < MaxLag
        /\ clock' = [clock EXCEPT ![u] = @ + 1]
        /\ clock \in [Units -> Nat]
    BY <1>14 DEF Tick, AloneInv, IInv, TypeOK
  <2>2. Top' = Top /\ OnStack' = OnStack  BY <2>1 DEF Top, OnStack
  <2>3. ASSUME OnStack  PROVE Paced(Top, clock'[Top.unit])
    <3>1. Top.unit \in Units  BY <1>3, <2>3 DEF Units
    <3>2. \/ clock'[Top.unit] = clock[Top.unit]
          \/ clock'[Top.unit] = clock[Top.unit] + 1
      BY <2>1, <3>1
    <3>. QED  BY <1>2, <1>3, <2>1, <2>3, <3>2 DEF Paced
  <2>. QED  BY <1>1, <2>1, <2>2, <2>3 DEF AloneInv
<1>. QED
  BY <1>4, <1>5, <1>6, <1>7, <1>8, <1>9, <1>10, <1>11, <1>12, <1>13, <1>14
     DEF Next, LoopStep

(* A delay that runs alone is late by at most what passes in one turn of   *)
(* its loop, at every pace of the program, if no delay is so long that the *)
(* counter wraps before it is read again (mphalport.c:44-60).              *)
THEOREM LateByATurn ==
    ASSUME Alone
    PROVE  Spec => OversleepBounded
<1>1. Init => AloneInv
  BY InitIInv DEF Init, AloneInv, OnStack
<1>2. AloneInv => (Return => clock[Top.unit] - Top.entered < Top.wait + 3 * MaxLag)
  <2>. SUFFICES ASSUME AloneInv, Return
                PROVE  clock[Top.unit] - Top.entered < Top.wait + 3 * MaxLag
    OBVIOUS
  <2>1. OnStack /\ Top.at = "test"  BY DEF Return, AtTest
  <2>2. /\ Top \in Frame /\ clock[Top.unit] \in Nat /\ Paced(Top, clock[Top.unit])
    BY <2>1, TopFacts DEF AloneInv
  <2>3. /\ Top.wait \in Int /\ Top.seen \in Int /\ Top.entered \in Int
        /\ Top.elapsed \in Int /\ MaxLag \in Nat /\ Top.unit \in {"ms", "us"}
    BY <2>2, BoundsAssumption, WrapAssumption DEF Frame, Units
  <2>. QED  BY <2>1, <2>2, <2>3 DEF Paced
<1>. QED  BY <1>1, <1>2, NextAlone, PTL DEF Spec, OversleepBounded
============================================================================
