------------------------- MODULE StackHeights_proofs -------------------------
(***************************************************************************)
(* A certified image never makes the machine pop an empty stack, whatever   *)
(* its code is and however deep its calls go.                               *)
(*                                                                          *)
(* CertificateHolds is inductive together with the types of the machine     *)
(* (BBVM_proofs!Inv): the certificate's promise about the next instruction  *)
(* of the running frame is kept by each instruction, and that of a          *)
(* suspended frame by the value its callee returns.                         *)
(***************************************************************************)
EXTENDS StackHeights, BBVM_proofs

(* CertificateHolds, said of a sequence of frames.                          *)
Awaiting(fs, k) == IF k < Len(fs) /\ ~ fs[k + 1].is_constructor THEN 1 ELSE 0

Fits(f, w) == f.ip < CodeLen(f.unit) /\ Height(f.unit, f.ip) <= Len(f.stack) + w

Calls(f)     == IsCall(InstrAt(f.unit, f.ip))
HasCallee(f) == /\ f.stack # <<>>
                /\ Denotes(f.stack[Len(f.stack)], image.functions \cup image.contracts)

Fit(fs) ==
  \A k \in 1 .. Len(fs) :
    /\ Fits(fs[k], Awaiting(fs, k))
    /\ Calls(fs[k]) => k = Len(fs) /\ HasCallee(fs[k])

(* The machine runs a certified image, and the certificate holds.           *)
Safe == Inv /\ Certified /\ globals = EmptyDict /\ Fit(frames)

LEMMA HoldsNow ==
  CertificateHolds <=> (status = "running" /\ Certified => globals = EmptyDict /\ Fit(frames))
  BY DEF CertificateHolds, HighEnough, CalleeOnTop, Awaited, Fit, Fits, Calls, HasCallee, Awaiting

LEMMA HoldsNext ==
  ASSUME UNCHANGED image, globals' = EmptyDict, Fit(frames')
  PROVE  CertificateHolds'
<1>1. \A k : Awaiting(frames', k) = Awaited(k)'
  BY DEF Awaiting, Awaited
<1>2. \A u, ip : Height(u, ip) = Height(u, ip)' /\ InstrAt(u, ip) = InstrAt(u, ip)'
  BY DEF Height, InstrAt, Code
<1>3. \A u : CodeLen(u) = CodeLen(u)'
  BY DEF CodeLen, Code
<1>4. EmptyDict' = EmptyDict
  BY DEF EmptyDict
<1>5. ASSUME NEW k \in 1 .. Len(frames') PROVE HighEnough(k)' /\ CalleeOnTop(k)'
  <2>1. /\ Fits(frames'[k], Awaiting(frames', k))
        /\ Calls(frames'[k]) => k = Len(frames') /\ HasCallee(frames'[k])
    BY <1>5 DEF Fit
  <2>2. HighEnough(k)'
    BY <1>1, <1>2, <1>3, <2>1 DEF Fits, HighEnough
  <2>3. CalleeOnTop(k)'
    BY <1>2, <2>1 DEF Calls, HasCallee, CalleeOnTop, Denotes
  <2> QED
    BY <2>2, <2>3
<1> QED
  BY <1>4, <1>5 DEF CertificateHolds

LEMMA CertifiedNext == ASSUME UNCHANGED image PROVE Certified' = Certified
<1>1. \A u, ip : CertifiedAt(u, ip)' = CertifiedAt(u, ip)
  BY DEF CertifiedAt, KeepsHeight, KnownCallee, Height, InstrAt, CodeLen, Code
<1>2. \A u : CodeLen(u)' = CodeLen(u) /\ Height(u, 0)' = Height(u, 0)
  BY DEF CodeLen, Height, Code
<1> QED
  BY <1>1, <1>2 DEF Certified

-----------------------------------------------------------------------------
(* Sequences of frames.                                                     *)

(* The uppermost frame of a part of fs may change when it is no caller.     *)
LEMMA TopFits ==
  ASSUME NEW fs, Fit(fs), Len(fs) \in Nat, NEW gs, Len(gs) \in 1 .. Len(fs),
         \A k \in 1 .. Len(gs) - 1 : gs[k] = fs[k],
         gs[Len(gs)].is_constructor = fs[Len(gs)].is_constructor,
         Fits(gs[Len(gs)], 0), Calls(gs[Len(gs)]) => HasCallee(gs[Len(gs)])
  PROVE  Fit(gs)
<1> DEFINE m == Len(gs)
<1>1. Awaiting(gs, m) = 0
  BY DEF Awaiting
<1>2. ASSUME NEW k \in 1 .. m - 1
      PROVE  Fits(gs[k], Awaiting(gs, k)) /\ ~ Calls(gs[k])
  <2>1. gs[k + 1].is_constructor = fs[k + 1].is_constructor
    <3>1. CASE k + 1 = m
      BY <3>1
    <3>2. CASE k + 1 # m
      <4>1. k + 1 \in 1 .. m - 1
        BY <3>2
      <4> QED
        BY <4>1
    <3> QED
      BY <3>1, <3>2
  <2>2. Awaiting(gs, k) = Awaiting(fs, k)
    BY <2>1 DEF Awaiting
  <2>3. k \in 1 .. Len(fs) /\ k # Len(fs) /\ gs[k] = fs[k]
    OBVIOUS
  <2> QED
    BY <2>2, <2>3 DEF Fit
<1>3. ASSUME NEW k \in 1 .. m
      PROVE  Fits(gs[k], Awaiting(gs, k)) /\ (Calls(gs[k]) => k = m /\ HasCallee(gs[k]))
  <2>1. CASE k = m
    BY <1>1, <2>1
  <2>2. CASE k # m
    <3>1. k \in 1 .. m - 1
      BY <2>2
    <3> QED
      BY <1>2, <3>1
  <2> QED
    BY <2>1, <2>2
<1> QED
  BY <1>3 DEF Fit

(* A caller that fits, counting what it waits for, and its callee.          *)
LEMMA CallFits ==
  ASSUME NEW fs, Fit(fs), Len(fs) \in Nat \ {0}, NEW gs, Len(gs) = Len(fs) + 1,
         \A k \in 1 .. Len(fs) - 1 : gs[k] = fs[k],
         gs[Len(fs)].is_constructor = fs[Len(fs)].is_constructor,
         Fits(gs[Len(fs)], Awaiting(gs, Len(fs))), ~ Calls(gs[Len(fs)]),
         Fits(gs[Len(gs)], 0), ~ Calls(gs[Len(gs)])
  PROVE  Fit(gs)
<1> DEFINE m == Len(fs)
<1>1. Awaiting(gs, m + 1) = 0
  BY DEF Awaiting
<1>2. ASSUME NEW k \in 1 .. m - 1
      PROVE  Fits(gs[k], Awaiting(gs, k)) /\ ~ Calls(gs[k])
  <2>1. gs[k + 1].is_constructor = fs[k + 1].is_constructor
    <3>1. CASE k + 1 = m
      BY <3>1
    <3>2. CASE k + 1 # m
      <4>1. k + 1 \in 1 .. m - 1
        BY <3>2
      <4> QED
        BY <4>1
    <3> QED
      BY <3>1, <3>2
  <2>2. Awaiting(gs, k) = Awaiting(fs, k)
    BY <2>1 DEF Awaiting
  <2>3. k \in 1 .. m /\ k # m /\ gs[k] = fs[k]
    OBVIOUS
  <2> QED
    BY <2>2, <2>3 DEF Fit
<1>3. ASSUME NEW k \in 1 .. m + 1 PROVE Fits(gs[k], Awaiting(gs, k)) /\ ~ Calls(gs[k])
  <2>1. CASE k = m + 1
    BY <1>1, <2>1
  <2>2. CASE k = m
    BY <2>2
  <2>3. CASE k # m /\ k # m + 1
    <3>1. k \in 1 .. m - 1
      BY <2>3
    <3> QED
      BY <1>2, <3>1
  <2> QED
    BY <2>1, <2>2, <2>3
<1> QED
  BY <1>3 DEF Fit

-----------------------------------------------------------------------------
(* The running frame.                                                       *)

LEMMA CertificateAt ==
  ASSUME Inv, Certified, NEW u \in UnitsOf(image)
  PROVE  /\ CodeLen(u) \in Nat /\ CodeLen(u) > 0 /\ Height(u, 0) = 0
         /\ \A ip \in 0 .. CodeLen(u) - 1 : CertifiedAt(u, ip)
  BY DEF Certified, Inv, ImageOK, CodeLen, Code

(* Its instruction has what it pops.                                        *)
LEMMA RunningFits ==
  ASSUME Safe, Running
  PROVE  /\ Frame.unit \in UnitsOf(image)
         /\ Len(frames) \in Nat \ {0} /\ frames \in Seq(FramesOf(image))
         /\ CodeLen(Frame.unit) \in Nat /\ Frame.ip \in 0 .. CodeLen(Frame.unit) - 1
         /\ Instr = InstrAt(Frame.unit, Frame.ip)
         /\ CertifiedAt(Frame.unit, Frame.ip)
         /\ Height(Frame.unit, Frame.ip) \in Nat /\ Depth \in Nat
         /\ Height(Frame.unit, Frame.ip) <= Depth
         /\ IsCall(Instr) => HasCallee(Frame)
<1>1. /\ Len(frames) \in Nat \ {0} /\ frames \in Seq(FramesOf(image))
      /\ GoodFrame(Frame, image, Len(heap)) /\ Depth \in Nat
  BY Running_ DEF Safe, Inv, GoodFrames
<1>2. Frame.unit \in UnitsOf(image) /\ Frame.ip \in Nat
  BY <1>1 DEF GoodFrame, FramesOf
<1>3. /\ Fits(Frame, Awaiting(frames, Len(frames)))
      /\ Calls(Frame) => HasCallee(Frame)
  BY <1>1 DEF Safe, Fit, Frame
<1>4. Awaiting(frames, Len(frames)) = 0
  BY DEF Awaiting
<1>5. CodeLen(Frame.unit) \in Nat /\ Frame.ip \in 0 .. CodeLen(Frame.unit) - 1
  BY <1>2, <1>3, CertificateAt DEF Fits, Safe
<1>6. CertifiedAt(Frame.unit, Frame.ip)
  BY <1>2, <1>5, CertificateAt DEF Safe
<1>7. Height(Frame.unit, Frame.ip) \in Nat
  BY <1>6 DEF CertifiedAt
<1>8. Height(Frame.unit, Frame.ip) <= Depth
  BY <1>1, <1>3, <1>4 DEF Fits, Depth, Stack
<1>9. Instr = InstrAt(Frame.unit, Frame.ip)
  BY DEF Instr, InstrAt
<1> QED
  BY <1>1, <1>2, <1>3, <1>5, <1>6, <1>7, <1>8, <1>9 DEF Calls

(* The instruction after one that falls through.                            *)
LEMMA Successor ==
  ASSUME Safe, Running, Falls(Instr)
  PROVE  LET u == Frame.unit  ip == Frame.ip + 1 IN
         /\ ip \in 0 .. CodeLen(u) - 1
         /\ Height(u, ip) \in Nat
         /\ Height(u, ip) <= Height(u, Frame.ip) - Pops(Instr) + Pushes(Instr)
         /\ IsCall(InstrAt(u, ip)) =>
              /\ Instr.op = "LOAD_GLOBAL"
              /\ Instr.arg \in image.functions \cup image.contracts
<1> DEFINE u == Frame.unit
           ip == Frame.ip + 1
<1>1. /\ CodeLen(u) \in Nat /\ Frame.ip \in 0 .. CodeLen(u) - 1
      /\ Instr = InstrAt(u, Frame.ip) /\ CertifiedAt(u, Frame.ip) /\ u \in UnitsOf(image)
  BY RunningFits
<1>2. ip < CodeLen(u) /\ Height(u, ip) <= Height(u, Frame.ip) - Pops(Instr) + Pushes(Instr)
  BY <1>1 DEF CertifiedAt, KeepsHeight
<1>3. ip \in 0 .. CodeLen(u) - 1
  BY <1>1, <1>2
<1>4. CertifiedAt(u, ip)
  BY <1>1, <1>3, CertificateAt DEF Safe
<1>5. ip - 1 = Frame.ip
  BY <1>1
<1>6. Height(u, ip) \in Nat /\ KnownCallee(u, ip)
  BY <1>4 DEF CertifiedAt
<1>7. IsCall(InstrAt(u, ip)) =>
        Instr.op = "LOAD_GLOBAL" /\ Instr.arg \in image.functions \cup image.contracts
  BY <1>1, <1>5, <1>6 DEF KnownCallee
<1> QED
  BY <1>2, <1>3, <1>6, <1>7

LEMMA InstrNumbers ==
  ASSUME Safe, Running
  PROVE  Instr.n \in Nat /\ Pops(Instr) \in Nat /\ Pushes(Instr) \in {0, 1}
<1>1. /\ Frame.ip + 1 \in 1 .. Len(Code(Frame.unit)) /\ Frame.unit \in UnitsOf(image)
      /\ Instr = Code(Frame.unit)[Frame.ip + 1]
  BY RunningFits DEF CodeLen, InstrAt
<1>2. CodeOK(Code(Frame.unit))
  BY <1>1 DEF Safe, Inv, ImageOK, Code
<1>3. Instr.n \in Nat
  BY <1>1, <1>2 DEF CodeOK, InstrOK
<1> QED
  BY <1>3 DEF Pops, Pushes

LEMMA MovedFrames ==
  ASSUME Safe, Running, NEW ip, NEW d, NEW s
  PROVE  LET gs == Moved(ip, d, s) IN
         /\ Len(gs) = Len(frames)
         /\ gs[Len(frames)] = FrameAt(Frame, ip, d, s)
         /\ \A k \in 1 .. Len(frames) - 1 : gs[k] = frames[k]
  BY RunningFits DEF Moved

(* The running frame lands on ip, which is no call or has its callee.       *)
LEMMA MovedFits ==
  ASSUME Safe, Running, NEW d, NEW s, Len(s) \in Nat, NEW ip \in 0 .. CodeLen(Frame.unit) - 1,
         Height(Frame.unit, ip) <= Len(s),
         IsCall(InstrAt(Frame.unit, ip)) =>
           s # <<>> /\ Denotes(s[Len(s)], image.functions \cup image.contracts)
  PROVE  Fit(Moved(ip, d, s))
<1> DEFINE f == FrameAt(Frame, ip, d, s)
           gs == Moved(ip, d, s)
<1>1. /\ Len(gs) = Len(frames) /\ gs[Len(frames)] = f
      /\ \A k \in 1 .. Len(frames) - 1 : gs[k] = frames[k]
  BY MovedFrames
<1>2. CodeLen(Frame.unit) \in Nat /\ Len(frames) \in Nat \ {0}
  BY RunningFits
<1>3. f.unit = Frame.unit /\ f.ip = ip /\ f.stack = s /\ f.is_constructor = Frame.is_constructor
  BY DEF FrameAt
<1>4. Fits(f, 0)
  <2>1. Height(Frame.unit, ip) \in Nat
    BY RunningFits, CertificateAt DEF Safe, CertifiedAt
  <2> QED
    BY <1>2, <1>3, <2>1 DEF Fits
<1>5. Calls(f) => HasCallee(f)
  BY <1>3 DEF Calls, HasCallee
<1> HIDE DEF f, gs
<1>6. Fit(frames) /\ Len(gs) \in 1 .. Len(frames)
  BY <1>1, <1>2 DEF Safe
<1>7. gs[Len(gs)] = f /\ frames[Len(gs)] = Frame /\ Len(gs) = Len(frames)
  BY <1>1 DEF Frame
<1>8. Fit(gs)
  BY <1>1, <1>2, <1>3, <1>4, <1>5, <1>6, <1>7, TopFits
<1> QED
  BY <1>8 DEF gs

(* An instruction that falls through and leaves at least what it should.    *)
LEMMA GoesOn ==
  ASSUME Safe, Running, Falls(Instr), Instr.op # "LOAD_GLOBAL",
         NEW d, NEW s, Len(s) \in Nat, Len(s) = Depth - Pops(Instr) + Pushes(Instr)
  PROVE  Fit(Moved(Frame.ip + 1, d, s))
<1>1. /\ Frame.ip + 1 \in 0 .. CodeLen(Frame.unit) - 1
      /\ Height(Frame.unit, Frame.ip + 1) \in Nat
      /\ Height(Frame.unit, Frame.ip + 1) <= Height(Frame.unit, Frame.ip) - Pops(Instr) + Pushes(Instr)
      /\ ~ IsCall(InstrAt(Frame.unit, Frame.ip + 1))
  BY Successor
<1>2. Height(Frame.unit, Frame.ip) \in Nat /\ Height(Frame.unit, Frame.ip) <= Depth /\ Depth \in Nat
  BY RunningFits
<1>3. Pops(Instr) \in Nat /\ Pushes(Instr) \in Nat
  BY InstrNumbers
<1>4. Height(Frame.unit, Frame.ip + 1) <= Len(s)
  BY <1>1, <1>2, <1>3
<1> QED
  BY <1>1, <1>4, MovedFits

(* A jump.                                                                  *)
LEMMA JumpsTo ==
  ASSUME Safe, Running, IsJump(Instr), NEW s, Len(s) \in Nat,
         Len(s) = Depth - Pops(Instr), NEW d
  PROVE  Fit(Moved(Instr.n, d, s))
<1>1. /\ CodeLen(Frame.unit) \in Nat /\ Frame.ip \in 0 .. CodeLen(Frame.unit) - 1
      /\ Instr = InstrAt(Frame.unit, Frame.ip) /\ Frame.unit \in UnitsOf(image)
      /\ KeepsHeight(Frame.unit, Frame.ip) /\ KnownCallee(Frame.unit, Frame.ip)
      /\ Height(Frame.unit, Frame.ip) \in Nat /\ Height(Frame.unit, Frame.ip) <= Depth
      /\ Depth \in Nat
  BY RunningFits DEF CertifiedAt
<1>2. Instr.n \in Nat
  BY InstrNumbers
<1>3. Pushes(Instr) = 0 /\ Pops(Instr) \in Nat
  BY InstrNumbers DEF IsJump, Pushes, ArithmeticOps
<1>4. /\ Instr.n < CodeLen(Frame.unit)
      /\ Height(Frame.unit, Instr.n) <= Height(Frame.unit, Frame.ip) - Pops(Instr) + Pushes(Instr)
  BY <1>1 DEF KeepsHeight
<1>5. ~ IsCall(InstrAt(Frame.unit, Instr.n))
  BY <1>1, <1>4 DEF KnownCallee
<1>6. Instr.n \in 0 .. CodeLen(Frame.unit) - 1
  BY <1>1, <1>2, <1>4
<1>7. Height(Frame.unit, Instr.n) \in Nat
  BY <1>1, <1>6, CertificateAt DEF Safe, CertifiedAt
<1>8. Height(Frame.unit, Instr.n) <= Len(s)
  BY <1>1, <1>3, <1>4, <1>7
<1> QED
  BY <1>5, <1>6, <1>8, MovedFits

(* An instruction that enters the frame g and gets one value, from g or at  *)
(* once.                                                                    *)
LEMMA Enters ==
  ASSUME Safe, Running, Falls(Instr), Instr.op # "LOAD_GLOBAL", Pushes(Instr) = 1,
         Pops(Instr) \in Nat,
         NEW u \in UnitsOf(image), NEW d, NEW ctor \in BOOLEAN,
         NEW s, Len(s) \in Nat,
         Len(s) = Depth - Pops(Instr) + (IF ctor THEN 1 ELSE 0),
         Enter(s, NewFrame(u, d, ctor))
  PROVE  Fit(frames')
<1> DEFINE f == FrameAt(Frame, Frame.ip + 1, Frame.locals, s)
           g == NewFrame(u, d, ctor)
           ms == Moved(Frame.ip + 1, Frame.locals, s)
           gs == Append(ms, g)
           n == Len(frames)
<1>1. /\ Len(ms) = n /\ ms[n] = f
      /\ \A k \in 1 .. n - 1 : ms[k] = frames[k]
  BY MovedFrames
<1>2. n \in Nat \ {0} /\ frames \in Seq(FramesOf(image))
  BY RunningFits
<1>3. frames' = gs
  BY DEF Enter
<1>4. /\ Len(gs) = n + 1 /\ gs[n] = f /\ gs[n + 1] = g
      /\ \A k \in 1 .. n - 1 : gs[k] = frames[k]
  <2>1. ms = [k \in 1 .. n |-> IF k = n THEN f ELSE frames[k]]
    BY <1>2 DEF Moved
  <2> QED
    BY <1>1, <1>2, <2>1
<1>5. f.unit = Frame.unit /\ f.ip = Frame.ip + 1 /\ f.stack = s
      /\ f.is_constructor = Frame.is_constructor
  BY DEF FrameAt
<1>6. g.unit = u /\ g.ip = 0 /\ g.stack = <<>> /\ g.is_constructor = ctor
  BY DEF NewFrame
<1>7. Fits(g, 0) /\ ~ Calls(g)
  <2>1. CodeLen(u) \in Nat /\ CodeLen(u) > 0 /\ Height(u, 0) = 0 /\ CertifiedAt(u, 0)
    BY CertificateAt DEF Safe
  <2>2. ~ IsCall(InstrAt(u, 0))
    BY <2>1 DEF CertifiedAt, KnownCallee
  <2> QED
    BY <1>6, <2>1, <2>2 DEF Fits, Calls
<1>8. Awaiting(gs, n) = IF ctor THEN 0 ELSE 1
  BY <1>2, <1>4, <1>6 DEF Awaiting
<1>9. Fits(f, Awaiting(gs, n)) /\ ~ Calls(f)
  <2>1. /\ Frame.ip + 1 \in 0 .. CodeLen(Frame.unit) - 1 /\ CodeLen(Frame.unit) \in Nat
        /\ Height(Frame.unit, Frame.ip + 1) \in Nat
        /\ Height(Frame.unit, Frame.ip + 1) <= Height(Frame.unit, Frame.ip) - Pops(Instr) + 1
        /\ ~ IsCall(InstrAt(Frame.unit, Frame.ip + 1))
    BY Successor, RunningFits
  <2>2. Height(Frame.unit, Frame.ip) \in Nat /\ Height(Frame.unit, Frame.ip) <= Depth /\ Depth \in Nat
    BY RunningFits
  <2>3. Height(Frame.unit, Frame.ip + 1) <= Len(s) + Awaiting(gs, n)
    BY <1>8, <2>1, <2>2
  <2> QED
    BY <1>5, <2>1, <2>3 DEF Fits, Calls
<1> HIDE DEF f, g, ms, gs
<1>10. frames[n] = Frame
  BY DEF Frame
<1>11. Fit(gs)
  BY <1>2, <1>4, <1>5, <1>7, <1>9, <1>10, CallFits DEF Safe
<1> QED
  BY <1>3, <1>11

-----------------------------------------------------------------------------
(* One lemma per action: the frames still fit.                              *)

LEMMA Lengths ==
  ASSUME Inv, NEW ops, Executes(ops), NEW k \in 0 .. Depth
  PROVE  /\ Len(Dropped(k)) = Depth - k /\ Depth \in Nat
         /\ \A v : Len(Append(Dropped(k), v)) = Depth - k + 1
<1>1. GoodStack(Stack, Len(heap)) /\ Len(Stack) = Depth /\ Depth \in Nat
  BY Operands
<1>2. Len(Dropped(k)) = Depth - k /\ GoodStack(Dropped(k), Len(heap))
  BY <1>1, GoodDrop DEF Dropped
<1>3. Dropped(k) \in Seq(Value)
  BY <1>2 DEF GoodStack
<1> QED
  BY <1>1, <1>2, <1>3

LEMMA StackAppend ==
  ASSUME Safe, NEW ops, Executes(ops), NEW v
  PROVE  /\ Depth \in Nat /\ Len(Append(Stack, v)) = Depth + 1
         /\ Append(Stack, v) # <<>> /\ Append(Stack, v)[Depth + 1] = v
<1>1. Stack \in Seq(Value) /\ Len(Stack) = Depth /\ Depth \in Nat
  BY Operands DEF Safe, GoodStack
<1> QED
  BY <1>1

LEMMA PopsEnough ==
  ASSUME Safe, NEW ops, Executes(ops)
  PROVE  /\ Inv /\ Running /\ Instr.op \in ops
         /\ Depth \in Nat /\ Pops(Instr) \in 0 .. Depth
  BY Operands, InstrNumbers DEF Safe

LEMMA PushFits ==
  ASSUME Safe, NEW ops, Executes(ops), ops \subseteq {"LOAD_CONST", "LOAD_FAST"}, NEW v, Push(v)
  PROVE  Fit(frames')
<1>1. Inv /\ Running /\ Instr.op \in {"LOAD_CONST", "LOAD_FAST"}
  BY PopsEnough
<1>2. Falls(Instr) /\ Pops(Instr) = 0 /\ Pushes(Instr) = 1
  BY <1>1 DEF Falls, Stops, Pops, Pushes, ArithmeticOps
<1>3. Depth \in Nat /\ Len(Append(Stack, v)) = Depth + 1
  BY StackAppend
<1>4. frames' = Moved(Frame.ip + 1, Frame.locals, Append(Stack, v))
  BY DEF Push, Continue, Goto
<1>5. Len(Append(Stack, v)) \in Nat /\ Instr.op # "LOAD_GLOBAL"
  BY <1>1, <1>3
<1>6. Len(Append(Stack, v)) = Depth - Pops(Instr) + Pushes(Instr)
  BY <1>2, <1>3
<1>7. Fit(Moved(Frame.ip + 1, Frame.locals, Append(Stack, v)))
  BY <1>1, <1>2, <1>5, <1>6, GoesOn
<1> QED
  BY <1>4, <1>7

LEMMA LoadGlobalFits == ASSUME Safe, LoadGlobal PROVE Fit(frames')
<1> DEFINE s == Append(Stack, GlobalValue(Instr.arg))
           callees == image.functions \cup image.contracts
<1>1. Executes({"LOAD_GLOBAL"}) /\ frames' = Moved(Frame.ip + 1, Frame.locals, s)
  BY DEF LoadGlobal, ExecutesOnFrames, Push, Continue, Goto
<1>2. Inv /\ Running /\ Instr.op = "LOAD_GLOBAL" /\ Instr.arg \in Name
  BY <1>1, PopsEnough, Operands, NamedInstr DEF NameOps
<1>3. Falls(Instr) /\ Pops(Instr) = 0 /\ Pushes(Instr) = 1
  BY <1>2 DEF Falls, Stops, Pops, Pushes, ArithmeticOps
<1>4. Depth \in Nat /\ Len(s) = Depth + 1 /\ s # <<>> /\ s[Len(s)] = GlobalValue(Instr.arg)
  BY <1>1, StackAppend
<1>5. /\ Frame.ip + 1 \in 0 .. CodeLen(Frame.unit) - 1
      /\ Height(Frame.unit, Frame.ip + 1) \in Nat
      /\ Height(Frame.unit, Frame.ip + 1) <= Height(Frame.unit, Frame.ip) + 1
      /\ IsCall(InstrAt(Frame.unit, Frame.ip + 1)) => Instr.arg \in callees
  <2>1. Height(Frame.unit, Frame.ip) \in Nat
    BY <1>2, RunningFits
  <2> QED
    BY <1>2, <1>3, <2>1, Successor
<1>6. Height(Frame.unit, Frame.ip + 1) <= Len(s)
  <2>1. Height(Frame.unit, Frame.ip) \in Nat /\ Height(Frame.unit, Frame.ip) <= Depth
    BY <1>2, RunningFits
  <2> QED
    BY <1>4, <1>5, <2>1
<1>7. Instr.arg \in callees => Denotes(s[Len(s)], callees)
  <2>1. globals[Instr.arg] = Undefined
    BY <1>2 DEF Safe, EmptyDict
  <2> QED
    BY <1>4, <2>1 DEF GlobalValue, Denotes
<1> HIDE DEF s
<1>8. IsCall(InstrAt(Frame.unit, Frame.ip + 1)) => s # <<>> /\ Denotes(s[Len(s)], callees)
  BY <1>4, <1>5, <1>7
<1>9. Len(s) \in Nat
  BY <1>4
<1> QED
  BY <1>1, <1>2, <1>5, <1>6, <1>8, <1>9, MovedFits

LEMMA StoreFastFits == ASSUME Safe, StoreFast PROVE Fit(frames')
<1>1. /\ Executes({"STORE_FAST"})
      /\ frames' = Moved(Frame.ip + 1, [Frame.locals EXCEPT ![Instr.arg] = Peek(1)], Dropped(1))
  BY DEF StoreFast, ExecutesOnFrames
<1>2. Inv /\ Running /\ Instr.op = "STORE_FAST" /\ Depth \in Nat /\ Pops(Instr) \in 0 .. Depth
  BY <1>1, PopsEnough
<1>3. Falls(Instr) /\ Pops(Instr) = 1 /\ Pushes(Instr) = 0
  BY <1>2 DEF Falls, Stops, Pops, Pushes, ArithmeticOps
<1>4. Len(Dropped(1)) = Depth - 1
  BY <1>1, <1>2, <1>3, Lengths
<1> QED
  BY <1>1, <1>2, <1>3, <1>4, GoesOn

(* An instruction that drops what it pops, and pushes v if it pushes.       *)
LEMMA DropFits ==
  ASSUME Safe, NEW ops, Executes(ops), Falls(Instr), Instr.op # "LOAD_GLOBAL",
         NEW v, NEW s,
         s = IF Pushes(Instr) = 1 THEN Append(Dropped(Pops(Instr)), v) ELSE Dropped(Pops(Instr)),
         Continue(s)
  PROVE  Fit(frames')
<1>1. Inv /\ Running /\ Depth \in Nat /\ Pops(Instr) \in 0 .. Depth
  BY PopsEnough
<1>2. Pushes(Instr) \in {0, 1}
  BY <1>1, InstrNumbers
<1>3. Len(s) = Depth - Pops(Instr) + Pushes(Instr)
  <2>1. /\ Len(Dropped(Pops(Instr))) = Depth - Pops(Instr)
        /\ Len(Append(Dropped(Pops(Instr)), v)) = Depth - Pops(Instr) + 1
    BY <1>1, Lengths
  <2>2. CASE Pushes(Instr) = 1
    BY <2>1, <2>2
  <2>3. CASE Pushes(Instr) = 0
    BY <1>1, <2>1, <2>3
  <2> QED
    BY <1>2, <2>2, <2>3
<1>4. Len(s) \in Nat
  BY <1>1, <1>2, <1>3
<1> QED
  BY <1>1, <1>3, <1>4, GoesOn DEF Continue, Goto

LEMMA BinaryOpFits == ASSUME Safe, BinaryOp PROVE Fit(frames')
<1>1. /\ Executes(ArithmeticOps)
      /\ Continue(Append(Dropped(2), Arithmetic(Instr.op, Peek(2), Peek(1))))
  BY DEF BinaryOp, ExecutesOnFrames
<1>2. Instr.op \in ArithmeticOps
  BY <1>1, PopsEnough
<1>3. Falls(Instr) /\ Pops(Instr) = 2 /\ Pushes(Instr) = 1 /\ Instr.op # "LOAD_GLOBAL"
  BY <1>2 DEF Falls, Stops, Pops, Pushes, ArithmeticOps
<1> QED
  BY <1>1, <1>3, DropFits

LEMMA CompareOpFits == ASSUME Safe, CompareOp PROVE Fit(frames')
<1>1. Executes({"COMPARE_OP"})
  BY DEF CompareOp, ExecutesOnFrames
<1>2. PICK v \in Compare(Instr.arg, Peek(2), Peek(1)) : Continue(Append(Dropped(2), v))
  BY DEF CompareOp
<1>3. Instr.op = "COMPARE_OP"
  BY <1>1, PopsEnough
<1>4. Falls(Instr) /\ Pops(Instr) = 2 /\ Pushes(Instr) = 1
  BY <1>3 DEF Falls, Stops, Pops, Pushes, ArithmeticOps
<1> QED
  BY <1>1, <1>2, <1>3, <1>4, DropFits

LEMMA JumpIfFalseFits == ASSUME Safe, JumpIfFalse PROVE Fit(frames')
<1>1. /\ Executes({"JUMP_IF_FALSE"})
      /\ Goto(IF Truthy(Peek(1)) THEN Frame.ip + 1 ELSE Instr.n, Dropped(1))
  BY DEF JumpIfFalse, ExecutesOnFrames
<1>2. Inv /\ Running /\ Instr.op = "JUMP_IF_FALSE" /\ Depth \in Nat /\ Pops(Instr) \in 0 .. Depth
  BY <1>1, PopsEnough
<1>3. Falls(Instr) /\ IsJump(Instr) /\ Pops(Instr) = 1 /\ Pushes(Instr) = 0
  BY <1>2 DEF Falls, Stops, IsJump, Pops, Pushes, ArithmeticOps
<1>4. Len(Dropped(1)) = Depth - 1
  BY <1>1, <1>2, <1>3, Lengths
<1>5. Fit(Moved(Frame.ip + 1, Frame.locals, Dropped(1)))
  BY <1>2, <1>3, <1>4, GoesOn
<1>6. Fit(Moved(Instr.n, Frame.locals, Dropped(1)))
  BY <1>2, <1>3, <1>4, JumpsTo
<1> QED
  BY <1>1, <1>5, <1>6 DEF Goto

LEMMA JumpFits == ASSUME Safe, Jump PROVE Fit(frames')
<1>1. Executes({"JUMP"}) /\ frames' = Moved(Instr.n, Frame.locals, Stack)
  BY DEF Jump, ExecutesOnFrames, Goto
<1>2. Inv /\ Running /\ Instr.op = "JUMP" /\ Depth \in Nat
  BY <1>1, PopsEnough
<1>3. IsJump(Instr) /\ Pops(Instr) = 0
  BY <1>2 DEF IsJump, Pops, ArithmeticOps
<1>4. Len(Stack) = Depth
  BY DEF Depth
<1> QED
  BY <1>1, <1>2, <1>3, <1>4, JumpsTo

(* The callee is known, so a call is one of a function or a contract.       *)
LEMMA KnownCall ==
  ASSUME Safe, Executes({"CALL_FUNCTION"})
  PROVE  /\ Instr.op = "CALL_FUNCTION" /\ Running /\ Inv
         /\ Denotes(Peek(1), image.contracts \cup image.functions)
         /\ Falls(Instr) /\ Pushes(Instr) = 1 /\ Instr.op # "LOAD_GLOBAL"
         /\ Pops(Instr) = Instr.n + 1 /\ Pops(Instr) \in 0 .. Depth
<1>1. Instr.op = "CALL_FUNCTION" /\ Inv /\ Running /\ Pops(Instr) \in 0 .. Depth /\ Depth \in Nat
  BY PopsEnough
<1>2. Falls(Instr) /\ Pushes(Instr) = 1 /\ Pops(Instr) = Instr.n + 1 /\ IsCall(Instr)
  BY <1>1 DEF Falls, Stops, Pushes, Pops, IsCall, ArithmeticOps
<1>3. Denotes(Stack[Len(Stack)], image.functions \cup image.contracts)
  BY <1>1, <1>2, RunningFits DEF HasCallee, Stack
<1>4. Peek(1) = Stack[Len(Stack)]
  BY <1>1 DEF Peek, Depth
<1> QED
  BY <1>1, <1>2, <1>3, <1>4 DEF Denotes

LEMMA CallContractFits == ASSUME Safe, CallContract PROVE Fit(frames')
<1> DEFINE c     == NameIn(Peek(1), image.contracts)
           ref   == Obj(Len(heap) + 1)
           stack == Append(Dropped(Instr.n + 1), ref)
           u     == Method(c, "simulan")
           d     == Bind(Params(u), Args(Instr.n, 1), ref)
<1>1. /\ Executes({"CALL_FUNCTION"}) /\ Denotes(Peek(1), image.contracts)
      /\ IF "simulan" \in image.methods[c] THEN Enter(stack, NewFrame(u, d, TRUE))
         ELSE Continue(stack)
  BY DEF CallContract
<1>2. c \in image.contracts
  BY <1>1, NameInGives
<1>3. /\ Running /\ Inv /\ Falls(Instr) /\ Pushes(Instr) = 1 /\ Instr.op # "LOAD_GLOBAL"
      /\ Pops(Instr) = Instr.n + 1 /\ Pops(Instr) \in 0 .. Depth
  BY <1>1, KnownCall
<1>4. Depth \in Nat /\ Len(stack) = Depth - Pops(Instr) + 1
  BY <1>1, <1>3, Lengths
<1>5. CASE "simulan" \notin image.methods[c]
  <2>1. Continue(stack)
    BY <1>1, <1>5
  <2>2. stack = IF Pushes(Instr) = 1 THEN Append(Dropped(Pops(Instr)), ref) ELSE Dropped(Pops(Instr))
    BY <1>3
  <2> HIDE DEF stack, ref
  <2> QED
    BY <1>1, <1>3, <2>1, <2>2, DropFits
<1>6. CASE "simulan" \in image.methods[c]
  <2>1. u \in UnitsOf(image)
    BY <1>2, <1>6, Units
  <2>2. Enter(stack, NewFrame(u, d, TRUE))
    BY <1>1, <1>6
  <2>3. Len(stack) \in Nat /\ Len(stack) = Depth - Pops(Instr) + (IF TRUE THEN 1 ELSE 0)
    BY <1>3, <1>4
  <2>4. Pops(Instr) \in Nat
    BY <1>3
  <2> HIDE DEF stack, ref, u, d
  <2> QED
    BY <1>3, <2>1, <2>2, <2>3, <2>4, Enters
<1> QED
  BY <1>5, <1>6

LEMMA CallFunctionFits == ASSUME Safe, CallFunction PROVE Fit(frames')
<1> DEFINE u == Function(NameIn(Peek(1), image.functions))
           s == Dropped(Instr.n + 1)
           d == Bind(Params(u), Args(Instr.n, 1), Undefined)
<1>1. /\ Executes({"CALL_FUNCTION"}) /\ Denotes(Peek(1), image.functions)
      /\ Enter(s, NewFrame(u, d, FALSE))
  BY DEF CallFunction, ExecutesOnFrames
<1>2. u \in UnitsOf(image)
  BY <1>1, NameInGives, Units
<1>3. /\ Running /\ Inv /\ Falls(Instr) /\ Pushes(Instr) = 1 /\ Instr.op # "LOAD_GLOBAL"
      /\ Pops(Instr) = Instr.n + 1 /\ Pops(Instr) \in 0 .. Depth
  BY <1>1, KnownCall
<1>4. Depth \in Nat /\ Len(s) = Depth - Pops(Instr)
  BY <1>1, <1>3, Lengths
<1>5. Len(s) \in Nat /\ Len(s) = Depth - Pops(Instr) + (IF FALSE THEN 1 ELSE 0)
  BY <1>3, <1>4
<1>6. Pops(Instr) \in Nat
  BY <1>3
<1> HIDE DEF s, u, d
<1> QED
  BY <1>1, <1>2, <1>3, <1>5, <1>6, Enters

LEMMA CallNothingFits == ASSUME Safe, CallNothing PROVE Fit(frames')
<1>1. Executes({"CALL_FUNCTION"}) /\ ~ Denotes(Peek(1), image.contracts \cup image.functions)
  BY DEF CallNothing, ExecutesOnFrames
<1> QED
  BY <1>1, KnownCall

LEMMA CallMethodFits == ASSUME Safe, CallMethod PROVE Fit(frames')
<1> DEFINE c == ClassOf(Peek(1))
           u == Method(c, Instr.arg)
           s == Dropped(Instr.n + 1)
           d == Bind(Params(u), Args(Instr.n, 1), Peek(1))
<1>1. Executes({"CALL_METHOD"}) /\ Enter(s, NewFrame(u, d, FALSE))
  BY DEF CallMethod, ExecutesOnFrames
<1>2. Inv /\ Running /\ Instr.op = "CALL_METHOD" /\ Pops(Instr) \in 0 .. Depth /\ Depth \in Nat
  BY <1>1, PopsEnough
<1>3. Falls(Instr) /\ Pushes(Instr) = 1 /\ Pops(Instr) = Instr.n + 1 /\ Instr.op # "LOAD_GLOBAL"
  BY <1>2 DEF Falls, Stops, Pushes, Pops, ArithmeticOps
<1>4. u \in UnitsOf(image)
  <2>1. Fault = "none" /\ GoodValue(Peek(1), Len(heap)) /\ 1 <= Depth
    <3>1. Instr.n \in Nat /\ Instr.n + 1 <= Depth /\ GoodValue(Peek(1), Len(heap))
      BY <1>1, <1>2, CallPops
    <3> QED
      BY <1>1, <1>2, <3>1 DEF Executes
  <2>2. IsObj(Peek(1))
    BY <1>2, <2>1 DEF Fault
  <2>3. MethodFault = "none"
    BY <1>2, <2>1 DEF Fault, ArithmeticOps
  <2>4. Instr.arg \in image.methods[c]
    BY <2>3 DEF MethodFault
  <2>5. c \in image.contracts
    BY <1>2, <2>1, <2>2, ObjectOf
  <2> QED
    BY <2>4, <2>5, Units
<1>5. Len(s) = Depth - Pops(Instr)
  BY <1>1, <1>2, <1>3, Lengths
<1>6. Len(s) \in Nat /\ Len(s) = Depth - Pops(Instr) + (IF FALSE THEN 1 ELSE 0)
  BY <1>2, <1>5
<1>7. Pops(Instr) \in Nat
  BY <1>2
<1> HIDE DEF s, u, d
<1> QED
  BY <1>1, <1>2, <1>3, <1>4, <1>6, <1>7, Enters

LEMMA LoadAttrFits == ASSUME Safe, LoadAttr PROVE Fit(frames')
<1>1. PICK v : Executes({"LOAD_ATTR"}) /\ Continue(Append(Dropped(1), v))
  BY DEF LoadAttr, ExecutesOnFrames
<1>2. Instr.op = "LOAD_ATTR"
  BY <1>1, PopsEnough
<1>3. Falls(Instr) /\ Pops(Instr) = 1 /\ Pushes(Instr) = 1
  BY <1>2 DEF Falls, Stops, Pops, Pushes, ArithmeticOps
<1> QED
  BY <1>1, <1>2, <1>3, DropFits

LEMMA StoreAttrFits == ASSUME Safe, StoreAttr PROVE Fit(frames')
<1>1. Executes({"STORE_ATTR"}) /\ Continue(Dropped(2))
  BY DEF StoreAttr
<1>2. Instr.op = "STORE_ATTR"
  BY <1>1, PopsEnough
<1>3. Falls(Instr) /\ Pops(Instr) = 2 /\ Pushes(Instr) = 0
  BY <1>2 DEF Falls, Stops, Pops, Pushes, ArithmeticOps
<1> QED
  BY <1>1, <1>2, <1>3, DropFits

LEMMA PrintLineFits == ASSUME Safe, PrintLine PROVE Fit(frames')
<1>1. Executes({"PRINT"}) /\ Continue(Dropped(Instr.n))
  BY DEF PrintLine
<1>2. Instr.op = "PRINT"
  BY <1>1, PopsEnough
<1>3. Falls(Instr) /\ Pops(Instr) = Instr.n /\ Pushes(Instr) = 0
  BY <1>2 DEF Falls, Stops, Pops, Pushes, ArithmeticOps
<1> QED
  BY <1>1, <1>2, <1>3, DropFits

LEMMA ReturnFits == ASSUME Safe, Return PROVE Fit(frames')
<1> DEFINE n      == Len(frames)
           rest   == SubSeq(frames, 1, n - 1)
           caller == frames[n - 1]
           paid   == FrameAt(caller, caller.ip, caller.locals, Append(caller.stack, Peek(1)))
           gs     == IF Frame.is_constructor THEN rest ELSE [rest EXCEPT ![n - 1] = paid]
           top    == IF Frame.is_constructor THEN caller ELSE paid
<1>1. Executes({"RETURN_VALUE"}) /\ n > 1 /\ frames' = gs
  BY DEF Return, ExecutesOnFrames
<1>2. Inv /\ Running /\ GoodFrames(frames, image, Len(heap)) /\ frames # <<>> /\ n \in Nat
  BY <1>1, PopsEnough, Running_ DEF Inv, Running
<1>3. Len(rest) = n - 1 /\ \A k \in 1 .. n - 1 : rest[k] = frames[k]
  BY <1>2, RemoveFrame
<1>4. /\ Len(gs) = n - 1 /\ gs[n - 1] = top
      /\ \A k \in 1 .. n - 2 : gs[k] = frames[k]
  <2>1. rest = [k \in 1 .. n - 1 |-> frames[k]]
    BY <1>1, <1>2 DEF GoodFrames
  <2>2. CASE Frame.is_constructor
    BY <1>1, <1>2, <1>3, <2>2
  <2>3. CASE ~ Frame.is_constructor
    <3> DEFINE g == [rest EXCEPT ![n - 1] = paid]
    <3>1. g = [k \in 1 .. n - 1 |-> IF k = n - 1 THEN paid ELSE frames[k]]
      BY <2>1
    <3>2. gs = g /\ top = paid
      BY <2>3
    <3>3. n - 1 \in 1 .. n - 1
      BY <1>1, <1>2
    <3> HIDE DEF paid, gs, top, g, rest
    <3>4. Len(g) = n - 1 /\ g[n - 1] = paid
      BY <1>2, <3>1, <3>3
    <3>5. \A k \in 1 .. n - 2 : g[k] = frames[k]
      BY <1>2, <3>1
    <3> QED
      BY <3>2, <3>4, <3>5
  <2> QED
    BY <2>2, <2>3
<1>5. GoodFrame(caller, image, Len(heap))
  BY <1>1, <1>2 DEF GoodFrames
<1>6. Fits(caller, Awaiting(frames, n - 1)) /\ ~ Calls(caller)
  BY <1>1, <1>2 DEF Safe, Fit
<1>7. Awaiting(frames, n - 1) = IF Frame.is_constructor THEN 0 ELSE 1
  BY <1>1, <1>2 DEF Awaiting, Frame
<1>8. /\ top.unit = caller.unit /\ top.ip = caller.ip
      /\ top.is_constructor = caller.is_constructor
  BY DEF FrameAt
<1>9. caller.stack \in Seq(Value) /\ Len(caller.stack) \in Nat
  BY <1>5 DEF GoodFrame, GoodStack
<1>10. Len(top.stack) = Len(caller.stack) + Awaiting(frames, n - 1)
  <2>1. CASE Frame.is_constructor
    BY <1>7, <1>9, <2>1
  <2>2. CASE ~ Frame.is_constructor
    <3>1. top.stack = Append(caller.stack, Peek(1))
      BY <2>2 DEF FrameAt
    <3> QED
      BY <1>7, <1>9, <2>2, <3>1
  <2> QED
    BY <2>1, <2>2
<1> HIDE DEF top
<1>11. Fits(top, 0) /\ ~ Calls(top)
  <2>1. Len(top.stack) + 0 = Len(caller.stack) + Awaiting(frames, n - 1)
    BY <1>7, <1>9, <1>10
  <2> QED
    BY <1>6, <1>8, <2>1 DEF Fits, Calls
<1> HIDE DEF gs
<1>12. Len(gs) \in 1 .. Len(frames) /\ Len(frames) \in Nat
  BY <1>1, <1>2, <1>4
<1>13. /\ gs[Len(gs)] = top /\ frames[Len(gs)] = caller
       /\ \A k \in 1 .. Len(gs) - 1 : gs[k] = frames[k]
  BY <1>1, <1>2, <1>4
<1>14. Fit(frames)
  BY DEF Safe
<1>15. Fit(gs)
  BY <1>8, <1>11, <1>12, <1>13, <1>14, TopFits
<1> QED
  BY <1>1, <1>15

(* A certified frame is never at the end of its code.                       *)
LEMMA NoEndOfFrame == ASSUME Safe, EndOfFrame PROVE FALSE
<1>1. Running /\ ~ InCode
  BY DEF EndOfFrame
<1>2. Frame.ip \in 0 .. CodeLen(Frame.unit) - 1 /\ CodeLen(Frame.unit) \in Nat
  BY <1>1, RunningFits
<1> QED
  BY <1>1, <1>2 DEF InCode, CodeLen

(* Nor does it store a global.                                              *)
LEMMA NoStoreGlobal == ASSUME Safe, StoreGlobal PROVE FALSE
<1>1. Running /\ Instr.op = "STORE_GLOBAL"
  BY PopsEnough DEF StoreGlobal
<1>2. Instr.op # "STORE_GLOBAL"
  BY <1>1, RunningFits DEF CertifiedAt
<1> QED
  BY <1>1, <1>2

(* The exception a certified frame may raise is another one.                *)
LEMMA RaiseFits == ASSUME Safe, Raise PROVE status' # "underflow" /\ status' # "running"
<1>1. Running /\ Fault # "none" /\ status' = Fault
  BY DEF Raise
<1>2. Pops(Instr) <= Depth
  <2>1. /\ Pops(Instr) <= Height(Frame.unit, Frame.ip)
        /\ Height(Frame.unit, Frame.ip) \in Nat /\ Height(Frame.unit, Frame.ip) <= Depth
        /\ Depth \in Nat
    BY <1>1, RunningFits DEF CertifiedAt, KeepsHeight
  <2>2. Pops(Instr) \in Nat
    BY <1>1, InstrNumbers
  <2> QED
    BY <2>1, <2>2
<1>3. ~ (Depth < Pops(Instr))
  <2>1. Depth \in Nat /\ Pops(Instr) \in Nat
    BY <1>1, RunningFits, InstrNumbers
  <2> QED
    BY <1>2, <2>1
<1>4. /\ \A op, a, b : ArithmeticFault(op, a, b) \notin {"underflow", "running"}
      /\ \A op, a, b : CompareFault(op, a, b) \notin {"underflow", "running"}
      /\ CallFault \notin {"underflow", "running"} /\ MethodFault \notin {"underflow", "running"}
  BY DEF ArithmeticFault, CompareFault, CallFault, MethodFault
<1> QED
  BY <1>1, <1>3, <1>4 DEF Fault

-----------------------------------------------------------------------------
SafeInv == Inv /\ CertificateHolds /\ NoUnderflow

LEMMA SafeInit == Init => SafeInv
<1> SUFFICES ASSUME Init PROVE SafeInv
  OBVIOUS
<1>1. Inv
  BY InitGood
<1>2. NoUnderflow /\ globals = EmptyDict
  BY DEF Init, NoUnderflow
<1>3. ASSUME Certified PROVE Fit(frames)
  <2> DEFINE f == NewFrame(Main, EmptyDict, FALSE)
  <2>1. Main \in UnitsOf(image)
    BY DEF UnitsOf
  <2>2. CodeLen(Main) \in Nat /\ CodeLen(Main) > 0 /\ Height(Main, 0) = 0 /\ CertifiedAt(Main, 0)
    BY <1>1, <1>3, <2>1, CertificateAt
  <2>3. frames = <<f>>
    <3>1. Code(Main) # <<>>
      BY <2>2 DEF CodeLen
    <3> QED
      BY <3>1 DEF Init
  <2>4. f.unit = Main /\ f.ip = 0 /\ f.stack = <<>>
    BY DEF NewFrame
  <2>5. Fits(f, 0) /\ ~ Calls(f)
    <3>1. ~ IsCall(InstrAt(Main, 0))
      BY <2>2 DEF CertifiedAt, KnownCallee
    <3>2. Len(f.stack) = 0
      BY <2>4
    <3> HIDE DEF f
    <3> QED
      BY <2>2, <2>4, <3>1, <3>2 DEF Fits, Calls
  <2> HIDE DEF f
  <2>6. Len(frames) = 1 /\ frames[1] = f
    BY <2>3
  <2>7. Awaiting(frames, 1) = 0
    BY <2>6 DEF Awaiting
  <2> QED
    BY <2>5, <2>6, <2>7 DEF Fit
<1> QED
  BY <1>1, <1>2, <1>3, HoldsNow DEF SafeInv

LEMMA SafeStep == SafeInv /\ [Next]_vars => SafeInv'
<1> SUFFICES ASSUME SafeInv, [Next]_vars PROVE SafeInv'
  OBVIOUS
<1>1. Inv'
  BY StepKeeps DEF SafeInv
<1>2. CASE UNCHANGED vars
  <2>1. CertificateHolds' /\ NoUnderflow'
    <3>1. Certified' = Certified /\ NoUnderflow'
      BY <1>2, CertifiedNext DEF vars, SafeInv, NoUnderflow
    <3>2. CASE status = "running" /\ Certified
      <4>1. globals' = EmptyDict /\ Fit(frames') /\ UNCHANGED image
        BY <1>2, <3>2, HoldsNow DEF vars, SafeInv
      <4> QED
        BY <3>1, <4>1, HoldsNext
    <3>3. CASE ~ (status = "running" /\ Certified)
      BY <1>2, <3>1, <3>3 DEF vars, CertificateHolds
    <3> QED
      BY <3>2, <3>3
  <2> QED
    BY <1>1, <2>1 DEF SafeInv
<1>3. CASE Next
  <2>1. UNCHANGED image /\ status = "running"
    BY <1>3 DEF Next, LoadConst, LoadFast, LoadGlobal, StoreFast, StoreGlobal, BinaryOp, CompareOp,
       JumpIfFalse, Jump, CallContract, CallFunction, CallNothing, CallMethod, LoadAttr, StoreAttr,
       PrintLine, Return, ReturnFromMain, Halt, EndOfFrame, NoFrames, Raise, ExecutesOnFrames,
       Executes, Running
  <2>2. Certified' = Certified
    BY <2>1, CertifiedNext
  <2>3. CASE ~ Certified
    BY <1>1, <2>2, <2>3 DEF SafeInv, CertificateHolds, NoUnderflow
  <2>4. CASE Certified
    <3>1. Safe
      BY <2>1, <2>4, HoldsNow DEF SafeInv, Safe
    <3>2. \/ Fit(frames') /\ UNCHANGED <<globals, status>>
          \/ status' # "running" /\ status' # "underflow"
      <4>1. CASE LoadConst
        <5>1. Executes({"LOAD_CONST"}) /\ Push(Instr.arg) /\ UNCHANGED <<globals, status>>
          BY <4>1 DEF LoadConst, ExecutesOnFrames
        <5> QED
          BY <3>1, <5>1, PushFits
      <4>2. CASE LoadFast
        <5>1. PICK v : Executes({"LOAD_FAST"}) /\ Push(v) /\ UNCHANGED <<globals, status>>
          BY <4>2 DEF LoadFast, ExecutesOnFrames
        <5> QED
          BY <3>1, <5>1, PushFits
      <4>3. CASE LoadGlobal \/ StoreFast \/ BinaryOp \/ CompareOp \/ JumpIfFalse \/ Jump
        BY <3>1, <4>3, LoadGlobalFits, StoreFastFits, BinaryOpFits, CompareOpFits, JumpIfFalseFits,
           JumpFits
           DEF LoadGlobal, StoreFast, BinaryOp, CompareOp, JumpIfFalse, Jump, ExecutesOnFrames
      <4>4. CASE CallContract \/ CallFunction \/ CallNothing \/ CallMethod
        BY <3>1, <4>4, CallContractFits, CallFunctionFits, CallNothingFits, CallMethodFits
           DEF CallContract, CallFunction, CallNothing, CallMethod, ExecutesOnFrames
      <4>5. CASE LoadAttr \/ StoreAttr \/ PrintLine \/ Return
        BY <3>1, <4>5, LoadAttrFits, StoreAttrFits, PrintLineFits, ReturnFits
           DEF LoadAttr, StoreAttr, PrintLine, Return, ExecutesOnFrames
      <4>6. CASE ReturnFromMain \/ Halt \/ NoFrames
        BY <4>6 DEF ReturnFromMain, Halt, NoFrames
      <4>7. CASE StoreGlobal \/ EndOfFrame \/ Raise
        BY <3>1, <4>7, NoStoreGlobal, NoEndOfFrame, RaiseFits
      <4> QED
        BY <1>3, <4>1, <4>2, <4>3, <4>4, <4>5, <4>6, <4>7 DEF Next
    <3>3. CASE Fit(frames') /\ UNCHANGED <<globals, status>>
      <4>1. globals' = EmptyDict /\ status' # "underflow"
        BY <2>1, <3>1, <3>3 DEF Safe
      <4>2. CertificateHolds'
        BY <2>1, <3>3, <4>1, HoldsNext
      <4> QED
        BY <1>1, <4>1, <4>2 DEF SafeInv, NoUnderflow
    <3>4. CASE status' # "running" /\ status' # "underflow"
      BY <1>1, <3>4 DEF SafeInv, CertificateHolds, NoUnderflow
    <3> QED
      BY <3>2, <3>3, <3>4
  <2> QED
    BY <2>3, <2>4
<1> QED
  BY <1>2, <1>3

LEMMA SafeInvariant == Spec => []SafeInv
  BY SafeInit, SafeStep, PTL DEF Spec

(* THEOREM CertificateKept: while a certified image runs, every frame has   *)
(* the values its certificate claims, whatever the image and however deep   *)
(* its calls.                                                               *)
THEOREM CertificateKept == Spec => []CertificateHolds
<1>1. SafeInv => CertificateHolds
  BY DEF SafeInv
<1> QED
  BY <1>1, SafeInvariant, PTL

(* THEOREM NeverUnderflows: BBVM.execute never pops an empty stack while it *)
(* runs a certified image.                                                  *)
THEOREM NeverUnderflows == Spec => []NoUnderflow
<1>1. SafeInv => NoUnderflow
  BY DEF SafeInv
<1> QED
  BY <1>1, SafeInvariant, PTL
=============================================================================
