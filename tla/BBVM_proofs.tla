----------------------------- MODULE BBVM_proofs -----------------------------
(***************************************************************************)
(* The machine keeps its types, for every image (BBVM!ImageAssumption).     *)
(*                                                                          *)
(* TypeOK alone is not inductive: LOAD_ATTR and CALL_METHOD look into the   *)
(* object a reference names, which is in the heap only if the values on     *)
(* stacks, in locals and in fields are.  Inv says this value by value: a    *)
(* good value refers to one of the first n objects.                         *)
(***************************************************************************)
EXTENDS BBVM, BBLValues_proofs, SequenceTheorems

GoodValue(v, n) == v \in Value /\ (IsObj(v) => v[2] \in 1 .. n)
GoodStack(s, n) == s \in Seq(Value) /\ \A i \in 1 .. Len(s) : GoodValue(s[i], n)
GoodDict(d, n)  == d \in [Name -> Binding] /\ \A x \in Name : IsObj(d[x]) => d[x][2] \in 1 .. n

FramesOf(im) == [unit : UnitsOf(im), ip : Nat, locals : [Name -> Binding],
                 stack : Seq(Value), is_constructor : BOOLEAN]

GoodFrame(f, im, n) ==
  /\ f \in FramesOf(im)
  /\ f.ip <= Len(im.code[f.unit])
  /\ GoodStack(f.stack, n)
  /\ GoodDict(f.locals, n)

GoodFrames(fs, im, n) ==
  fs \in Seq(FramesOf(im)) /\ \A k \in 1 .. Len(fs) : GoodFrame(fs[k], im, n)

ObjectsOf(im) == [class_name : im.contracts, fields : [Name -> Binding]]

GoodHeap(h, im, n) == h \in Seq(ObjectsOf(im)) /\ \A j \in 1 .. Len(h) : GoodDict(h[j].fields, n)

StatusOK == {"running", "halted", "returned", "ended"} \cup Exceptions

(* The inductive invariant.                                                 *)
Inv ==
  /\ prog \in DOMAIN Image /\ ImageOK(image)
  /\ GoodFrames(frames, image, Len(heap))
  /\ GoodHeap(heap, image, Len(heap))
  /\ GoodDict(globals, Len(heap))
  /\ output \in Seq(Seq(Value))
  /\ status \in StatusOK
  /\ GoodValue(result, Len(heap))

-----------------------------------------------------------------------------
(* Data.                                                                    *)

LEMMA GoodPlain == ASSUME NEW v, Plain(v), NEW n PROVE GoodValue(v, n)
  BY DEF Plain, GoodValue

LEMMA GoodAppend ==
  ASSUME NEW n, NEW s, GoodStack(s, n), NEW v, GoodValue(v, n)
  PROVE  GoodStack(Append(s, v), n)
  BY DEF GoodStack, GoodValue

LEMMA GoodDrop ==
  ASSUME NEW n, NEW s, GoodStack(s, n), NEW k \in 0 .. Len(s)
  PROVE  /\ GoodStack(SubSeq(s, 1, Len(s) - k), n)
         /\ Len(SubSeq(s, 1, Len(s) - k)) = Len(s) - k
  BY DEF GoodStack

(* A name is bound to a value, or not.                                      *)
LEMMA GoodBinding ==
  ASSUME NEW n, NEW d, GoodDict(d, n), NEW x \in Name, d[x] # Undefined
  PROVE  GoodValue(d[x], n)
  BY DEF GoodDict, GoodValue, Binding

LEMMA GoodUpdate ==
  ASSUME NEW n, NEW d, GoodDict(d, n), NEW x \in Name, NEW v, GoodValue(v, n)
  PROVE  GoodDict([d EXCEPT ![x] = v], n)
  BY DEF GoodDict, GoodValue, Binding

LEMMA EmptyIsGood == ASSUME NEW n PROVE GoodDict(EmptyDict, n)
  BY DEF GoodDict, EmptyDict, Binding, Undefined, IsObj

(* More objects make no value bad.                                          *)
LEMMA GoodGrows ==
  ASSUME NEW im, NEW n \in Nat, NEW m \in Nat, n <= m
  PROVE  /\ \A v : GoodValue(v, n) => GoodValue(v, m)
         /\ \A s : GoodStack(s, n) => GoodStack(s, m)
         /\ \A d : GoodDict(d, n) => GoodDict(d, m)
         /\ \A fs : GoodFrames(fs, im, n) => GoodFrames(fs, im, m)
         /\ \A h : GoodHeap(h, im, n) => GoodHeap(h, im, m)
<1>1. \A v : GoodValue(v, n) => GoodValue(v, m)
  BY DEF GoodValue
<1>2. \A s : GoodStack(s, n) => GoodStack(s, m)
  BY <1>1 DEF GoodStack
<1>3. \A d : GoodDict(d, n) => GoodDict(d, m)
  BY DEF GoodDict
<1>4. \A f : GoodFrame(f, im, n) => GoodFrame(f, im, m)
  BY <1>2, <1>3 DEF GoodFrame
<1>5. \A fs : GoodFrames(fs, im, n) => GoodFrames(fs, im, m)
  BY <1>4 DEF GoodFrames
<1>6. \A h : GoodHeap(h, im, n) => GoodHeap(h, im, m)
  BY <1>3 DEF GoodHeap
<1> QED
  BY <1>1, <1>2, <1>3, <1>5, <1>6

(* The invariant says what the property of the runs says.                   *)
LEMMA InvGives == Inv => TypeOK
BY DEF Inv, TypeOK, GoodFrames, GoodFrame, GoodHeap, GoodDict, GoodValue, FramesOf, FrameRecords,
       ObjectsOf, StatusOK, Code

-----------------------------------------------------------------------------
(* Frames.                                                                  *)

(* The running frame, its instruction and the values it pops.               *)
LEMMA Running_ ==
  ASSUME Inv, Running
  PROVE  /\ Len(frames) \in Nat \ {0}
         /\ GoodFrame(Frame, image, Len(heap))
         /\ Depth \in Nat
         /\ \A k \in 1 .. Depth : GoodValue(Peek(k), Len(heap))
         /\ \A k \in 0 .. Depth : GoodStack(Dropped(k), Len(heap))
<1>1. Len(frames) \in Nat \ {0} /\ Len(frames) \in 1 .. Len(frames)
  BY DEF Inv, GoodFrames, Running
<1>2. GoodFrame(Frame, image, Len(heap))
  BY <1>1 DEF Inv, GoodFrames, Frame
<1>3. GoodStack(Stack, Len(heap)) /\ Depth \in Nat
  BY <1>2 DEF GoodFrame, GoodStack, Stack, Depth
<1>4. ASSUME NEW k \in 1 .. Depth PROVE GoodValue(Peek(k), Len(heap))
  BY <1>3 DEF GoodStack, Peek, Depth
<1>5. ASSUME NEW k \in 0 .. Depth PROVE GoodStack(Dropped(k), Len(heap))
  BY <1>3, GoodDrop DEF Dropped, Depth
<1> QED
  BY <1>1, <1>2, <1>3, <1>4, <1>5

LEMMA Fetched ==
  ASSUME Inv, NEW ops, Executes(ops)
  PROVE  /\ Running
         /\ Instr.op \in ops
         /\ InstrOK(Instr, Len(Code(Frame.unit)))
         /\ Frame.ip \in Nat /\ Frame.ip + 1 <= Len(Code(Frame.unit))
         /\ Len(Code(Frame.unit)) \in Nat
         /\ Pops(Instr) <= Depth
<1>1. Running /\ InCode /\ Instr.op \in ops /\ Fault = "none"
  BY DEF Executes
<1>2. GoodFrame(Frame, image, Len(heap)) /\ Depth \in Nat
  BY <1>1, Running_
<1>3. Frame.unit \in UnitsOf(image) /\ Frame.ip \in Nat
  BY <1>2 DEF GoodFrame, FramesOf
<1>4. Len(Code(Frame.unit)) \in Nat /\ CodeOK(Code(Frame.unit))
  BY <1>3 DEF Inv, ImageOK, Code
<1>5. Frame.ip + 1 \in 1 .. Len(Code(Frame.unit))
  BY <1>1, <1>3, <1>4 DEF InCode
<1>6. InstrOK(Instr, Len(Code(Frame.unit)))
  BY <1>4, <1>5 DEF CodeOK, Instr
<1>7. Pops(Instr) \in Nat
  BY <1>6 DEF Pops, InstrOK
<1>8. ~ (Depth < Pops(Instr))
  BY <1>1 DEF Fault
<1> QED
  BY <1>1, <1>2, <1>3, <1>4, <1>5, <1>6, <1>7, <1>8

(* Replacing the running frame, adding one and removing it.                 *)
LEMMA ReplaceFrame ==
  ASSUME NEW im, NEW n, NEW fs, GoodFrames(fs, im, n), NEW k \in 1 .. Len(fs),
         NEW f, GoodFrame(f, im, n)
  PROVE  GoodFrames([fs EXCEPT ![k] = f], im, n)
  BY DEF GoodFrames, GoodFrame

LEMMA AddFrame ==
  ASSUME NEW im, NEW n, NEW fs, GoodFrames(fs, im, n), NEW f, GoodFrame(f, im, n)
  PROVE  GoodFrames(Append(fs, f), im, n)
  BY DEF GoodFrames, GoodFrame

LEMMA RemoveFrame ==
  ASSUME NEW im, NEW n, NEW fs, GoodFrames(fs, im, n), fs # <<>>
  PROVE  /\ GoodFrames(SubSeq(fs, 1, Len(fs) - 1), im, n)
         /\ Len(SubSeq(fs, 1, Len(fs) - 1)) = Len(fs) - 1
         /\ \A k \in 1 .. Len(fs) - 1 : SubSeq(fs, 1, Len(fs) - 1)[k] = fs[k]
<1> DEFINE rest == SubSeq(fs, 1, Len(fs) - 1)
<1>1. fs \in Seq(FramesOf(im)) /\ Len(fs) \in Nat /\ Len(fs) > 0
  BY DEF GoodFrames
<1>2. /\ rest \in Seq(FramesOf(im))
      /\ Len(rest) = Len(fs) - 1
      /\ \A k \in 1 .. Len(fs) - 1 : rest[k] = fs[k]
  BY <1>1, SMTT(20)
<1>3. \A k \in 1 .. Len(rest) : GoodFrame(rest[k], im, n)
  BY <1>1, <1>2 DEF GoodFrames
<1> QED
  BY <1>2, <1>3 DEF GoodFrames

LEMMA MoveFrame ==
  ASSUME NEW im, NEW n, NEW f, GoodFrame(f, im, n), NEW ip \in Nat, ip <= Len(im.code[f.unit]),
         NEW s, GoodStack(s, n), NEW d, GoodDict(d, n)
  PROVE  GoodFrame(FrameAt(f, ip, d, s), im, n)
  BY DEF GoodFrame, FramesOf, GoodStack, GoodDict, FrameAt

(* The frames after the running one moved, when there are n objects.        *)
LEMMA MovedGood ==
  ASSUME Inv, Running, NEW n \in Nat, Len(heap) <= n,
         NEW ip \in Nat, ip <= Len(Code(Frame.unit)),
         NEW d, GoodDict(d, n), NEW s, GoodStack(s, n)
  PROVE  GoodFrames(Moved(ip, d, s), image, n)
<1>1. Len(heap) \in Nat
  BY DEF Inv, GoodHeap
<1>2. GoodFrames(frames, image, n) /\ Len(frames) \in 1 .. Len(frames)
  <2>1. GoodFrames(frames, image, Len(heap)) /\ Len(frames) \in Nat \ {0}
    BY Running_ DEF Inv
  <2> QED
    BY <1>1, <2>1, GoodGrows
<1>3. GoodFrame(Frame, image, n)
  BY <1>2 DEF GoodFrames, Frame
<1>4. GoodFrame(FrameAt(Frame, ip, d, s), image, n)
  BY <1>3, MoveFrame DEF Code
<1> QED
  BY <1>2, <1>4, ReplaceFrame DEF Moved

LEMMA OwnLocals ==
  ASSUME Inv, Running, NEW n \in Nat, Len(heap) <= n
  PROVE  GoodDict(Frame.locals, n)
<1>1. Len(heap) \in Nat
  BY DEF Inv, GoodHeap
<1>2. GoodDict(Frame.locals, Len(heap))
  BY Running_ DEF GoodFrame
<1> QED
  BY <1>1, <1>2, GoodGrows

LEMMA ContinueGood ==
  ASSUME Inv, NEW ops, Executes(ops), NEW n \in Nat, Len(heap) <= n,
         NEW s, GoodStack(s, n), Continue(s)
  PROVE  GoodFrames(frames', image, n)
<1>1. Running /\ Frame.ip + 1 \in Nat /\ Frame.ip + 1 <= Len(Code(Frame.unit))
  BY Fetched
<1>2. GoodDict(Frame.locals, n)
  BY <1>1, OwnLocals
<1> QED
  BY <1>1, <1>2, MovedGood DEF Continue, Goto

LEMMA EnterGood ==
  ASSUME Inv, NEW ops, Executes(ops), NEW n \in Nat, Len(heap) <= n,
         NEW s, GoodStack(s, n), NEW f, GoodFrame(f, image, n), Enter(s, f)
  PROVE  GoodFrames(frames', image, n)
<1>1. Running /\ Frame.ip + 1 \in Nat /\ Frame.ip + 1 <= Len(Code(Frame.unit))
  BY Fetched
<1>2. GoodDict(Frame.locals, n)
  BY <1>1, OwnLocals
<1>3. GoodFrames(Moved(Frame.ip + 1, Frame.locals, s), image, n)
  BY <1>1, <1>2, MovedGood
<1> QED
  BY <1>3, AddFrame DEF Enter

-----------------------------------------------------------------------------
(* Calls.                                                                   *)

LEMMA NameInGives == ASSUME NEW v, NEW S, Denotes(v, S) PROVE NameIn(v, S) \in S
  BY Zenon DEF Denotes, NameIn

LEMMA BindGood ==
  ASSUME NEW n, NEW params \in Seq(Name), NEW args,
         \A i \in 1 .. Len(params) : GoodValue(args[i], n),
         NEW self, self = Undefined \/ GoodValue(self, n)
  PROVE  GoodDict(Bind(params, args, self), n)
<1> DEFINE b == Bind(params, args, self)
           At(x) == CHOOSE i \in 1 .. Len(params) : params[i] = x
<1>1. ASSUME NEW x \in Name, \E i \in 1 .. Len(params) : params[i] = x
      PROVE  b[x] = args[At(x)] /\ GoodValue(b[x], n)
  <2>1. At(x) \in 1 .. Len(params)
    BY <1>1, Zenon
  <2>2. b[x] = args[At(x)]
    BY <1>1 DEF Bind
  <2> QED
    BY <2>1, <2>2
<1>2. ASSUME NEW x \in Name, ~ \E i \in 1 .. Len(params) : params[i] = x
      PROVE  b[x] = Undefined \/ GoodValue(b[x], n)
  BY <1>2 DEF Bind
<1>3. ASSUME NEW x \in Name PROVE b[x] \in Binding /\ (IsObj(b[x]) => b[x][2] \in 1 .. n)
  <2>1. b[x] = Undefined \/ GoodValue(b[x], n)
    BY <1>1, <1>2
  <2>2. ~ IsObj(Undefined)
    BY DEF IsObj, Undefined
  <2> QED
    BY <2>1, <2>2 DEF GoodValue, Binding
<1>4. b = [x \in Name |-> b[x]]
  BY DEF Bind
<1>5. b \in [Name -> Binding]
  BY <1>3, <1>4
<1> QED
  BY <1>3, <1>5 DEF GoodDict

(* A new frame for a unit of the image is good.                             *)
LEMMA NewFrameGood ==
  ASSUME NEW im, ImageOK(im), NEW n, NEW u \in UnitsOf(im), NEW d, GoodDict(d, n),
         NEW c \in BOOLEAN
  PROVE  GoodFrame(NewFrame(u, d, c), im, n)
<1>1. Len(im.code[u]) \in Nat
  BY DEF ImageOK
<1>2. GoodStack(<<>>, n)
  BY DEF GoodStack
<1> QED
  BY <1>1, <1>2 DEF GoodFrame, FramesOf, NewFrame, GoodDict

(* The locals a call of unit u with n objects binds.                        *)
LEMMA CallLocals ==
  ASSUME Inv, NEW ops, Executes(ops), Instr.op \in {"CALL_FUNCTION", "CALL_METHOD"},
         NEW u \in UnitsOf(image), ~ TooFewArgs(u), NEW n \in Nat, Len(heap) <= n,
         NEW self, self = Undefined \/ GoodValue(self, n)
  PROVE  GoodDict(Bind(Params(u), Args(Instr.n, 1), self), n)
<1>1. Params(u) \in Seq(Name)
  BY DEF Inv, ImageOK, Params
<1>2. /\ Running /\ Depth \in Nat /\ Instr.n \in Nat /\ Instr.n + 1 <= Depth
      /\ Len(heap) \in Nat
  <2>1. Running /\ Instr.n \in Nat /\ Pops(Instr) <= Depth
    BY Fetched DEF InstrOK
  <2>2. Depth \in Nat
    BY <2>1, Running_
  <2>3. Pops(Instr) = Instr.n + 1
    BY DEF Pops, ArithmeticOps
  <2>4. Len(heap) \in Nat
    BY DEF Inv, GoodHeap
  <2> QED
    BY <2>1, <2>2, <2>3, <2>4
<1>3. GoodStack(Stack, Len(heap)) /\ Len(Stack) = Depth
  BY <1>2, Running_ DEF GoodFrame, Stack, Depth
<1>4. Len(Params(u)) <= Instr.n
  BY <1>1, <1>2 DEF TooFewArgs
<1>5. ASSUME NEW i \in 1 .. Len(Params(u)) PROVE GoodValue(Args(Instr.n, 1)[i], n)
  <2>1. i \in 1 .. Instr.n
    BY <1>1, <1>2, <1>4
  <2>2. Depth - 1 - Instr.n + i \in 1 .. Depth
    BY <1>2, <2>1
  <2>3. GoodValue(Stack[Depth - 1 - Instr.n + i], Len(heap))
    BY <1>3, <2>2 DEF GoodStack
  <2>4. Args(Instr.n, 1)[i] = Stack[Depth - 1 - Instr.n + i]
    BY <2>1 DEF Args
  <2> QED
    BY <1>2, <2>3, <2>4 DEF GoodValue
<1> QED
  BY <1>1, <1>5, BindGood

(* What a name that is no local denotes.                                    *)
LEMMA GlobalGood ==
  ASSUME Inv, NEW x \in Name
  PROVE  GoodValue(GlobalValue(x), Len(heap))
<1>1. x \in STRING
  BY NameAssumption
<1>2. GoodValue(Str(x), Len(heap)) /\ GoodValue(None, Len(heap))
  BY <1>1, PlainValues, GoodPlain
<1>3. globals[x] # Undefined => GoodValue(globals[x], Len(heap))
  BY GoodBinding DEF Inv
<1> QED
  BY <1>2, <1>3 DEF GlobalValue

LEMMA FramesOnly ==
  ASSUME Inv, UNCHANGED <<prog, image, heap, globals, output, status, result>>,
         GoodFrames(frames', image, Len(heap))
  PROVE  Inv'
  BY DEF Inv

(* What an instruction works on.                                            *)
LEMMA Operands ==
  ASSUME Inv, NEW ops, Executes(ops)
  PROVE  /\ Running /\ Instr.op \in ops /\ InstrOK(Instr, Len(Code(Frame.unit)))
         /\ Len(heap) \in Nat /\ Depth \in Nat /\ Instr.n \in Nat /\ Pops(Instr) <= Depth
         /\ \A k \in 1 .. Depth : GoodValue(Peek(k), Len(heap))
         /\ \A k \in 0 .. Depth : GoodStack(Dropped(k), Len(heap))
         /\ GoodStack(Stack, Len(heap)) /\ Len(Stack) = Depth
         /\ GoodDict(Frame.locals, Len(heap))
<1>1. Running /\ Instr.op \in ops /\ InstrOK(Instr, Len(Code(Frame.unit))) /\ Pops(Instr) <= Depth
  BY Fetched
<1>2. Len(heap) \in Nat
  BY DEF Inv, GoodHeap
<1>3. /\ GoodFrame(Frame, image, Len(heap)) /\ Depth \in Nat
      /\ \A k \in 1 .. Depth : GoodValue(Peek(k), Len(heap))
      /\ \A k \in 0 .. Depth : GoodStack(Dropped(k), Len(heap))
  BY <1>1, Running_
<1>4. GoodStack(Stack, Len(heap)) /\ Len(Stack) = Depth /\ GoodDict(Frame.locals, Len(heap))
  BY <1>3 DEF GoodFrame, Stack, Depth
<1>5. Instr.n \in Nat
  BY <1>1 DEF InstrOK
<1> QED
  BY <1>1, <1>2, <1>3, <1>4, <1>5

(* An instruction that goes on with a good stack and touches nothing else.  *)
LEMMA ContinueKeeps ==
  ASSUME Inv, NEW ops, ExecutesOnFrames(ops), NEW s, GoodStack(s, Len(heap)), Continue(s)
  PROVE  Inv'
<1>1. Executes(ops) /\ UNCHANGED <<prog, image, heap, globals, output, status, result>>
  BY DEF ExecutesOnFrames
<1>2. Len(heap) \in Nat
  BY <1>1, Operands
<1>3. GoodFrames(frames', image, Len(heap))
  BY <1>1, <1>2, ContinueGood
<1> QED
  BY <1>1, <1>3, FramesOnly

LEMMA PushKeeps ==
  ASSUME Inv, NEW ops, ExecutesOnFrames(ops), NEW v, GoodValue(v, Len(heap)), Push(v)
  PROVE  Inv'
<1>1. Executes(ops)
  BY DEF ExecutesOnFrames
<1>2. GoodStack(Append(Stack, v), Len(heap))
  BY <1>1, Operands, GoodAppend
<1> QED
  BY <1>2, ContinueKeeps DEF Push

-----------------------------------------------------------------------------
(* One lemma per action.                                                    *)

LEMMA LoadConstKeeps == ASSUME Inv, LoadConst PROVE Inv'
<1>1. ExecutesOnFrames({"LOAD_CONST"}) /\ Executes({"LOAD_CONST"}) /\ Push(Instr.arg)
  BY DEF LoadConst, ExecutesOnFrames
<1>2. Instr.op = "LOAD_CONST" /\ InstrOK(Instr, Len(Code(Frame.unit)))
  BY <1>1, Operands
<1>3. GoodValue(Instr.arg, Len(heap))
  BY <1>2 DEF InstrOK, GoodValue
<1> QED
  BY <1>1, <1>3, PushKeeps

LEMMA NamedInstr ==
  ASSUME NEW i, NEW len, InstrOK(i, len), i.op \in NameOps PROVE i.arg \in Name
  BY DEF InstrOK

LEMMA LoadFastKeeps == ASSUME Inv, LoadFast PROVE Inv'
<1> DEFINE v == IF Frame.locals[Instr.arg] # Undefined THEN Frame.locals[Instr.arg]
                ELSE GlobalValue(Instr.arg)
<1>1. ExecutesOnFrames({"LOAD_FAST"}) /\ Executes({"LOAD_FAST"}) /\ Push(v)
  BY DEF LoadFast, ExecutesOnFrames
<1>2. Instr.arg \in Name
  BY <1>1, Operands, NamedInstr DEF NameOps
<1>3. GoodDict(Frame.locals, Len(heap))
  BY <1>1, Operands
<1>4. GoodValue(v, Len(heap))
  BY <1>2, <1>3, GlobalGood, GoodBinding
<1> QED
  BY <1>1, <1>4, PushKeeps

LEMMA LoadGlobalKeeps == ASSUME Inv, LoadGlobal PROVE Inv'
<1>1. /\ ExecutesOnFrames({"LOAD_GLOBAL"}) /\ Executes({"LOAD_GLOBAL"})
      /\ Push(GlobalValue(Instr.arg))
  BY DEF LoadGlobal, ExecutesOnFrames
<1>2. Instr.arg \in Name
  BY <1>1, Operands, NamedInstr DEF NameOps
<1> QED
  BY <1>1, <1>2, GlobalGood, PushKeeps

LEMMA StoreFastKeeps == ASSUME Inv, StoreFast PROVE Inv'
<1> DEFINE d == [Frame.locals EXCEPT ![Instr.arg] = Peek(1)]
<1>1. /\ Executes({"STORE_FAST"}) /\ frames' = Moved(Frame.ip + 1, d, Dropped(1))
      /\ UNCHANGED <<prog, image, heap, globals, output, status, result>>
  BY DEF StoreFast, ExecutesOnFrames
<1>2. Instr.arg \in Name /\ Instr.op = "STORE_FAST"
  BY <1>1, Operands, NamedInstr DEF NameOps
<1>3. 1 <= Depth
  BY <1>1, <1>2, Operands DEF Pops
<1>4. /\ Running /\ Depth \in Nat /\ Len(heap) \in Nat /\ GoodValue(Peek(1), Len(heap))
      /\ GoodStack(Dropped(1), Len(heap)) /\ GoodDict(Frame.locals, Len(heap))
  BY <1>1, <1>3, Operands
<1>5. GoodDict(d, Len(heap))
  BY <1>2, <1>4, GoodUpdate
<1>6. Frame.ip + 1 \in Nat /\ Frame.ip + 1 <= Len(Code(Frame.unit))
  BY <1>1, Fetched
<1>7. GoodFrames(frames', image, Len(heap))
  BY <1>1, <1>4, <1>5, <1>6, MovedGood
<1> QED
  BY <1>1, <1>7, FramesOnly

LEMMA StoreGlobalKeeps == ASSUME Inv, StoreGlobal PROVE Inv'
<1>1. /\ Executes({"STORE_GLOBAL"}) /\ globals' = [globals EXCEPT ![Instr.arg] = Peek(1)]
      /\ Continue(Dropped(1)) /\ UNCHANGED <<prog, image, heap, output, status, result>>
  BY DEF StoreGlobal
<1>2. Instr.arg \in Name /\ Instr.op = "STORE_GLOBAL"
  BY <1>1, Operands, NamedInstr DEF NameOps
<1>3. 1 <= Depth
  BY <1>1, <1>2, Operands DEF Pops
<1>4. /\ Depth \in Nat /\ Len(heap) \in Nat /\ GoodValue(Peek(1), Len(heap))
      /\ GoodStack(Dropped(1), Len(heap))
  BY <1>1, <1>3, Operands
<1>5. GoodDict(globals', Len(heap))
  BY <1>1, <1>2, <1>4, GoodUpdate DEF Inv
<1>6. GoodFrames(frames', image, Len(heap))
  BY <1>1, <1>4, ContinueGood
<1> QED
  BY <1>1, <1>5, <1>6 DEF Inv

LEMMA BinaryOpKeeps == ASSUME Inv, BinaryOp PROVE Inv'
<1> DEFINE v == Arithmetic(Instr.op, Peek(2), Peek(1))
<1>1. /\ ExecutesOnFrames(ArithmeticOps) /\ Executes(ArithmeticOps)
      /\ Continue(Append(Dropped(2), v))
  BY DEF BinaryOp, ExecutesOnFrames
<1>2. Instr.op \in ArithmeticOps
  BY <1>1, Operands
<1>3. 2 <= Depth
  BY <1>1, <1>2, Operands DEF Pops, ArithmeticOps
<1>4. /\ Depth \in Nat /\ GoodValue(Peek(1), Len(heap)) /\ GoodValue(Peek(2), Len(heap))
      /\ GoodStack(Dropped(2), Len(heap))
  BY <1>1, <1>3, Operands
<1>5. ArithmeticFault(Instr.op, Peek(2), Peek(1)) = "none"
  <2>1. Fault = "none"
    BY <1>1 DEF Executes
  <2> QED
    BY <1>2, <2>1 DEF Fault, ArithmeticOps
<1>6. GoodValue(v, Len(heap))
  BY <1>2, <1>4, <1>5, ArithmeticType, GoodPlain DEF GoodValue
<1>7. GoodStack(Append(Dropped(2), v), Len(heap))
  BY <1>4, <1>6, GoodAppend
<1> QED
  BY <1>1, <1>7, ContinueKeeps

LEMMA CompareOpKeeps == ASSUME Inv, CompareOp PROVE Inv'
<1>1. ExecutesOnFrames({"COMPARE_OP"}) /\ Executes({"COMPARE_OP"})
  BY DEF CompareOp, ExecutesOnFrames
<1>2. PICK v \in Compare(Instr.arg, Peek(2), Peek(1)) : Continue(Append(Dropped(2), v))
  BY DEF CompareOp
<1>3. Instr.op = "COMPARE_OP"
  BY <1>1, Operands
<1>4. 2 <= Depth
  BY <1>1, <1>3, Operands DEF Pops, ArithmeticOps
<1>5. GoodStack(Dropped(2), Len(heap))
  BY <1>1, <1>4, Operands
<1>6. GoodValue(v, Len(heap))
  BY CompareType, GoodPlain
<1>7. GoodStack(Append(Dropped(2), v), Len(heap))
  BY <1>5, <1>6, GoodAppend
<1> QED
  BY <1>1, <1>2, <1>7, ContinueKeeps

LEMMA GotoKeeps ==
  ASSUME Inv, NEW ops, ExecutesOnFrames(ops), NEW s, GoodStack(s, Len(heap)),
         NEW ip \in Nat, ip <= Len(Code(Frame.unit)), Goto(ip, s)
  PROVE  Inv'
<1>1. Executes(ops) /\ UNCHANGED <<prog, image, heap, globals, output, status, result>>
  BY DEF ExecutesOnFrames
<1>2. Running /\ Len(heap) \in Nat /\ GoodDict(Frame.locals, Len(heap))
  BY <1>1, Operands
<1>3. GoodFrames(frames', image, Len(heap))
  BY <1>2, MovedGood DEF Goto
<1> QED
  BY <1>1, <1>3, FramesOnly

LEMMA JumpTarget ==
  ASSUME Inv, NEW ops, Executes(ops), Instr.op \in {"JUMP", "JUMP_IF_FALSE"}
  PROVE  Instr.n \in Nat /\ Instr.n <= Len(Code(Frame.unit))
  BY Fetched DEF InstrOK

LEMMA JumpIfFalseKeeps == ASSUME Inv, JumpIfFalse PROVE Inv'
<1> DEFINE ip == IF Truthy(Peek(1)) THEN Frame.ip + 1 ELSE Instr.n
<1>1. ExecutesOnFrames({"JUMP_IF_FALSE"}) /\ Executes({"JUMP_IF_FALSE"}) /\ Goto(ip, Dropped(1))
  BY DEF JumpIfFalse, ExecutesOnFrames
<1>2. Instr.op = "JUMP_IF_FALSE"
  BY <1>1, Operands
<1>3. 1 <= Depth
  BY <1>1, <1>2, Operands DEF Pops
<1>4. GoodStack(Dropped(1), Len(heap))
  BY <1>1, <1>3, Operands
<1>5. ip \in Nat /\ ip <= Len(Code(Frame.unit))
  BY <1>1, <1>2, JumpTarget, Fetched
<1> QED
  BY <1>1, <1>4, <1>5, GotoKeeps

LEMMA JumpKeeps == ASSUME Inv, Jump PROVE Inv'
<1>1. ExecutesOnFrames({"JUMP"}) /\ Executes({"JUMP"}) /\ Goto(Instr.n, Stack)
  BY DEF Jump, ExecutesOnFrames
<1>2. Instr.op = "JUMP" /\ GoodStack(Stack, Len(heap))
  BY <1>1, Operands
<1>3. Instr.n \in Nat /\ Instr.n <= Len(Code(Frame.unit))
  BY <1>1, <1>2, JumpTarget
<1> QED
  BY <1>1, <1>2, <1>3, GotoKeeps

(* The units of functions and methods, and the arguments a call has for     *)
(* them.                                                                    *)
LEMMA Units ==
  ASSUME NEW im
  PROVE  /\ \A f \in im.functions : Function(f) \in UnitsOf(im)
         /\ \A c \in im.contracts : \A m \in im.methods[c] : Method(c, m) \in UnitsOf(im)
  BY DEF UnitsOf

(* A call pops its arguments and its callee or object.                      *)
LEMMA CallPops ==
  ASSUME Inv, NEW ops, Executes(ops), Instr.op \in {"CALL_FUNCTION", "CALL_METHOD"}
  PROVE  /\ Len(heap) \in Nat /\ Instr.n \in Nat /\ Instr.n + 1 <= Depth
         /\ GoodValue(Peek(1), Len(heap))
         /\ GoodStack(Dropped(Instr.n + 1), Len(heap))
<1>1. /\ Len(heap) \in Nat /\ Instr.n \in Nat /\ Depth \in Nat /\ Pops(Instr) <= Depth
      /\ \A k \in 1 .. Depth : GoodValue(Peek(k), Len(heap))
      /\ \A k \in 0 .. Depth : GoodStack(Dropped(k), Len(heap))
  BY Operands
<1>2. Pops(Instr) = Instr.n + 1
  BY DEF Pops, ArithmeticOps
<1>3. 1 \in 1 .. Depth /\ Instr.n + 1 \in 0 .. Depth
  BY <1>1, <1>2
<1> QED
  BY <1>1, <1>2, <1>3

LEMMA CallNothingKeeps == ASSUME Inv, CallNothing PROVE Inv'
<1>1. /\ ExecutesOnFrames({"CALL_FUNCTION"}) /\ Executes({"CALL_FUNCTION"})
      /\ Continue(Dropped(Instr.n + 1))
  BY DEF CallNothing, ExecutesOnFrames
<1>2. Instr.op = "CALL_FUNCTION"
  BY <1>1, Operands
<1>3. GoodStack(Dropped(Instr.n + 1), Len(heap))
  BY <1>1, <1>2, CallPops
<1> QED
  BY <1>1, <1>3, ContinueKeeps

(* An instruction that enters a good frame and touches nothing else.        *)
LEMMA EnterKeeps ==
  ASSUME Inv, NEW ops, ExecutesOnFrames(ops), NEW s, GoodStack(s, Len(heap)),
         NEW f, GoodFrame(f, image, Len(heap)), Enter(s, f)
  PROVE  Inv'
<1>1. Executes(ops) /\ UNCHANGED <<prog, image, heap, globals, output, status, result>>
  BY DEF ExecutesOnFrames
<1>2. Len(heap) \in Nat
  BY <1>1, Operands
<1>3. GoodFrames(frames', image, Len(heap))
  BY <1>1, <1>2, EnterGood
<1> QED
  BY <1>1, <1>3, FramesOnly

LEMMA CallFunctionKeeps == ASSUME Inv, CallFunction PROVE Inv'
<1> DEFINE f == NameIn(Peek(1), image.functions)
           u == Function(f)
           new == NewFrame(u, Bind(Params(u), Args(Instr.n, 1), Undefined), FALSE)
<1>1. /\ ExecutesOnFrames({"CALL_FUNCTION"}) /\ Executes({"CALL_FUNCTION"})
      /\ ~ Denotes(Peek(1), image.contracts) /\ Denotes(Peek(1), image.functions)
      /\ Enter(Dropped(Instr.n + 1), new)
  BY DEF CallFunction, ExecutesOnFrames
<1>2. Instr.op = "CALL_FUNCTION" /\ f \in image.functions
  BY <1>1, Operands, NameInGives
<1>3. u \in UnitsOf(image)
  BY <1>2, Units
<1>4. ~ TooFewArgs(u)
  <2>1. CallFault = "none"
    <3>1. Fault = "none"
      BY <1>1 DEF Executes
    <3> QED
      BY <1>2, <3>1 DEF Fault, ArithmeticOps
  <2> QED
    BY <1>1, <2>1 DEF CallFault
<1>5. Len(heap) \in Nat /\ GoodStack(Dropped(Instr.n + 1), Len(heap))
  BY <1>1, <1>2, CallPops
<1>6. GoodDict(Bind(Params(u), Args(Instr.n, 1), Undefined), Len(heap))
  BY <1>1, <1>2, <1>3, <1>4, <1>5, CallLocals
<1>7. GoodFrame(new, image, Len(heap))
  BY <1>3, <1>6, NewFrameGood DEF Inv
<1> QED
  BY <1>1, <1>5, <1>7, EnterKeeps

(* The object a live reference names.                                       *)
LEMMA ObjectOf ==
  ASSUME Inv, NEW v, GoodValue(v, Len(heap)), IsObj(v)
  PROVE  /\ v[2] \in 1 .. Len(heap)
         /\ ClassOf(v) \in image.contracts
         /\ GoodDict(FieldsOf(v), Len(heap))
<1>1. v[2] \in 1 .. Len(heap) /\ GoodHeap(heap, image, Len(heap))
  BY DEF GoodValue, Inv
<1>2. heap[v[2]] \in ObjectsOf(image) /\ GoodDict(heap[v[2]].fields, Len(heap))
  BY <1>1 DEF GoodHeap
<1> QED
  BY <1>1, <1>2 DEF ObjectsOf, ClassOf, FieldsOf

LEMMA CallMethodKeeps == ASSUME Inv, CallMethod PROVE Inv'
<1> DEFINE c == ClassOf(Peek(1))
           u == Method(c, Instr.arg)
           new == NewFrame(u, Bind(Params(u), Args(Instr.n, 1), Peek(1)), FALSE)
<1>1. /\ ExecutesOnFrames({"CALL_METHOD"}) /\ Executes({"CALL_METHOD"})
      /\ Enter(Dropped(Instr.n + 1), new)
  BY DEF CallMethod, ExecutesOnFrames
<1>2. Instr.op = "CALL_METHOD"
  BY <1>1, Operands
<1>3. /\ Len(heap) \in Nat /\ Instr.n \in Nat /\ Instr.n + 1 <= Depth
      /\ GoodValue(Peek(1), Len(heap)) /\ GoodStack(Dropped(Instr.n + 1), Len(heap))
  BY <1>1, <1>2, CallPops
<1>4. Depth \in Nat /\ Fault = "none"
  BY <1>1, Operands DEF Executes
<1>5. IsObj(Peek(1))
  BY <1>2, <1>3, <1>4 DEF Fault
<1>6. MethodFault = "none"
  BY <1>2, <1>4 DEF Fault, ArithmeticOps
<1>7. Instr.arg \in image.methods[c] /\ ~ TooFewArgs(u)
  BY <1>6 DEF MethodFault
<1>8. c \in image.contracts
  BY <1>3, <1>5, ObjectOf
<1>9. u \in UnitsOf(image)
  BY <1>7, <1>8, Units
<1>10. GoodDict(Bind(Params(u), Args(Instr.n, 1), Peek(1)), Len(heap))
  BY <1>1, <1>2, <1>3, <1>7, <1>9, CallLocals
<1>11. GoodFrame(new, image, Len(heap))
  BY <1>9, <1>10, NewFrameGood DEF Inv
<1> QED
  BY <1>1, <1>3, <1>11, EnterKeeps

LEMMA DefaultsGood ==
  ASSUME Inv, NEW c \in image.contracts, NEW n PROVE GoodDict(FieldDefaults(c), n)
<1>1. \A x \in DOMAIN image.fields[c] :
         image.fields[c][x] \in Value /\ ~ IsObj(image.fields[c][x])
  BY DEF Inv, ImageOK
<1>2. ~ IsObj(Undefined)
  BY DEF IsObj, Undefined
<1> QED
  BY <1>1, <1>2 DEF GoodDict, FieldDefaults, Binding

(* One more object with good fields.                                        *)
LEMMA NewObject ==
  ASSUME NEW im, NEW h, GoodHeap(h, im, Len(h)), NEW c \in im.contracts,
         NEW d, GoodDict(d, Len(h) + 1)
  PROVE  LET h2 == Append(h, [class_name |-> c, fields |-> d])
         IN  Len(h2) = Len(h) + 1 /\ GoodHeap(h2, im, Len(h2))
<1> DEFINE o  == [class_name |-> c, fields |-> d]
           h2 == Append(h, o)
<1>1. Len(h) \in Nat /\ h \in Seq(ObjectsOf(im))
  BY DEF GoodHeap
<1>2. o \in ObjectsOf(im)
  BY DEF ObjectsOf, GoodDict
<1>3. h2 \in Seq(ObjectsOf(im)) /\ Len(h2) = Len(h) + 1
  BY <1>1, <1>2
<1>4. GoodHeap(h, im, Len(h) + 1)
  BY <1>1, GoodGrows
<1>5. ASSUME NEW j \in 1 .. Len(h2) PROVE GoodDict(h2[j].fields, Len(h) + 1)
  BY <1>1, <1>3, <1>4 DEF GoodHeap
<1> QED
  BY <1>3, <1>5 DEF GoodHeap

LEMMA CallContractKeeps == ASSUME Inv, CallContract PROVE Inv'
<1> DEFINE c     == NameIn(Peek(1), image.contracts)
           n     == Len(heap) + 1
           ref   == Obj(n)
           stack == Append(Dropped(Instr.n + 1), ref)
           u     == Method(c, "simulan")
           new   == NewFrame(u, Bind(Params(u), Args(Instr.n, 1), ref), TRUE)
<1>1. /\ Executes({"CALL_FUNCTION"}) /\ Denotes(Peek(1), image.contracts)
      /\ heap' = Append(heap, [class_name |-> c, fields |-> FieldDefaults(c)])
      /\ IF "simulan" \in image.methods[c] THEN Enter(stack, new) ELSE Continue(stack)
      /\ UNCHANGED <<prog, image, globals, output, status, result>>
  BY DEF CallContract
<1>2. Instr.op = "CALL_FUNCTION" /\ c \in image.contracts
  BY <1>1, Operands, NameInGives
<1>3. Len(heap) \in Nat /\ n \in Nat /\ Len(heap) <= n /\ GoodStack(Dropped(Instr.n + 1), Len(heap))
  BY <1>1, <1>2, CallPops
<1>4. Len(heap') = n /\ GoodHeap(heap', image, n)
  BY <1>1, <1>2, DefaultsGood, NewObject DEF Inv
<1>5. /\ GoodDict(globals, n) /\ GoodValue(result, n)
      /\ GoodStack(Dropped(Instr.n + 1), n)
  BY <1>3, GoodGrows DEF Inv
<1>6. GoodValue(ref, n)
  BY <1>3 DEF GoodValue, Obj, Value, Scalar
<1>7. GoodStack(stack, n)
  BY <1>5, <1>6, GoodAppend
<1>8. CASE "simulan" \notin image.methods[c]
  <2>1. GoodFrames(frames', image, n)
    BY <1>1, <1>3, <1>7, <1>8, ContinueGood
  <2> QED
    BY <1>1, <1>4, <1>5, <2>1 DEF Inv
<1>9. CASE "simulan" \in image.methods[c]
  <2>1. u \in UnitsOf(image)
    BY <1>2, <1>9, Units
  <2>2. ~ TooFewArgs(u)
    <3>1. CallFault = "none"
      <4>1. Fault = "none"
        BY <1>1 DEF Executes
      <4> QED
        BY <1>2, <4>1 DEF Fault, ArithmeticOps
    <3> QED
      BY <1>1, <1>9, <3>1 DEF CallFault
  <2>3. GoodDict(Bind(Params(u), Args(Instr.n, 1), ref), n)
    BY <1>1, <1>2, <1>3, <1>6, <2>1, <2>2, CallLocals
  <2>4. GoodFrame(new, image, n)
    BY <2>1, <2>3, NewFrameGood DEF Inv
  <2>5. GoodFrames(frames', image, n)
    BY <1>1, <1>3, <1>7, <1>9, <2>4, EnterGood
  <2> QED
    BY <1>1, <1>4, <1>5, <2>5 DEF Inv
<1> QED
  BY <1>8, <1>9

LEMMA AttrOperand ==
  ASSUME Inv, NEW ops, Executes(ops), Instr.op \in {"LOAD_ATTR", "STORE_ATTR"}
  PROVE  /\ 1 <= Depth /\ Depth \in Nat /\ GoodValue(Peek(1), Len(heap)) /\ IsObj(Peek(1))
         /\ Instr.arg \in Name
<1>1. /\ Depth \in Nat /\ Pops(Instr) <= Depth
      /\ \A k \in 1 .. Depth : GoodValue(Peek(k), Len(heap))
  BY Operands
<1>2. Pops(Instr) >= 1
  BY DEF Pops, ArithmeticOps
<1>3. Fault = "none"
  BY DEF Executes
<1>4. IsObj(Peek(1))
  BY <1>1, <1>3 DEF Fault
<1>5. Instr.arg \in Name
  BY Operands, NamedInstr DEF NameOps
<1>6. 1 <= Depth
  BY <1>1, <1>2 DEF Pops
<1> QED
  BY <1>1, <1>4, <1>5, <1>6

LEMMA LoadAttrKeeps == ASSUME Inv, LoadAttr PROVE Inv'
<1> DEFINE w == FieldsOf(Peek(1))[Instr.arg]
           v == IF w = Undefined THEN None ELSE w
<1>1. /\ ExecutesOnFrames({"LOAD_ATTR"}) /\ Executes({"LOAD_ATTR"})
      /\ Continue(Append(Dropped(1), v))
  BY DEF LoadAttr, ExecutesOnFrames
<1>2. Instr.op = "LOAD_ATTR"
  BY <1>1, Operands
<1>3. /\ 1 <= Depth /\ Depth \in Nat /\ GoodValue(Peek(1), Len(heap)) /\ IsObj(Peek(1))
      /\ Instr.arg \in Name
  BY <1>1, <1>2, AttrOperand
<1>4. GoodDict(FieldsOf(Peek(1)), Len(heap))
  BY <1>3, ObjectOf
<1>5. GoodValue(None, Len(heap))
  BY PlainValues, GoodPlain
<1>6. GoodValue(v, Len(heap))
  BY <1>3, <1>4, <1>5, GoodBinding
<1>7. GoodStack(Append(Dropped(1), v), Len(heap))
  BY <1>1, <1>3, <1>6, Operands, GoodAppend
<1> QED
  BY <1>1, <1>7, ContinueKeeps

LEMMA StoreAttrKeeps == ASSUME Inv, StoreAttr PROVE Inv'
<1> DEFINE ref == Peek(1)
           d   == [FieldsOf(ref) EXCEPT ![Instr.arg] = Peek(2)]
           o   == [class_name |-> ClassOf(ref), fields |-> d]
<1>1. /\ Executes({"STORE_ATTR"}) /\ heap' = [heap EXCEPT ![ref[2]] = o]
      /\ Continue(Dropped(2)) /\ UNCHANGED <<prog, image, globals, output, status, result>>
  BY DEF StoreAttr
<1>2. Instr.op = "STORE_ATTR"
  BY <1>1, Operands
<1>3. IsObj(ref) /\ GoodValue(ref, Len(heap)) /\ Instr.arg \in Name
  BY <1>1, <1>2, AttrOperand
<1>4. 2 <= Depth
  BY <1>1, <1>2, Operands DEF Pops, ArithmeticOps
<1>5. /\ Len(heap) \in Nat /\ Depth \in Nat /\ GoodValue(Peek(2), Len(heap))
      /\ GoodStack(Dropped(2), Len(heap))
  BY <1>1, <1>4, Operands
<1>6. /\ ref[2] \in 1 .. Len(heap) /\ ClassOf(ref) \in image.contracts
      /\ GoodDict(FieldsOf(ref), Len(heap))
  BY <1>3, ObjectOf
<1>7. GoodDict(d, Len(heap))
  BY <1>3, <1>5, <1>6, GoodUpdate
<1>8. o \in ObjectsOf(image)
  BY <1>6, <1>7 DEF ObjectsOf, GoodDict
<1>9. Len(heap') = Len(heap) /\ GoodHeap(heap', image, Len(heap))
  BY <1>1, <1>6, <1>7, <1>8 DEF Inv, GoodHeap
<1>10. GoodFrames(frames', image, Len(heap))
  BY <1>1, <1>5, ContinueGood
<1> QED
  BY <1>1, <1>9, <1>10 DEF Inv

LEMMA PrintLineKeeps == ASSUME Inv, PrintLine PROVE Inv'
<1>1. /\ Executes({"PRINT"}) /\ output' = Append(output, Args(Instr.n, 0))
      /\ Continue(Dropped(Instr.n)) /\ UNCHANGED <<prog, image, heap, globals, status, result>>
  BY DEF PrintLine
<1>2. Instr.op = "PRINT"
  BY <1>1, Operands
<1>3. Pops(Instr) = Instr.n
  BY <1>2 DEF Pops, ArithmeticOps
<1>4. /\ Instr.n \in Nat /\ Depth \in Nat /\ Instr.n <= Depth /\ Len(heap) \in Nat
      /\ GoodStack(Stack, Len(heap)) /\ Len(Stack) = Depth
      /\ GoodStack(Dropped(Instr.n), Len(heap))
  BY <1>1, <1>3, Operands
<1>5. Args(Instr.n, 0) \in Seq(Value)
  <2>1. ASSUME NEW i \in 1 .. Instr.n PROVE Stack[Depth - 0 - Instr.n + i] \in Value
    BY <1>4 DEF GoodStack
  <2> QED
    BY <1>4, <2>1 DEF Args
<1>6. output' \in Seq(Seq(Value))
  BY <1>1, <1>5 DEF Inv
<1>7. GoodFrames(frames', image, Len(heap))
  BY <1>1, <1>4, ContinueGood
<1> QED
  BY <1>1, <1>6, <1>7 DEF Inv

LEMMA ReturnKeeps == ASSUME Inv, Return PROVE Inv'
<1> DEFINE n      == Len(frames)
           rest   == SubSeq(frames, 1, n - 1)
           caller == frames[n - 1]
           paid   == FrameAt(caller, caller.ip, caller.locals, Append(caller.stack, Peek(1)))
<1>1. /\ Executes({"RETURN_VALUE"}) /\ n > 1
      /\ UNCHANGED <<prog, image, heap, globals, output, status, result>>
      /\ frames' = IF Frame.is_constructor THEN rest ELSE [rest EXCEPT ![n - 1] = paid]
  BY DEF Return, ExecutesOnFrames
<1>2. Instr.op = "RETURN_VALUE"
  BY <1>1, Operands
<1>3. 1 <= Depth
  BY <1>1, <1>2, Operands DEF Pops
<1>4. GoodValue(Peek(1), Len(heap)) /\ Running /\ Len(heap) \in Nat /\ Depth \in Nat
  BY <1>1, <1>3, Operands
<1>5. n \in Nat /\ frames # <<>> /\ GoodFrames(frames, image, Len(heap))
  BY <1>4, Running_ DEF Running, Inv
<1>6. GoodFrames(rest, image, Len(heap)) /\ Len(rest) = n - 1
  BY <1>5, RemoveFrame
<1>7. GoodFrame(caller, image, Len(heap))
  BY <1>1, <1>5 DEF GoodFrames
<1>8. GoodStack(Append(caller.stack, Peek(1)), Len(heap))
  BY <1>4, <1>7, GoodAppend DEF GoodFrame
<1>9. GoodFrame(paid, image, Len(heap))
  <2>1. caller.ip \in Nat /\ caller.ip <= Len(image.code[caller.unit])
    BY <1>7 DEF GoodFrame, FramesOf
  <2>2. GoodDict(caller.locals, Len(heap))
    BY <1>7 DEF GoodFrame
  <2> QED
    BY <1>7, <1>8, <2>1, <2>2, MoveFrame
<1>10. GoodFrames([rest EXCEPT ![n - 1] = paid], image, Len(heap))
  <2>1. n - 1 \in 1 .. Len(rest)
    BY <1>1, <1>5, <1>6
  <2> QED
    BY <1>6, <1>9, <2>1, ReplaceFrame
<1>11. GoodFrames(frames', image, Len(heap))
  BY <1>1, <1>6, <1>10
<1> QED
  BY <1>1, <1>11, FramesOnly

LEMMA ReturnFromMainKeeps == ASSUME Inv, ReturnFromMain PROVE Inv'
<1>1. /\ Executes({"RETURN_VALUE"}) /\ frames' = <<>> /\ status' = "returned"
      /\ result' = Peek(1) /\ UNCHANGED <<prog, image, heap, globals, output>>
  BY DEF ReturnFromMain
<1>2. Instr.op = "RETURN_VALUE"
  BY <1>1, Operands
<1>3. 1 <= Depth
  BY <1>1, <1>2, Operands DEF Pops
<1>4. GoodValue(Peek(1), Len(heap))
  BY <1>1, <1>3, Operands
<1>5. GoodFrames(<<>>, image, Len(heap))
  BY DEF GoodFrames
<1> QED
  BY <1>1, <1>4, <1>5 DEF Inv, StatusOK

LEMMA HaltKeeps == ASSUME Inv, Halt PROVE Inv'
<1>1. /\ Executes({"HALT"}) /\ Continue(Stack) /\ status' = "halted"
      /\ UNCHANGED <<prog, image, heap, globals, output, result>>
  BY DEF Halt
<1>2. GoodStack(Stack, Len(heap)) /\ Len(heap) \in Nat
  BY <1>1, Operands
<1>3. GoodFrames(frames', image, Len(heap))
  BY <1>1, <1>2, ContinueGood
<1> QED
  BY <1>1, <1>3 DEF Inv, StatusOK

LEMMA EndOfFrameKeeps == ASSUME Inv, EndOfFrame PROVE Inv'
<1>1. /\ frames # <<>> /\ frames' = SubSeq(frames, 1, Len(frames) - 1)
      /\ UNCHANGED <<prog, image, heap, globals, output, status, result>>
  BY DEF EndOfFrame, Running
<1>2. GoodFrames(frames', image, Len(heap))
  BY <1>1, RemoveFrame DEF Inv
<1> QED
  BY <1>1, <1>2, FramesOnly

LEMMA NoFramesKeeps == ASSUME Inv, NoFrames PROVE Inv'
  BY DEF NoFrames, Inv, StatusOK

LEMMA RaiseKeeps == ASSUME Inv, Raise PROVE Inv'
<1>1. /\ Running /\ InCode /\ Fault # "none" /\ status' = Fault
      /\ UNCHANGED <<prog, image, frames, heap, globals, output, result>>
  BY DEF Raise
<1>2. Fault \in Exceptions
  <2>1. \A op, a, b : ArithmeticFault(op, a, b) \in Exceptions \cup {"none"}
    BY DEF ArithmeticFault, Exceptions
  <2>2. \A op, a, b : CompareFault(op, a, b) \in Exceptions \cup {"none"}
    BY DEF CompareFault, Exceptions
  <2>3. CallFault \in Exceptions \cup {"none"}
    BY DEF CallFault, Exceptions
  <2>4. MethodFault \in Exceptions \cup {"none"}
    BY DEF MethodFault, Exceptions
  <2> QED
    BY <1>1, <2>1, <2>2, <2>3, <2>4 DEF Fault, Exceptions
<1> QED
  BY <1>1, <1>2 DEF Inv, StatusOK

-----------------------------------------------------------------------------
LEMMA InitGood == Init => Inv
<1> SUFFICES ASSUME Init PROVE Inv
  OBVIOUS
<1>1. prog \in DOMAIN Image /\ ImageOK(image)
  BY ImageAssumption DEF Init
<1>2. GoodDict(EmptyDict, 0)
  BY EmptyIsGood
<1>3. GoodFrame(NewFrame(Main, EmptyDict, FALSE), image, 0)
  <2>1. Main \in UnitsOf(image)
    BY DEF UnitsOf
  <2> QED
    BY <1>1, <1>2, <2>1, NewFrameGood
<1>4. GoodFrames(<<>>, image, 0)
  BY DEF GoodFrames
<1>5. ASSUME NEW f, GoodFrame(f, image, 0) PROVE GoodFrames(<<f>>, image, 0)
  <2>1. f \in FramesOf(image)
    BY <1>5 DEF GoodFrame
  <2>2. <<f>> \in Seq(FramesOf(image)) /\ Len(<<f>>) = 1 /\ <<f>>[1] = f
    BY <2>1
  <2> QED
    BY <1>5, <2>2 DEF GoodFrames
<1>6. Len(heap) = 0 /\ GoodHeap(heap, image, 0)
  BY DEF Init, GoodHeap
<1>7. GoodValue(None, 0)
  BY PlainValues, GoodPlain
<1>8. GoodFrames(frames, image, Len(heap))
  <2>1. frames = <<>> \/ frames = <<NewFrame(Main, EmptyDict, FALSE)>>
    BY DEF Init
  <2> QED
    BY <1>3, <1>4, <1>5, <1>6, <2>1
<1>9. /\ globals = EmptyDict /\ output = <<>> /\ status = "running" /\ result = None
      /\ output \in Seq(Seq(Value))
  BY DEF Init
<1> QED
  BY <1>1, <1>2, <1>6, <1>7, <1>8, <1>9 DEF Inv, StatusOK

LEMMA StepKeeps == Inv /\ [Next]_vars => Inv'
<1> SUFFICES ASSUME Inv, [Next]_vars PROVE Inv'
  OBVIOUS
<1>1. CASE UNCHANGED vars
  BY <1>1 DEF vars, Inv
<1>2. CASE Next
  BY <1>2, LoadConstKeeps, LoadFastKeeps, LoadGlobalKeeps, StoreFastKeeps, StoreGlobalKeeps,
     BinaryOpKeeps, CompareOpKeeps, JumpIfFalseKeeps, JumpKeeps, CallContractKeeps,
     CallFunctionKeeps, CallNothingKeeps, CallMethodKeeps, LoadAttrKeeps, StoreAttrKeeps,
     PrintLineKeeps, ReturnKeeps, ReturnFromMainKeeps, HaltKeeps, EndOfFrameKeeps,
     NoFramesKeeps, RaiseKeeps DEF Next
<1> QED
  BY <1>1, <1>2

LEMMA Invariant == Spec => []Inv
  BY InitGood, StepKeeps, PTL DEF Spec

(* THEOREM TypeCorrect: BBVM.execute keeps the types of its frames, objects *)
(* and globals, and its instruction pointers within the code, whatever      *)
(* image it runs.                                                           *)
THEOREM TypeCorrect == Spec => []TypeOK
<1>1. Inv => TypeOK
  BY InvGives
<1> QED
  BY <1>1, Invariant, PTL
=============================================================================
