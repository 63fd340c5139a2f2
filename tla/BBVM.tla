-------------------------------- MODULE BBVM --------------------------------
(***************************************************************************)
(* The Baybayin virtual machine: BBVM.execute of runtime/vm/bbvm.py.  The   *)
(* machine runs one bytecode image; an image is what BBLVMCompiler.compile  *)
(* returns, or what `bbl run --vm` reads back from a .bbv file.  One action *)
(* is one turn of the interpreter loop.                                     *)
(***************************************************************************)
EXTENDS BBLValues, FiniteSets

CONSTANTS
  Name,      \* the identifiers that occur in the images
  Image      \* the images, a function from program names

VARIABLES
  prog,      \* the program being run
  image,     \* its bytecode: self.functions, self.contracts and main_code
  frames,    \* self.frames, the running frame last
  heap,      \* the BBLObjects, in the order they were created
  globals,   \* self.globals
  output,    \* self.output_buffer: the values of each printed line
  status,    \* running, the way execute returned, or the exception it raised
  result     \* last_val

vars == <<prog, image, frames, heap, globals, output, status, result>>

-----------------------------------------------------------------------------
(* Images.  A unit is a piece of code with its own frame: the main program, *)
(* a function or a contract's method.                                       *)

Main == <<"main", "", "">>
Function(f)  == <<"function", "", f>>
Method(c, m) == <<"method", c, m>>

UnitsOf(im) == {Main} \cup {Function(f) : f \in im.functions}
                 \cup UNION {{Method(c, m) : m \in im.methods[c]} : c \in im.contracts}

Code(u)   == image.code[u]
Params(u) == image.params[u]

NameOps == {"STORE_FAST", "LOAD_FAST", "STORE_GLOBAL", "LOAD_GLOBAL",
            "LOAD_ATTR", "STORE_ATTR", "CALL_METHOD"}
OpCode  == NameOps \cup ArithmeticOps \cup
           {"LOAD_CONST", "COMPARE_OP", "JUMP_IF_FALSE", "JUMP", "CALL_FUNCTION",
            "RETURN_VALUE", "PRINT", "HALT"}

(* An instruction: the opcode, a name, value or operator, and a count or    *)
(* jump target.                                                             *)
InstrOK(i, len) ==
  /\ i.op \in OpCode
  /\ i.op \in NameOps => i.arg \in Name
  /\ i.op = "LOAD_CONST" => i.arg \in Value /\ ~ IsObj(i.arg)
  /\ i.op = "COMPARE_OP" => i.arg \in {"<", ">", "<=", ">=", "==", "!="}
  /\ i.n \in Nat
  /\ i.op \in {"JUMP", "JUMP_IF_FALSE"} => i.n <= len

CodeOK(code) == \A k \in 1 .. Len(code) : InstrOK(code[k], Len(code))

(* A compiled image, whose parameters SemanticAnalyzer.declare keeps apart.  *)
ImageOK(im) ==
  /\ im.functions \subseteq Name
  /\ im.contracts \subseteq Name
  /\ \A c \in im.contracts :
       /\ im.methods[c] \subseteq Name
       /\ \A x \in DOMAIN im.fields[c] : im.fields[c][x] \in Value /\ ~ IsObj(im.fields[c][x])
  /\ \A u \in UnitsOf(im) :
       /\ Len(im.code[u]) \in Nat /\ CodeOK(im.code[u])
       /\ im.params[u] \in Seq(Name)
       /\ \A i, j \in 1 .. Len(im.params[u]) : im.params[u][i] = im.params[u][j] => i = j

ASSUME NameAssumption  == Name \subseteq STRING /\ "self" \in Name
ASSUME ImageAssumption == \A p \in DOMAIN Image : ImageOK(Image[p])

-----------------------------------------------------------------------------
(* The running frame.                                                       *)

NewFrame(u, locals, ctor) ==
  [unit |-> u, ip |-> 0, locals |-> locals, stack |-> <<>>, is_constructor |-> ctor]

(* A dict from names to values; Undefined marks a name that is no key.      *)
Undefined == <<"undefined", 0>>
Binding   == Value \cup {Undefined}
EmptyDict == [x \in Name |-> Undefined]

Frame == frames[Len(frames)]
Stack == Frame.stack
Depth == Len(Stack)
Instr == Code(Frame.unit)[Frame.ip + 1]

(* The k-th value from the top of the stack, and the stack without its k    *)
(* uppermost values.                                                        *)
Peek(k)    == Stack[Depth - k + 1]
Dropped(k) == SubSeq(Stack, 1, Depth - k)

(* The arguments of a call whose n arguments lie below k other values.      *)
Args(n, k) == [i \in 1 .. n |-> Stack[Depth - k - n + i]]

InCode    == Frame.ip < Len(Code(Frame.unit))
Running   == status = "running" /\ frames # <<>>

(* locals_dict: self, which a function does not have, then the parameters.  *)
Bind(params, args, self) ==
  [x \in Name |->
     IF \E i \in 1 .. Len(params) : params[i] = x
     THEN args[CHOOSE i \in 1 .. Len(params) : params[i] = x]
     ELSE IF x = "self" THEN self ELSE Undefined]

(* What a name that is no local denotes: a global, or the name itself when  *)
(* it is a function or a contract, else None.                               *)
GlobalValue(x) ==
  IF globals[x] # Undefined THEN globals[x]
  ELSE IF x \in image.functions \cup image.contracts THEN Str(x)
  ELSE None

(* `callee in self.contracts`, `callee in self.functions`.                  *)
Denotes(v, names) == \E x \in names : v = Str(x)
NameIn(v, names)  == CHOOSE x \in names : v = Str(x)

(* dict(c_meta["fields"])                                                   *)
FieldDefaults(c) ==
  LET fields == image.fields[c]
  IN [x \in Name |-> IF x \in DOMAIN fields THEN fields[x] ELSE Undefined]

ClassOf(ref)  == heap[ref[2]].class_name
FieldsOf(ref) == heap[ref[2]].fields

-----------------------------------------------------------------------------
(* Exceptions.  Pops is the number of values the instruction pops before it *)
(* looks at one of them.                                                    *)

Pops(i) ==
  IF i.op \in {"STORE_FAST", "STORE_GLOBAL", "JUMP_IF_FALSE", "LOAD_ATTR", "RETURN_VALUE"} THEN 1
  ELSE IF i.op \in ArithmeticOps \cup {"COMPARE_OP", "STORE_ATTR"} THEN 2
  ELSE IF i.op \in {"CALL_FUNCTION", "CALL_METHOD"} THEN i.n + 1
  ELSE IF i.op = "PRINT" THEN i.n
  ELSE 0

(* locals_dict[param] = args[i] for every parameter.                        *)
TooFewArgs(u) == Instr.n < Len(Params(u))

CallFault ==
  LET callee == Peek(1) IN
  IF \/ /\ Denotes(callee, image.contracts)
        /\ "simulan" \in image.methods[NameIn(callee, image.contracts)]
        /\ TooFewArgs(Method(NameIn(callee, image.contracts), "simulan"))
     \/ /\ ~ Denotes(callee, image.contracts)
        /\ Denotes(callee, image.functions)
        /\ TooFewArgs(Function(NameIn(callee, image.functions)))
  THEN "missing_argument" ELSE "none"

MethodFault ==
  IF Instr.arg \notin image.methods[ClassOf(Peek(1))] THEN "no_method"
  ELSE IF TooFewArgs(Method(ClassOf(Peek(1)), Instr.arg)) THEN "missing_argument"
  ELSE "none"

(* The exception the next instruction raises, "none" when it completes.     *)
Fault ==
  IF Instr.op = "CALL_METHOD" /\ Depth > 0 /\ ~ IsObj(Peek(1)) THEN "not_object"
  ELSE IF Depth < Pops(Instr) THEN "underflow"
  ELSE IF Instr.op \in {"LOAD_ATTR", "STORE_ATTR"} /\ ~ IsObj(Peek(1)) THEN "not_object"
  ELSE IF Instr.op \in ArithmeticOps THEN ArithmeticFault(Instr.op, Peek(2), Peek(1))
  ELSE IF Instr.op = "COMPARE_OP" THEN CompareFault(Instr.arg, Peek(2), Peek(1))
  ELSE IF Instr.op = "CALL_FUNCTION" THEN CallFault
  ELSE IF Instr.op = "CALL_METHOD" THEN MethodFault
  ELSE "none"

-----------------------------------------------------------------------------
(* The turns of the loop.                                                   *)

Executes(ops) == Running /\ InCode /\ Instr.op \in ops /\ Fault = "none"

(* The instruction touches nothing but the frames.                          *)
ExecutesOnFrames(ops) ==
  Executes(ops) /\ UNCHANGED <<prog, image, heap, globals, output, status, result>>

(* The frame f with another ip, locals and stack.                           *)
FrameAt(f, ip, locals, stack) ==
  [unit |-> f.unit, ip |-> ip, locals |-> locals, stack |-> stack,
   is_constructor |-> f.is_constructor]

(* The running frame goes on at ip with the given stack.                    *)
Moved(ip, locals, stack) == [frames EXCEPT ![Len(frames)] = FrameAt(Frame, ip, locals, stack)]

Goto(ip, stack) == frames' = Moved(ip, Frame.locals, stack)
Continue(stack) == Goto(Frame.ip + 1, stack)
Push(v)         == Continue(Append(Stack, v))

(* The running frame goes on after the call when the new frame is done.     *)
Enter(stack, new) == frames' = Append(Moved(Frame.ip + 1, Frame.locals, stack), new)

LoadConst == ExecutesOnFrames({"LOAD_CONST"}) /\ Push(Instr.arg)

(* Mutant: a name that is no local is not looked for elsewhere.             *)
LoadFastLocal ==
  /\ ExecutesOnFrames({"LOAD_FAST"})
  /\ Push(Frame.locals[Instr.arg])

LoadFast ==
  /\ ExecutesOnFrames({"LOAD_FAST"})
  /\ Push(IF Frame.locals[Instr.arg] # Undefined THEN Frame.locals[Instr.arg]
          ELSE GlobalValue(Instr.arg))

LoadGlobal == ExecutesOnFrames({"LOAD_GLOBAL"}) /\ Push(GlobalValue(Instr.arg))

StoreFast ==
  /\ ExecutesOnFrames({"STORE_FAST"})
  /\ frames' = Moved(Frame.ip + 1, [Frame.locals EXCEPT ![Instr.arg] = Peek(1)], Dropped(1))

StoreGlobal ==
  /\ Executes({"STORE_GLOBAL"})
  /\ globals' = [globals EXCEPT ![Instr.arg] = Peek(1)]
  /\ Continue(Dropped(1))
  /\ UNCHANGED <<prog, image, heap, output, status, result>>

BinaryOp ==
  /\ ExecutesOnFrames(ArithmeticOps)
  /\ Continue(Append(Dropped(2), Arithmetic(Instr.op, Peek(2), Peek(1))))

CompareOp ==
  /\ ExecutesOnFrames({"COMPARE_OP"})
  /\ \E v \in Compare(Instr.arg, Peek(2), Peek(1)) : Continue(Append(Dropped(2), v))

JumpIfFalse ==
  /\ ExecutesOnFrames({"JUMP_IF_FALSE"})
  /\ Goto(IF Truthy(Peek(1)) THEN Frame.ip + 1 ELSE Instr.n, Dropped(1))

Jump == ExecutesOnFrames({"JUMP"}) /\ Goto(Instr.n, Stack)

(* The new object is the value of the call: it is on the stack before the   *)
(* constructor `simulan` runs.                                              *)
CallContract ==
  /\ Executes({"CALL_FUNCTION"})
  /\ Denotes(Peek(1), image.contracts)
  /\ LET c     == NameIn(Peek(1), image.contracts)
         ref   == Obj(Len(heap) + 1)
         stack == Append(Dropped(Instr.n + 1), ref)
         u     == Method(c, "simulan")
     IN /\ heap' = Append(heap, [class_name |-> c, fields |-> FieldDefaults(c)])
        /\ IF "simulan" \in image.methods[c]
           THEN Enter(stack, NewFrame(u, Bind(Params(u), Args(Instr.n, 1), ref), TRUE))
           ELSE Continue(stack)
  /\ UNCHANGED <<prog, image, globals, output, status, result>>

(* Mutant: a call drops one value too many.                                 *)
CallFunctionGreedy ==
  /\ ExecutesOnFrames({"CALL_FUNCTION"})
  /\ ~ Denotes(Peek(1), image.contracts)
  /\ Denotes(Peek(1), image.functions)
  /\ LET u == Function(NameIn(Peek(1), image.functions)) IN
     Enter(Dropped(Instr.n + 2),
           NewFrame(u, Bind(Params(u), Args(Instr.n, 1), Undefined), FALSE))

CallFunction ==
  /\ ExecutesOnFrames({"CALL_FUNCTION"})
  /\ ~ Denotes(Peek(1), image.contracts)
  /\ Denotes(Peek(1), image.functions)
  /\ LET u == Function(NameIn(Peek(1), image.functions)) IN
     Enter(Dropped(Instr.n + 1),
           NewFrame(u, Bind(Params(u), Args(Instr.n, 1), Undefined), FALSE))

(* A callee that is neither: the call is dropped with its arguments.        *)
CallNothing ==
  /\ ExecutesOnFrames({"CALL_FUNCTION"})
  /\ ~ Denotes(Peek(1), image.contracts \cup image.functions)
  /\ Continue(Dropped(Instr.n + 1))

CallMethod ==
  /\ ExecutesOnFrames({"CALL_METHOD"})
  /\ LET u == Method(ClassOf(Peek(1)), Instr.arg) IN
     Enter(Dropped(Instr.n + 1),
           NewFrame(u, Bind(Params(u), Args(Instr.n, 1), Peek(1)), FALSE))

LoadAttr ==
  /\ ExecutesOnFrames({"LOAD_ATTR"})
  /\ LET v == FieldsOf(Peek(1))[Instr.arg] IN
     Continue(Append(Dropped(1), IF v = Undefined THEN None ELSE v))

StoreAttr ==
  /\ Executes({"STORE_ATTR"})
  /\ LET ref == Peek(1) IN
     heap' = [heap EXCEPT ![ref[2]] =
                [class_name |-> ClassOf(ref),
                 fields     |-> [FieldsOf(ref) EXCEPT ![Instr.arg] = Peek(2)]]]
  /\ Continue(Dropped(2))
  /\ UNCHANGED <<prog, image, globals, output, status, result>>

PrintLine ==
  /\ Executes({"PRINT"})
  /\ output' = Append(output, Args(Instr.n, 0))
  /\ Continue(Dropped(Instr.n))
  /\ UNCHANGED <<prog, image, heap, globals, status, result>>

(* Mutant: no value is pushed.                                              *)
ReturnNothing ==
  /\ ExecutesOnFrames({"RETURN_VALUE"})
  /\ Len(frames) > 1
  /\ frames' = SubSeq(frames, 1, Len(frames) - 1)

(* The caller gets the value, unless the frame was a constructor's.         *)
Return ==
  /\ ExecutesOnFrames({"RETURN_VALUE"})
  /\ Len(frames) > 1
  /\ LET rest   == SubSeq(frames, 1, Len(frames) - 1)
         caller == frames[Len(frames) - 1]
     IN frames' = IF Frame.is_constructor THEN rest
                  ELSE [rest EXCEPT ![Len(frames) - 1] =
                          FrameAt(caller, caller.ip, caller.locals, Append(caller.stack, Peek(1)))]

ReturnFromMain ==
  /\ Executes({"RETURN_VALUE"})
  /\ Len(frames) = 1
  /\ frames' = <<>>
  /\ status' = "returned"
  /\ result' = Peek(1)
  /\ UNCHANGED <<prog, image, heap, globals, output>>

Halt ==
  /\ Executes({"HALT"})
  /\ Continue(Stack)
  /\ status' = "halted"
  /\ UNCHANGED <<prog, image, heap, globals, output, result>>

(* A frame whose code is used up is popped, and its caller gets no value.   *)
EndOfFrame ==
  /\ Running
  /\ ~ InCode
  /\ frames' = SubSeq(frames, 1, Len(frames) - 1)
  /\ UNCHANGED <<prog, image, heap, globals, output, status, result>>

(* `while self.frames` ends.                                                *)
NoFrames ==
  /\ status = "running"
  /\ frames = <<>>
  /\ status' = "ended"
  /\ UNCHANGED <<prog, image, frames, heap, globals, output, result>>

(* An exception leaves execute.  What the instruction popped or created     *)
(* before it failed is not modelled: nothing reads the machine after that.  *)
Raise ==
  /\ Running
  /\ InCode
  /\ Fault # "none"
  /\ status' = Fault
  /\ UNCHANGED <<prog, image, frames, heap, globals, output, result>>

(* With no main_code, execute returns at once.                              *)
Init ==
  /\ prog \in DOMAIN Image
  /\ image = Image[prog]
  /\ frames = IF Code(Main) = <<>> THEN <<>> ELSE <<NewFrame(Main, EmptyDict, FALSE)>>
  /\ heap = <<>>
  /\ globals = EmptyDict
  /\ output = <<>>
  /\ status = "running"
  /\ result = None

Next == \/ LoadConst \/ LoadFast \/ LoadGlobal \/ StoreFast \/ StoreGlobal
        \/ BinaryOp \/ CompareOp \/ JumpIfFalse \/ Jump
        \/ CallContract \/ CallFunction \/ CallNothing \/ CallMethod
        \/ LoadAttr \/ StoreAttr \/ PrintLine
        \/ Return \/ ReturnFromMain \/ Halt \/ EndOfFrame \/ NoFrames \/ Raise

(* The loop runs until it returns or raises: it is never paused.            *)
Spec == Init /\ [][Next]_vars /\ WF_vars(Next)

-----------------------------------------------------------------------------
Exceptions == {"underflow", "type_error", "zero_division", "not_object", "no_method",
               "missing_argument"}

FrameRecords == [unit : UnitsOf(image), ip : Nat, locals : [Name -> Binding],
                 stack : Seq(Value), is_constructor : BOOLEAN]

(* PROPERTY TypeOK: the frames, objects and globals of BBVM keep their      *)
(* types, and no instruction pointer is beyond the end of its code.         *)
TypeOK ==
  /\ prog \in DOMAIN Image /\ ImageOK(image)
  /\ frames \in Seq(FrameRecords)
  /\ \A k \in 1 .. Len(frames) : frames[k].ip <= Len(Code(frames[k].unit))
  /\ heap \in Seq([class_name : image.contracts, fields : [Name -> Binding]])
  /\ globals \in [Name -> Binding]
  /\ output \in Seq(Seq(Value))
  /\ status \in {"running", "halted", "returned", "ended"} \cup Exceptions
  /\ result \in Value
=============================================================================
