---------------------------- MODULE StackHeights ----------------------------
(***************************************************************************)
(* When an image cannot make the machine pop an empty operand stack.  A     *)
(* certificate gives, for every instruction of every unit, a number of      *)
(* values that are on the frame's stack whenever the instruction is         *)
(* reached; Certified says that the instructions respect it, each unit ends *)
(* in a return or a halt, and each call names its function or contract in   *)
(* the instruction before it.  compile_function promises the last:          *)
(* "Ensure return is always emitted at the end of function".                *)
(***************************************************************************)
EXTENDS BBVM

(* The certificate comes with the image and the machine does not read it.   *)
Height(u, ip) == image.height[u][ip]

CodeLen(u)     == Len(Code(u))
InstrAt(u, ip) == Code(u)[ip + 1]

Pushes(i) == IF i.op \in {"LOAD_CONST", "LOAD_FAST", "LOAD_GLOBAL", "COMPARE_OP", "LOAD_ATTR",
                          "CALL_FUNCTION", "CALL_METHOD"} \cup ArithmeticOps
             THEN 1 ELSE 0

Stops(i)     == i.op \in {"RETURN_VALUE", "HALT"}
Falls(i)     == ~ Stops(i) /\ i.op # "JUMP"
IsJump(i)    == i.op \in {"JUMP", "JUMP_IF_FALSE"}
IsCall(i)    == i.op = "CALL_FUNCTION"

(* The instruction keeps the promise of the certificate h to every          *)
(* instruction that may follow it, and one does follow it.                  *)
KeepsHeight(u, ip) ==
  LET i     == InstrAt(u, ip)
      after == Height(u, ip) - Pops(i) + Pushes(i)
  IN /\ Pops(i) <= Height(u, ip)
     /\ Falls(i)  => ip + 1 < CodeLen(u) /\ Height(u, ip + 1) <= after
     /\ IsJump(i) => i.n < CodeLen(u)    /\ Height(u, i.n) <= after

(* No jump lands on a call, and the instruction before it loads its callee. *)
KnownCallee(u, ip) ==
  LET i == InstrAt(u, ip) IN
  /\ IsCall(i) => /\ ip > 0
                  /\ InstrAt(u, ip - 1).op = "LOAD_GLOBAL"
                  /\ InstrAt(u, ip - 1).arg \in image.functions \cup image.contracts
  /\ IsJump(i) /\ i.n < CodeLen(u) => ~ IsCall(InstrAt(u, i.n))

CertifiedAt(u, ip) ==
  /\ Height(u, ip) \in Nat
  /\ InstrAt(u, ip).op # "STORE_GLOBAL"
  /\ KeepsHeight(u, ip)
  /\ KnownCallee(u, ip)

Certified ==
  \A u \in UnitsOf(image) :
    /\ CodeLen(u) > 0
    /\ Height(u, 0) = 0
    /\ \A ip \in 0 .. CodeLen(u) - 1 : CertifiedAt(u, ip)

(* A certificate for compiled code: the temporaries of the statement in     *)
(* progress; what expression statements leave behind is not counted.        *)
Heights(code) ==
  LET targets == {code[i].n : i \in {j \in DOMAIN code : IsJump(code[j])}}
      h[ip \in 0 .. Len(code) - 1] ==
        IF ip = 0 \/ ip \in targets \/ ~ Falls(code[ip]) THEN 0
        ELSE h[ip - 1] - Pops(code[ip]) + Pushes(code[ip])
  IN h

-----------------------------------------------------------------------------
(* Every value a suspended frame still gets is the one its callee returns.  *)
Awaited(k) == IF k < Len(frames) /\ ~ frames[k + 1].is_constructor THEN 1 ELSE 0

HighEnough(k) ==
  LET f == frames[k] IN
  /\ f.ip < CodeLen(f.unit)
  /\ Height(f.unit, f.ip) <= Len(f.stack) + Awaited(k)

(* A frame about to call has the name of a function or contract on top, and *)
(* is not waiting for another call.                                         *)
CalleeOnTop(k) ==
  LET f == frames[k] IN
  IsCall(InstrAt(f.unit, f.ip)) =>
    /\ k = Len(frames)
    /\ f.stack # <<>>
    /\ Denotes(f.stack[Len(f.stack)], image.functions \cup image.contracts)

(* PROPERTY CertificateHolds: while a certified image runs, every frame has *)
(* at least the values its certificate claims, counting the one it waits    *)
(* for, and no frame is about to run off the end of its code (the promise   *)
(* of vm_compiler.py:77).                                                   *)
CertificateHolds ==
  status = "running" /\ Certified =>
    /\ globals = EmptyDict
    /\ \A k \in 1 .. Len(frames) : HighEnough(k) /\ CalleeOnTop(k)

(* PROPERTY NoUnderflow: a certified image never makes BBVM.execute pop an  *)
(* empty stack, whatever its calls, loops and constructors do.              *)
NoUnderflow == Certified => status # "underflow"
=============================================================================
