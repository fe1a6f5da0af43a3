---------------------------- MODULE ProgramProofs ----------------------------
(***************************************************************************)
(* What holds between the instructions of a run, and with that of a whole  *)
(* program.  Every value there is belongs to a set `vs` in which closures  *)
(* have the cells their function needs, and instances their class:         *)
(* whatever is taken from a slot, a field or a cell is one of them.  The   *)
(* instruction that adds a method to its class finds a closure on the      *)
(* stack, as no jump leads to it.                                          *)
(***************************************************************************)
EXTENDS CompilerProofs, TLAPS

-----------------------------------------------------------------------------
(* The run.  `vs` is a set of values that has what is on the stack and in  *)
(* the objects, and the instances that methods are bound to.               *)

IsSlot(s)  == s = [of |-> s.of, value |-> s.value]
IsCell(c)  == c = [at |-> c.at, slot |-> c.slot]
IsFrame(f) == f = [function |-> f.function, ip |-> f.ip, start |-> f.start, cells |-> f.cells]
IsClass(c) == c = [methods |-> c.methods, own |-> c.own, super |-> c.super]
IsInstance(i) == i = [class |-> i.class, fields |-> i.fields]

(* A closure, or a frame of its call, has the variables of its function.   *)
ClosureOK(c) ==
  /\ c.function \in 1..Len(compiled)
  /\ \A i \in 1..Len(compiled[c.function].outsiders) : c.cells[i] \in 1..Len(cells)

ValueOK(v, vs) ==
  /\ v.kind \in {"plain", "native", "closure", "class", "instance", "method"}
  /\ v.kind = "closure" => ClosureOK(v)
  /\ v.kind = "class" => v.class \in 1..Len(classes)
  /\ v.kind = "instance" => v.instance \in 1..Len(instances)
  /\ v.kind = "method" => ClosureOK(v.closure) /\ v.instance \in vs

ValuesOK(vs) == \A v \in vs : ValueOK(v, vs)
SlotOK(s, vs) == IsSlot(s) /\ s.value \in vs
SlotsOK(s, vs) == IsSeq(s) /\ Len(s) <= StackSize /\ \A i \in 1..Len(s) : SlotOK(s[i], vs)
StackOK(vs) == SlotsOK(stack, vs)
CellOK(c, vs) == IsCell(c) /\ SlotOK(c.slot, vs) /\ c.at \in 0..StackSize+MaxLocals-1
ListOK(cs, list, o) == IsSeq(list) /\ o \in BOOLEAN /\ \A i \in 1..Len(list) : list[i] \in 1..Len(cs)
CellsOK(vs) ==
  IsSeq(cells) /\ ListOK(cells, heap_values, ordered) /\ \A i \in 1..Len(cells) : CellOK(cells[i], vs)
ClassOK(c) == IsClass(c) /\ \A m \in DOMAIN c.methods : ClosureOK(c.methods[m])
ClassesOK == IsSeq(classes) /\ \A i \in 1..Len(classes) : ClassOK(classes[i])
InstanceOK(i, vs) ==
  IsInstance(i) /\ i.class \in 1..Len(classes) /\ \A m \in DOMAIN i.fields : i.fields[m] \in vs
InstancesOK(vs) == IsSeq(instances) /\ \A i \in 1..Len(instances) : InstanceOK(instances[i], vs)
GlobalsOK(vs) == \A n \in DOMAIN globals : globals[n] \in vs

(* A method is added to its class when its closure has just been created.  *)
AtMethod(f) == f.ip \in DOMAIN compiled[f.function].code /\ compiled[f.function].code[f.ip].op = "Method"
FramesOK ==
  /\ IsSeq(frames) /\ Len(frames) <= MaxFrames
  /\ \A i \in 1..Len(frames) : IsFrame(frames[i]) /\ ClosureOK(frames[i]) /\ frames[i].start \in 1..StackSize
  /\ \A i \in 1..Len(frames)-1 : ~AtMethod(frames[i])
  /\ status = "running" =>
       /\ Len(frames) # 0
       /\ AtMethod(frames[Len(frames)]) => Len(stack) # 0 /\ stack[Len(stack)].value.kind = "closure"

MachineAt(vs) ==
  FramesOK /\ ClassesOK /\ ValuesOK(vs) /\ StackOK(vs) /\ CellsOK(vs) /\ InstancesOK(vs) /\ GlobalsOK(vs)
MachineInv == \E vs : MachineAt(vs)

Inv == CompilerInv /\ MachineInv

-----------------------------------------------------------------------------
(* The run: what is known where an instruction is executed.                *)

(* What there is stays, and there may be more.                             *)
NoFewer(s, t) == Len(s) \in Nat /\ Len(t) \in Nat /\ Len(s) <= Len(t)
Grows ==
  /\ Extends(compiled, compiled')
  /\ NoFewer(cells, cells') /\ NoFewer(classes, classes') /\ NoFewer(instances, instances')

LEMMA MachineIs ==
  ASSUME NEW vs, MachineAt(vs)
  PROVE  /\ IsSeq(frames) /\ IsSeq(stack) /\ IsSeq(cells) /\ IsSeq(classes) /\ IsSeq(instances)
         /\ Len(frames) \in Nat /\ Len(stack) \in Nat /\ Len(cells) \in Nat /\ Len(classes) \in Nat /\ Len(instances) \in Nat
         /\ Len(stack) <= StackSize /\ StackSize \in Nat \ {0} /\ MaxLocals \in Nat \ {0, 1}
  BY MachineAssumption, CompilerAssumption
     DEF MachineAt, FramesOK, ClassesOK, StackOK, SlotsOK, CellsOK, InstancesOK, IsSeq

LEMMA ClosuresStay == ASSUME Grows, CompiledOK(compiled), NEW c, ClosureOK(c) PROVE ClosureOK(c)'
<1>1. PICK cs, ds : cs = compiled /\ ds = compiled'
  OBVIOUS
<1>2. c.function \in 1..Len(cs) /\ Len(cs) \in Nat
  BY <1>1 DEF ClosureOK, CompiledOK, IsSeq
<1>3. c.function \in 1..Len(ds) /\ ds[c.function] = cs[c.function]
  BY <1>1, <1>2 DEF Grows, Extends
<1>4. \A i \in 1..Len(cs[c.function].outsiders) : c.cells[i] \in 1..Len(cells)
  BY <1>1 DEF ClosureOK
<1>5. \A i \in 1..Len(ds[c.function].outsiders) : c.cells[i] \in 1..Len(cells')
  BY <1>3, <1>4 DEF Grows, NoFewer
<1> QED
  BY <1>1, <1>3, <1>5 DEF ClosureOK

LEMMA ValueStays ==
  ASSUME Grows, CompiledOK(compiled), NEW vs, NEW ws, vs \subseteq ws, NEW v, ValueOK(v, vs)
  PROVE  ValueOK(v, ws)'
<1>1. v.kind = "closure" => ClosureOK(v)'
  BY ClosuresStay DEF ValueOK
<1>2. v.kind = "class" => v.class \in 1..Len(classes')
  BY DEF ValueOK, Grows, NoFewer
<1>3. v.kind = "instance" => v.instance \in 1..Len(instances')
  BY DEF ValueOK, Grows, NoFewer
<1>4. v.kind = "method" => ClosureOK(v.closure)' /\ v.instance \in ws
  <2>1. PICK c : c = v.closure
    OBVIOUS
  <2>2. v.kind = "method" => ClosureOK(c)'
    BY <2>1, ClosuresStay DEF ValueOK
  <2> QED
    BY <2>1, <2>2 DEF ValueOK
<1>5. v.kind \in {"plain", "native", "closure", "class", "instance", "method"}
  BY DEF ValueOK
<1> QED
  BY <1>1, <1>2, <1>3, <1>4, <1>5 DEF ValueOK

(* What does not change stays as it should be with more values.            *)
LEMMA ObjectsStay ==
  ASSUME Grows, CompiledOK(compiled), NEW vs, MachineAt(vs), NEW ws, vs \subseteq ws
  PROVE  /\ \A v \in vs : ValueOK(v, ws)'
         /\ classes' = classes => ClassesOK'
         /\ captures' = captures => CellsOK(ws)'
         /\ instances' = instances => InstancesOK(ws)'
         /\ globals' = globals => GlobalsOK(ws)'
         /\ stack' = stack => StackOK(ws)'
<1>1. \A v \in vs : ValueOK(v, ws)'
  BY ValueStays DEF MachineAt, ValuesOK
<1>2. ASSUME classes' = classes PROVE ClassesOK'
  <2>1. ASSUME NEW i \in 1..Len(classes) PROVE ClassOK(classes[i])'
    <3>1. PICK c : c = classes[i]
      OBVIOUS
    <3>2. IsClass(c) /\ \A m \in DOMAIN c.methods : ClosureOK(c.methods[m])
      BY <3>1 DEF MachineAt, ClassesOK, ClassOK
    <3>3. ASSUME NEW m \in DOMAIN c.methods PROVE ClosureOK(c.methods[m])'
      BY <3>2, ClosuresStay
    <3>4. c = classes'[i]
      BY <1>2, <3>1
    <3> QED
      BY <3>2, <3>3, <3>4 DEF ClassOK
  <2> QED
    BY <1>2, <2>1 DEF MachineAt, ClassesOK
<1>3. ASSUME captures' = captures PROVE CellsOK(ws)'
  <2>1. cells' = cells /\ heap_values' = heap_values /\ ordered' = ordered
    BY <1>3 DEF captures
  <2>2. ListOK(cells, heap_values, ordered)'
    BY <2>1 DEF MachineAt, CellsOK, ListOK
  <2> QED
    BY <2>1, <2>2 DEF MachineAt, CellsOK, CellOK, SlotOK
<1>4. ASSUME instances' = instances PROVE InstancesOK(ws)'
  <2>1. ASSUME NEW i \in 1..Len(instances) PROVE InstanceOK(instances[i], ws)'
    <3>1. IsInstance(instances[i]) /\ instances[i].class \in 1..Len(classes)
          /\ \A m \in DOMAIN instances[i].fields : instances[i].fields[m] \in ws
      BY DEF MachineAt, InstancesOK, InstanceOK
    <3>2. instances[i].class \in 1..Len(classes')
      BY <3>1 DEF Grows, NoFewer
    <3> QED
      BY <1>4, <3>1, <3>2 DEF InstanceOK
  <2> QED
    BY <1>4, <2>1 DEF MachineAt, InstancesOK
<1>5. ASSUME globals' = globals PROVE GlobalsOK(ws)'
  BY <1>5 DEF MachineAt, GlobalsOK
<1>6. ASSUME stack' = stack PROVE StackOK(ws)'
  BY <1>6 DEF MachineAt, StackOK, SlotsOK, SlotOK
<1> QED
  BY <1>1, <1>2, <1>3, <1>4, <1>5, <1>6

(* One more value.                                                         *)
LEMMA OneValueMore ==
  ASSUME NEW vs, NEW ws, NEW v, ws = vs \cup {v}, (\A u \in vs : ValueOK(u, ws)'), ValueOK(v, ws)'
  PROVE  ValuesOK(ws)'
  BY SMTT(30) DEF ValuesOK

-----------------------------------------------------------------------------
(* The frame that runs.                                                    *)
LEMMA FrameIs ==
  ASSUME CompiledOK(compiled), NEW vs, MachineAt(vs), NEW op, Execute(op)
  PROVE  /\ status = "running" /\ Len(frames) # 0
         /\ Frame = frames[Len(frames)] /\ IsFrame(Frame) /\ ClosureOK(Frame) /\ Frame.start \in 1..StackSize
         /\ Frame.function \in 1..Len(compiled) /\ OutsidersOK(compiled[Frame.function].outsiders)
         /\ Code = compiled[Frame.function].code
         /\ CodeOK(Code, Len(compiled[Frame.function].outsiders), compiled)
         /\ IsSeq(Code) /\ Len(Code) \in Nat /\ Frame.ip \in 1..Len(Code)
         /\ Instr = Code[Frame.ip] /\ Instr.op = op /\ IsInstruction(Instr)
         /\ OperandOK(Instr, Len(compiled[Frame.function].outsiders), compiled)
<1>1. status = "running" /\ ~Astray /\ Instr.op = op
  BY DEF Execute
<1>2. IsSeq(frames) /\ Len(frames) \in Nat /\ Len(frames) # 0
  BY <1>1 DEF MachineAt, FramesOK, IsSeq
<1>3. Frame = frames[Len(frames)]
  BY DEF Frame, Last
<1>4. IsFrame(Frame) /\ ClosureOK(Frame) /\ Frame.start \in 1..StackSize
  BY <1>2, <1>3 DEF MachineAt, FramesOK
<1>5. Frame.function \in 1..Len(compiled)
  BY <1>4 DEF ClosureOK
<1>6. Code = compiled[Frame.function].code
  BY DEF Code
<1>7. CodeOK(Code, Len(compiled[Frame.function].outsiders), compiled) /\ OutsidersOK(compiled[Frame.function].outsiders)
  BY <1>5, <1>6 DEF CompiledOK
<1>8. IsSeq(Code) /\ Len(Code) \in Nat /\ DOMAIN Code = 1..Len(Code)
  BY <1>7 DEF CodeOK, IsSeq
<1>9. Frame.ip \in 1..Len(Code)
  BY <1>1, <1>8 DEF Astray, OnTrack
<1>10. Instr = Code[Frame.ip]
  BY DEF Instr
<1>11. IsInstruction(Instr) /\ OperandOK(Instr, Len(compiled[Frame.function].outsiders), compiled)
  BY <1>7, <1>9, <1>10 DEF CodeOK
<1> QED
  BY <1>1, <1>2, <1>3, <1>4, <1>5, <1>6, <1>7, <1>8, <1>9, <1>10, <1>11

(* The instruction behind one that is no closure's adds no method.         *)
LEMMA NextIs ==
  ASSUME CompiledOK(compiled), NEW vs, MachineAt(vs), NEW op, Execute(op), op # "Push_Closure", NEW ip, ip = Frame.ip + 1
  PROVE  ~(ip \in DOMAIN Code /\ Code[ip].op = "Method")
<1>1. PICK code, k : code = Code /\ k = Frame.ip
  OBVIOUS
<1>2. k \in 1..Len(code) /\ Len(code) \in Nat /\ IsSeq(code)
  BY <1>1, FrameIs
<1>3. Instr = code[k] /\ Instr.op = op
  BY <1>1, FrameIs
<1>4. CodeOK(code, Len(compiled[Frame.function].outsiders), compiled)
  BY <1>1, FrameIs
<1> SUFFICES ASSUME ip \in DOMAIN code, code[ip].op = "Method" PROVE FALSE
  BY <1>1
<1>5. code[ip - 1].op = "Push_Closure"
  BY <1>2, <1>4 DEF CodeOK, IsSeq
<1>6. ip - 1 = k
  BY <1>1, <1>2
<1> QED
  BY <1>3, <1>5, <1>6

(* The frame goes on at ip.                                                *)
LEMMA AtIs ==
  ASSUME IsSeq(frames), Len(frames) # 0, IsFrame(Frame), NEW ip, At(ip)
  PROVE  /\ IsSeq(frames') /\ Len(frames') = Len(frames)
         /\ \A i \in 1..Len(frames)-1 : frames'[i] = frames[i]
         /\ frames'[Len(frames)] = [function |-> Frame.function, ip |-> ip, start |-> Frame.start, cells |-> Frame.cells]
<1>1. PICK s, n, f, g, t :
        s = frames /\ n = Len(frames) /\ f = Frame /\ t = frames'
        /\ g = [function |-> f.function, ip |-> ip, start |-> f.start, cells |-> f.cells]
  OBVIOUS
<1>2. f = s[n] /\ n \in Nat /\ n # 0 /\ Len(s) = n
  BY <1>1 DEF Frame, Last, IsSeq
<1>3. [f EXCEPT !.ip = ip] = g
  BY <1>1 DEF IsFrame
<1>4. t = [s EXCEPT ![n] = [s[n] EXCEPT !.ip = ip]]
  BY <1>1 DEF At
<1>5. t = Updated(s, n, g)
  BY <1>2, <1>3, <1>4, Zenon DEF Updated
<1>6. IsSeq(t) /\ Len(t) = Len(s) /\ \A j \in 1..Len(s) : t[j] = IF j = n THEN g ELSE s[j]
  BY <1>1, <1>5, UpdateIs
<1> QED
  BY <1>1, <1>2, <1>6

(* It may be at a method's instruction with the closure on the stack.      *)
Lands(ip) ==
  ip \in DOMAIN Code /\ Code[ip].op = "Method" => Len(stack') # 0 /\ stack'[Len(stack')].value.kind = "closure"

LEMMA FramesAt ==
  ASSUME CompiledOK(compiled), NEW vs, MachineAt(vs), NEW op, Execute(op), Grows,
         NEW ip, At(ip), compiled' = compiled, Lands(ip)
  PROVE  FramesOK'
<1>1. PICK g : g = [function |-> Frame.function, ip |-> ip, start |-> Frame.start, cells |-> Frame.cells]
  OBVIOUS
<1>2. IsSeq(frames) /\ Len(frames) \in Nat /\ Len(frames) # 0 /\ IsFrame(Frame) /\ ClosureOK(Frame) /\ Frame.start \in 1..StackSize
  BY FrameIs, MachineIs
<1>3. /\ IsSeq(frames') /\ Len(frames') = Len(frames)
      /\ \A i \in 1..Len(frames)-1 : frames'[i] = frames[i]
      /\ frames'[Len(frames)] = g
  BY <1>1, <1>2, AtIs
<1>4. IsFrame(g) /\ g.start \in 1..StackSize /\ ClosureOK(g)'
  <2>1. ClosureOK(g)
    BY <1>1, <1>2 DEF ClosureOK
  <2>2. ClosureOK(g)'
    BY <2>1, ClosuresStay
  <2> QED
    BY <1>1, <1>2, <2>2 DEF IsFrame
<1>5. ASSUME NEW i \in 1..Len(frames)-1
      PROVE  IsFrame(frames'[i]) /\ ClosureOK(frames[i])' /\ frames'[i].start \in 1..StackSize /\ ~AtMethod(frames[i])'
  <2>1. PICK h : h = frames[i]
    OBVIOUS
  <2>2. frames'[i] = h
    BY <1>3, <2>1
  <2>3. i \in 1..Len(frames)
    BY <1>2
  <2>4. IsFrame(h) /\ ClosureOK(h) /\ h.start \in 1..StackSize /\ ~AtMethod(h)
    BY <2>1, <2>3 DEF MachineAt, FramesOK
  <2>5. ClosureOK(h)'
    BY <2>4, ClosuresStay
  <2>6. ~AtMethod(h)'
    BY <2>4 DEF AtMethod
  <2> QED
    BY <2>2, <2>4, <2>5, <2>6
<1>6. ASSUME AtMethod(g)' PROVE Len(stack') # 0 /\ stack'[Len(stack')].value.kind = "closure"
  <2>1. ip \in DOMAIN compiled[g.function].code /\ compiled[g.function].code[ip].op = "Method"
    BY <1>1, <1>6 DEF AtMethod
  <2>2. compiled[g.function].code = Code
    BY <1>1 DEF Code
  <2> QED
    BY <2>1, <2>2 DEF Lands
<1>7. \A i \in 1..Len(frames') : i \in 1..Len(frames)-1 \/ i = Len(frames)
  BY <1>2, <1>3
<1>8. \A i \in 1..Len(frames') : IsFrame(frames'[i]) /\ ClosureOK(frames[i])' /\ frames'[i].start \in 1..StackSize
  BY <1>3, <1>4, <1>5, <1>7
<1>9. \A i \in 1..Len(frames')-1 : ~AtMethod(frames[i])'
  BY <1>3, <1>5
<1>10. Len(frames') # 0
  BY <1>2, <1>3
<1>11. AtMethod(frames[Len(frames)])' => Len(stack') # 0 /\ stack'[Len(stack')].value.kind = "closure"
  BY <1>3, <1>6
<1>12. Len(frames') <= MaxFrames
  BY <1>3 DEF MachineAt, FramesOK
<1> QED
  BY <1>3, <1>8, <1>9, <1>10, <1>11, <1>12 DEF FramesOK

-----------------------------------------------------------------------------
(* The value stack.                                                        *)
LEMMA SlotIs == ASSUME NEW of, NEW v PROVE Slot(of, v).value = v /\ IsSlot(Slot(of, v))
  BY DEF Slot, IsSlot

LEMMA SlotsMore == ASSUME NEW s, NEW vs, NEW ws, vs \subseteq ws, SlotsOK(s, vs) PROVE SlotsOK(s, ws)
  BY DEF SlotsOK, SlotOK

LEMMA SlotsPush ==
  ASSUME NEW s, NEW vs, SlotsOK(s, vs), NEW t, NEW of, NEW v \in vs, t = Append(s, Slot(of, v)), Len(s) < StackSize
  PROVE  SlotsOK(t, vs) /\ Len(t) = Len(s) + 1 /\ t[Len(t)].value = v
<1>1. PICK x : x = Slot(of, v)
  OBVIOUS
<1>2. IsSeq(s)
  BY DEF SlotsOK
<1>3. IsSeq(t) /\ Len(t) = Len(s) + 1 /\ (\A i \in 1..Len(s) : t[i] = s[i]) /\ t[Len(s) + 1] = x
  BY <1>1, <1>2, AppendIs
<1>4. SlotOK(x, vs) /\ x.value = v
  BY <1>1, SlotIs DEF SlotOK
<1>5. Len(t) <= StackSize /\ \A i \in 1..Len(t) : i \in 1..Len(s) \/ i = Len(s) + 1
  BY <1>2, <1>3, MachineAssumption DEF IsSeq
<1> QED
  BY <1>3, <1>4, <1>5 DEF SlotsOK

LEMMA SlotsPrefix ==
  ASSUME NEW s, NEW vs, SlotsOK(s, vs), NEW n \in 0..Len(s), NEW t, t = SubSeq(s, 1, n)
  PROVE  SlotsOK(t, vs) /\ Len(t) = n /\ \A i \in 1..n : t[i] = s[i]
<1>1. IsSeq(s) /\ Len(s) \in Nat
  BY DEF SlotsOK, IsSeq
<1>2. IsSeq(t) /\ Len(t) = n /\ \A i \in 1..n : t[i] = s[i]
  BY <1>1, PrefixIs
<1>3. \A i \in 1..n : i \in 1..Len(s)
  BY <1>1
<1> QED
  BY <1>1, <1>2, <1>3, MachineAssumption DEF SlotsOK

LEMMA SlotsFront ==
  ASSUME NEW s, NEW vs, SlotsOK(s, vs), Len(s) # 0, NEW t, t = Front(s)
  PROVE  SlotsOK(t, vs) /\ Len(t) = Len(s) - 1
<1>1. Len(s) - 1 \in 0..Len(s)
  BY DEF SlotsOK, IsSeq
<1> QED
  BY ZenonT(40), <1>1, SlotsPrefix DEF Front

(* A value stored in a slot.                                               *)
Stored(s, i, v) == [s EXCEPT ![i].value = v]
LEMMA SlotsStore ==
  ASSUME NEW s, NEW vs, SlotsOK(s, vs), NEW i \in 1..Len(s), NEW v \in vs, NEW t, t = Stored(s, i, v)
  PROVE  SlotsOK(t, vs) /\ Len(t) = Len(s) /\ \A j \in 1..Len(s) : t[j] = IF j = i THEN Slot(s[i].of, v) ELSE s[j]
<1>1. PICK x, y : x = s[i] /\ y = Slot(x.of, v)
  OBVIOUS
<1>2. x = [of |-> x.of, value |-> x.value]
  BY <1>1 DEF SlotsOK, SlotOK, IsSlot
<1>3. [x EXCEPT !.value = v] = y
  BY <1>1, <1>2 DEF Slot
<1>4. t = Updated(s, i, y)
  BY <1>1, <1>3, Zenon DEF Stored, Updated
<1>5. IsSeq(t) /\ Len(t) = Len(s) /\ \A j \in 1..Len(s) : t[j] = IF j = i THEN y ELSE s[j]
  BY <1>4, UpdateIs DEF SlotsOK
<1>6. SlotOK(y, vs)
  BY <1>1, SlotIs DEF SlotOK
<1> QED
  BY <1>1, <1>5, <1>6 DEF SlotsOK

LEMMA SlotsReplace ==
  ASSUME NEW s, NEW vs, SlotsOK(s, vs), NEW i, i \in 1..Len(s), NEW y, SlotOK(y, vs), NEW t, t = Updated(s, i, y)
  PROVE  SlotsOK(t, vs) /\ Len(t) = Len(s) /\ \A j \in 1..Len(s) : t[j] = IF j = i THEN y ELSE s[j]
<1>1. IsSeq(t) /\ Len(t) = Len(s) /\ \A j \in 1..Len(s) : t[j] = IF j = i THEN y ELSE s[j]
  BY UpdateIs DEF SlotsOK
<1> QED
  BY <1>1 DEF SlotsOK

(* The arguments of a call become the parameters.                          *)
AsParameters(s, n, ps) == [i \in DOMAIN s |-> IF i < n THEN s[i] ELSE Slot(ps[i - n + 1], s[i].value)]
LEMMA SlotsRename ==
  ASSUME NEW s, NEW vs, SlotsOK(s, vs), NEW n, NEW ps, NEW t, t = AsParameters(s, n, ps)
  PROVE  SlotsOK(t, vs) /\ Len(t) = Len(s)
<1>1. PICK m : m = Len(s)
  OBVIOUS
<1>2. m \in Nat /\ DOMAIN s = 1..m
  BY <1>1 DEF SlotsOK, IsSeq
<1>3. t = [i \in 1..m |-> IF i < n THEN s[i] ELSE Slot(ps[i - n + 1], s[i].value)]
  BY <1>2, Zenon DEF AsParameters
<1>4. t = [i \in 1..m |-> t[i]]
  BY <1>3
<1>5. IsSeq(t) /\ Len(t) = m
  BY <1>2, <1>4, MapIs
<1>6. \A i \in 1..m : SlotOK(t[i], vs)
  <2>1. \A i \in 1..m : SlotOK(s[i], vs)
    BY <1>1 DEF SlotsOK
  <2>2. ASSUME NEW i \in 1..m PROVE SlotOK(t[i], vs)
    <3>1. CASE i < n
      BY <1>3, <2>1, <3>1
    <3>2. CASE ~(i < n)
      <4>1. PICK x : x = Slot(ps[i - n + 1], s[i].value)
        OBVIOUS
      <4>2. t[i] = x
        BY <1>3, <3>2, <4>1
      <4>3. x.value = s[i].value /\ IsSlot(x)
        BY <4>1, SlotIs
      <4> QED
        BY <2>1, <4>2, <4>3 DEF SlotOK
    <3> QED
      BY <3>1, <3>2
  <2> QED
    BY <2>2
<1> QED
  BY <1>1, <1>5, <1>6 DEF SlotsOK

-----------------------------------------------------------------------------
(* What a step of the run must do.                                         *)
Ran == compiled' = compiled /\ status' \in Outcomes /\ MachineInv'

LEMMA GrowsSame ==
  ASSUME CompiledOK(compiled), NEW vs, MachineAt(vs), compiled' = compiled, UNCHANGED <<cells, classes, instances>>
  PROVE  Grows
<1>1. Len(compiled) \in Nat
  BY DEF CompiledOK, IsSeq
<1> QED
  BY <1>1, MachineIs DEF Grows, Extends, NoFewer

LEMMA RanIs ==
  ASSUME NEW ws, compiled' = compiled, status' \in Outcomes, FramesOK', ClassesOK', ValuesOK(ws)',
         StackOK(ws)', CellsOK(ws)', InstancesOK(ws)', GlobalsOK(ws)'
  PROVE  Ran
BY DEF Ran, MachineInv, MachineAt

(* The errors.                                                             *)
LEMMA ErrorRan == ASSUME CompiledOK(compiled), NEW vs, MachineAt(vs), RuntimeError PROVE Ran
<1>1. status' = "error" /\ stack' = <<>> /\ compiled' = compiled /\ frames' = frames
      /\ captures' = captures /\ cells' = cells /\ classes' = classes /\ instances' = instances /\ globals' = globals
  BY DEF RuntimeError, objects, captures
<1>2. Grows
  BY <1>1, GrowsSame
<1>3. (\A v \in vs : ValueOK(v, vs)') /\ ClassesOK' /\ CellsOK(vs)' /\ InstancesOK(vs)' /\ GlobalsOK(vs)'
  BY <1>1, <1>2, ObjectsStay
<1>4. ValuesOK(vs)'
  BY <1>3 DEF ValuesOK
<1>5. StackOK(vs)'
  BY <1>1, EmptyIs, MachineAssumption DEF StackOK, SlotsOK
<1>6. FramesOK'
  BY <1>1 DEF MachineAt, FramesOK, ClosureOK, AtMethod
<1> QED
  BY <1>1, <1>3, <1>4, <1>5, <1>6, RanIs DEF Outcomes

LEMMA StopRan ==
  ASSUME CompiledOK(compiled), NEW vs, MachineAt(vs), NEW how \in {"undefined", "aborted"}, Stop(how) PROVE Ran
<1>1. status' = how /\ stack' = stack /\ compiled' = compiled /\ frames' = frames
      /\ captures' = captures /\ cells' = cells /\ classes' = classes /\ instances' = instances /\ globals' = globals
  BY DEF Stop, machine, objects, captures
<1>2. Grows
  BY <1>1, GrowsSame
<1>3. (\A v \in vs : ValueOK(v, vs)') /\ ClassesOK' /\ CellsOK(vs)' /\ InstancesOK(vs)' /\ GlobalsOK(vs)' /\ StackOK(vs)'
  BY <1>1, <1>2, ObjectsStay
<1>4. ValuesOK(vs)'
  BY <1>3 DEF ValuesOK
<1>5. FramesOK'
  BY <1>1 DEF MachineAt, FramesOK, ClosureOK, AtMethod
<1> QED
  BY <1>1, <1>3, <1>4, <1>5, RanIs DEF Outcomes

(* The next instruction adds a method only behind a closure's.             *)
LEMMA AdvanceIs ==
  ASSUME CompiledOK(compiled), NEW vs, MachineAt(vs), NEW op, Execute(op), op # "Push_Closure", Grows, Advance
  PROVE  FramesOK' /\ compiled' = compiled /\ status' = "running"
<1>1. PICK ip : ip = Frame.ip + 1
  OBVIOUS
<1>2. At(ip) /\ compiled' = compiled /\ status' = status
  BY <1>1 DEF Advance
<1>3. Lands(ip)
  BY <1>1, NextIs DEF Lands
<1>4. FramesOK'
  BY <1>2, <1>3, FramesAt
<1> QED
  BY <1>2, <1>4, FrameIs

(* An instruction that leaves stack s and what ws has besides.             *)
LEMMA StepRan ==
  ASSUME CompiledOK(compiled), NEW vs, MachineAt(vs), NEW op, Execute(op), op # "Push_Closure",
         NEW v, NEW ws, ws = vs \cup {v}, Grows, ValueOK(v, ws)', Advance,
         SlotsOK(stack', ws), ClassesOK', CellsOK(ws)', InstancesOK(ws)', GlobalsOK(ws)'
  PROVE  Ran
<1>1. FramesOK' /\ compiled' = compiled /\ status' = "running"
  BY AdvanceIs
<1>2. \A u \in vs : ValueOK(u, ws)'
  BY ObjectsStay
<1>3. ValuesOK(ws)'
  BY <1>2 DEF ValuesOK
<1>4. StackOK(ws)'
  BY DEF StackOK, SlotsOK
<1> QED
  BY <1>1, <1>3, <1>4, RanIs DEF Outcomes

LEMMA PushRan ==
  ASSUME CompiledOK(compiled), NEW vs, MachineAt(vs), NEW op, Execute(op), op # "Push_Closure",
         NEW v, NEW ws, ws = vs \cup {v}, ValueOK(v, ws), Advance, SlotsOK(stack', ws), UNCHANGED objects
  PROVE  Ran
<1>1. compiled' = compiled /\ captures' = captures /\ cells' = cells /\ classes' = classes /\ instances' = instances /\ globals' = globals
  BY DEF Advance, objects, captures
<1>2. Grows
  BY <1>1, GrowsSame
<1>3. ClassesOK' /\ CellsOK(ws)' /\ InstancesOK(ws)' /\ GlobalsOK(ws)'
  <2>1. vs \subseteq ws
    OBVIOUS
  <2> QED
    BY <1>1, <1>2, <2>1, ObjectsStay
<1>4. ValueOK(v, ws)'
  BY <1>2, ValueStays
<1> QED
  BY <1>2, <1>3, <1>4, StepRan

(* One that only moves values.                                             *)
LEMMA MoveRan ==
  ASSUME CompiledOK(compiled), NEW vs, MachineAt(vs), NEW op, Execute(op), op # "Push_Closure",
         Advance, SlotsOK(stack', vs), UNCHANGED objects
  PROVE  Ran
<1>1. compiled' = compiled /\ captures' = captures /\ cells' = cells /\ classes' = classes /\ instances' = instances /\ globals' = globals
  BY DEF Advance, objects, captures
<1>2. Grows
  BY <1>1, GrowsSame
<1>3. (\A v \in vs : ValueOK(v, vs)') /\ ClassesOK' /\ CellsOK(vs)' /\ InstancesOK(vs)' /\ GlobalsOK(vs)'
  BY <1>1, <1>2, ObjectsStay
<1>4. ValuesOK(vs)'
  BY <1>3 DEF ValuesOK
<1>5. FramesOK' /\ status' = "running"
  BY <1>2, AdvanceIs
<1>6. StackOK(vs)'
  BY DEF StackOK, SlotsOK
<1> QED
  BY <1>1, <1>3, <1>4, <1>5, <1>6, RanIs DEF Outcomes

-----------------------------------------------------------------------------
(* What instructions find on the stack.                                    *)
LEMMA RoomIs ==
  ASSUME CompiledOK(compiled), NEW vs, MachineAt(vs), NEW op, Execute(op), op \in Pushing
  PROVE  Len(stack) < StackSize
<1>1. Len(stack) \in Nat /\ Len(stack) <= StackSize /\ StackSize \in Nat
  BY MachineIs
<1>2. ~(Instr.op \in Pushing /\ Len(stack) = StackSize) /\ Instr.op = op
  BY DEF Execute, Overflows
<1> QED
  BY <1>1, <1>2

LEMMA NeedsIs ==
  ASSUME NEW i
  PROVE  /\ i.op \in {"Call_Function", "Call_Class"} => Needs(i) = i.x + 1
         /\ i.op \in {"Method", "Inheritance", "Set_Property", "Get_Super", "Call_Super_Method"} => Needs(i) = 2
         /\ i.op = "Return" => Needs(i) = IF Len(frames) = 1 THEN 2 ELSE 1
         /\ i.op \in {"Copy_Top_To_Idx", "Move_Top_To_Heap", "Move_Value_To_Heap", "Pop", "Print", "Define_Global",
                      "Assign_Global", "Get_Property", "Call_Method"} => Needs(i) = 1
  BY DEF Needs, Pushing

LEMMA StackIs ==
  ASSUME CompiledOK(compiled), NEW vs, MachineAt(vs), NEW op, Execute(op)
  PROVE  /\ op \in {"Copy_Top_To_Idx", "Move_Top_To_Heap", "Move_Value_To_Heap", "Pop", "Print", "Define_Global",
                    "Assign_Global", "Get_Property", "Call_Method"} => Len(stack) >= 1
         /\ op \in {"Method", "Inheritance", "Set_Property", "Get_Super", "Call_Super_Method"} => Len(stack) >= 2
         /\ op = "Return" => Len(stack) >= 1 /\ (Len(frames) = 1 => Len(stack) >= 2)
         /\ op \in {"Call_Function", "Call_Class"} => Instr.x \in {0, 1} /\ Instr.x < Len(stack)
<1>1. PICK i, n : i = Instr /\ n = Needs(i)
  OBVIOUS
<1>2. i.op = op /\ ~(n > Len(stack)) /\ Len(stack) \in Nat
  BY <1>1, MachineIs DEF Execute, Underflows
<1>3. OperandOK(i, Len(compiled[Frame.function].outsiders), compiled)
  BY <1>1, FrameIs
<1>4. ASSUME op \in {"Call_Function", "Call_Class"} PROVE i.x \in {0, 1} /\ i.x < Len(stack)
  <2>1. n = i.x + 1
    BY <1>1, <1>2, <1>4, NeedsIs
  <2>2. i.x \in {0, 1}
    BY <1>2, <1>3, <1>4 DEF OperandOK
  <2> QED
    BY <1>2, <2>1, <2>2
<1>5. ASSUME op = "Return" PROVE Len(stack) >= 1 /\ (Len(frames) = 1 => Len(stack) >= 2)
  <2>1. n = IF Len(frames) = 1 THEN 2 ELSE 1
    BY <1>1, <1>2, <1>5, NeedsIs
  <2> QED
    BY <1>2, <2>1
<1>6. ASSUME op \in {"Method", "Inheritance", "Set_Property", "Get_Super", "Call_Super_Method"} PROVE Len(stack) >= 2
  <2>1. n = 2
    BY <1>1, <1>2, <1>6, NeedsIs
  <2> QED
    BY <1>2, <2>1
<1>7. ASSUME op \in {"Copy_Top_To_Idx", "Move_Top_To_Heap", "Move_Value_To_Heap", "Pop", "Print", "Define_Global",
                     "Assign_Global", "Get_Property", "Call_Method"}
      PROVE  Len(stack) >= 1
  <2>1. n = 1
    BY <1>1, <1>2, <1>7, NeedsIs
  <2> QED
    BY <1>2, <2>1
<1> QED
  BY <1>1, <1>4, <1>5, <1>6, <1>7

LEMMA SlotsAre ==
  ASSUME NEW vs, MachineAt(vs)
  PROVE  /\ SlotsOK(stack, vs)
         /\ \A i \in 1..Len(stack) : stack[i].value \in vs
         /\ Len(stack) # 0 => Top = stack[Len(stack)] /\ Top.value \in vs
<1>1. SlotsOK(stack, vs)
  BY DEF MachineAt, StackOK
<1>2. \A i \in 1..Len(stack) : stack[i].value \in vs
  BY <1>1 DEF SlotsOK, SlotOK
<1>3. Len(stack) # 0 => Len(stack) \in 1..Len(stack)
  BY MachineIs
<1>4. Top = stack[Len(stack)]
  BY DEF Top, Last
<1> QED
  BY <1>1, <1>2, <1>3, <1>4

LEMMA PlainIs == ASSUME NEW vs PROVE ValueOK(Plain, vs) /\ ValueOK(NativeFunction, vs)
  BY DEF ValueOK, Plain, NativeFunction

(* A value that is there is pushed.                                        *)
LEMMA PushThere ==
  ASSUME CompiledOK(compiled), NEW vs, MachineAt(vs), NEW op, Execute(op), op \in Pushing, op # "Push_Closure",
         NEW v \in vs, PushValue(v), Advance, UNCHANGED objects
  PROVE  Ran
<1>1. stack' = Append(stack, Slot(Instr.as, v))
  BY DEF PushValue
<1>2. SlotsOK(stack, vs) /\ Len(stack) < StackSize
  BY SlotsAre, RoomIs
<1>3. PICK as, t : as = Instr.as /\ t = Append(stack, Slot(as, v))
  OBVIOUS
<1>4. SlotsOK(t, vs)
  BY <1>2, <1>3, SlotsPush
<1>5. SlotsOK(stack', vs)
  BY <1>1, <1>3, <1>4
<1> QED
  BY <1>5, MoveRan

-----------------------------------------------------------------------------
(* Values, locals and globals.                                             *)
LEMMA PushLiteralRan == ASSUME CompiledOK(compiled), NEW vs, MachineAt(vs), PushLiteral PROVE Ran
<1>1. PICK op \in {"Push_Literal", "Push_Condition", "Push_Nil"} : Execute(op)
  BY DEF PushLiteral
<1>2. stack' = Append(stack, Slot(Instr.as, Plain)) /\ Advance /\ UNCHANGED objects
  BY DEF PushLiteral, PushValue
<1>3. PICK v, ws, as, t : v = Plain /\ ws = vs \cup {v} /\ as = Instr.as /\ t = Append(stack, Slot(as, v))
  OBVIOUS
<1>4. op \in Pushing /\ op # "Push_Closure"
  BY DEF Pushing
<1>5. SlotsOK(stack, ws) /\ Len(stack) < StackSize
  BY <1>1, <1>3, <1>4, SlotsAre, SlotsMore, RoomIs
<1>6. SlotsOK(t, ws)
  BY <1>3, <1>5, SlotsPush
<1>7. SlotsOK(stack', ws)
  BY <1>2, <1>3, <1>6
<1>8. ValueOK(v, ws)
  BY <1>3, PlainIs
<1> QED
  BY <1>1, <1>2, <1>3, <1>4, <1>7, <1>8, PushRan

LEMMA PopRan == ASSUME CompiledOK(compiled), NEW vs, MachineAt(vs), Pop PROVE Ran
<1>1. PICK op \in {"Pop", "Print"} : Execute(op)
  BY DEF Pop
<1>2. stack' = Front(stack) /\ Advance /\ UNCHANGED objects
  BY DEF Pop
<1>3. SlotsOK(stack, vs) /\ Len(stack) # 0
  BY <1>1, SlotsAre, StackIs, MachineIs
<1>4. PICK t : t = Front(stack)
  OBVIOUS
<1>5. SlotsOK(t, vs)
  BY <1>3, <1>4, SlotsFront
<1>6. SlotsOK(stack', vs)
  BY <1>2, <1>4, <1>5
<1> QED
  BY <1>1, <1>2, <1>6, MoveRan

LEMMA CopyFromIdxRan == ASSUME CompiledOK(compiled), NEW vs, MachineAt(vs), CopyFromIdx PROVE Ran
<1>1. PICK v, op : v = stack[Place(Instr.x)].value /\ op = "Copy_From_Idx"
  OBVIOUS
<1>2. Execute(op) /\ PushValue(v) /\ Advance /\ UNCHANGED objects
  BY <1>1 DEF CopyFromIdx
<1>3. Place(Instr.x) \in 1..Len(stack)
  <2>1. Place(Instr.x) \in DOMAIN stack
    BY <1>1, <1>2 DEF Execute, Astray, OnTrack, OfLocal
  <2>2. DOMAIN stack = 1..Len(stack)
    BY MachineIs DEF IsSeq
  <2> QED
    BY <2>1, <2>2
<1>4. v \in vs
  BY <1>1, <1>3, SlotsAre
<1> QED
  BY <1>1, <1>2, <1>4, PushThere DEF Pushing

LEMMA CopyTopToIdxRan == ASSUME CompiledOK(compiled), NEW vs, MachineAt(vs), CopyTopToIdx PROVE Ran
<1>1. PICK i, v, op, t : i = Place(Instr.x) /\ v = Top.value /\ op = "Copy_Top_To_Idx" /\ t = Stored(stack, i, v)
  OBVIOUS
<1>2. Execute(op) /\ stack' = t /\ Advance /\ UNCHANGED objects
  BY <1>1 DEF CopyTopToIdx, Stored
<1>3. i \in 1..Len(stack)
  <2>1. i \in DOMAIN stack
    BY <1>1, <1>2 DEF Execute, Astray, OnTrack, OfLocal
  <2>2. DOMAIN stack = 1..Len(stack)
    BY MachineIs DEF IsSeq
  <2> QED
    BY <2>1, <2>2
<1>4. v \in vs /\ SlotsOK(stack, vs)
  BY <1>1, <1>2, SlotsAre, StackIs, MachineIs
<1>5. SlotsOK(t, vs)
  BY <1>1, <1>3, <1>4, SlotsStore
<1>6. SlotsOK(stack', vs)
  BY <1>2, <1>5
<1> QED
  BY <1>1, <1>2, <1>6, MoveRan

(* A captured variable is one of the cells, and is on the stack or not.    *)
LEMMA CapturedAre ==
  ASSUME CompiledOK(compiled), NEW vs, MachineAt(vs), NEW op \in OfHeap, Execute(op)
  PROVE  LET c == Frame.cells[Instr.x + 1]
         IN  c \in 1..Len(cells) /\ CellOK(cells[c], vs) /\ (cells[c].at # 0 => cells[c].at \in 1..Len(stack))
<1>1. PICK i, f, n, c : i = Instr /\ f = Frame /\ n = Len(compiled[f.function].outsiders) /\ c = f.cells[i.x + 1]
  OBVIOUS
<1>2. i.op = op /\ OperandOK(i, n, compiled) /\ ClosureOK(f) /\ OutsidersOK(compiled[f.function].outsiders)
  BY <1>1, FrameIs
<1>3. i.x \in 0..n-1 /\ n \in Nat
  BY <1>1, <1>2 DEF OperandOK, OutsidersOK, IsSeq
<1>4. i.x + 1 \in 1..n
  BY <1>3
<1>5. c \in 1..Len(cells)
  BY <1>1, <1>2, <1>4 DEF ClosureOK
<1>6. CellOK(cells[c], vs)
  BY <1>5 DEF MachineAt, CellsOK
<1>7. cells[c].at <= Len(stack)
  <2>1. Captured(i.x).at <= Len(stack)
    BY <1>1, <1>2 DEF Execute, Astray, OnTrack
  <2>2. Captured(i.x) = cells[c]
    BY <1>1 DEF Captured
  <2> QED
    BY <2>1, <2>2
<1>8. cells[c].at # 0 => cells[c].at \in 1..Len(stack)
  BY <1>6, <1>7, MachineIs DEF CellOK
<1> QED
  BY <1>1, <1>5, <1>6, <1>8

LEMMA CopyFromHeapRan == ASSUME CompiledOK(compiled), NEW vs, MachineAt(vs), CopyFromHeap PROVE Ran
<1>1. PICK c, v, op : c = Frame.cells[Instr.x + 1] /\ v = CellSlot(Captured(Instr.x)).value /\ op = "Copy_From_Heap"
  OBVIOUS
<1>2. Execute(op) /\ PushValue(v) /\ Advance /\ UNCHANGED objects
  BY <1>1 DEF CopyFromHeap
<1>3. CellOK(cells[c], vs) /\ (cells[c].at # 0 => cells[c].at \in 1..Len(stack))
  BY <1>1, <1>2, CapturedAre DEF OfHeap
<1>4. v = (IF cells[c].at = 0 THEN cells[c].slot ELSE stack[cells[c].at]).value
  BY <1>1 DEF CellSlot, Captured
<1>5. v \in vs
  <2>1. CASE cells[c].at = 0
    BY <1>3, <1>4, <2>1 DEF CellOK, SlotOK
  <2>2. CASE cells[c].at # 0
    BY <1>3, <1>4, <2>2, SlotsAre
  <2> QED
    BY <2>1, <2>2
<1> QED
  BY <1>1, <1>2, <1>5, PushThere DEF Pushing

-----------------------------------------------------------------------------
(* Captured variables.                                                     *)
LEMMA CellStays == ASSUME NEW c, NEW vs, NEW v \in vs, CellOK(c, vs), NEW d, d = [c EXCEPT !.slot.value = v] PROVE CellOK(d, vs)
<1>1. PICK s : s = c.slot
  OBVIOUS
<1>2. c = [at |-> c.at, slot |-> s] /\ s = [of |-> s.of, value |-> s.value] /\ c.at \in 0..StackSize+MaxLocals-1
  BY <1>1 DEF CellOK, IsCell, SlotOK, IsSlot
<1>3. d = [c EXCEPT !.slot = [s EXCEPT !.value = v]]
  BY <1>1
<1>4. [s EXCEPT !.value = v] = Slot(s.of, v)
  BY <1>2 DEF Slot
<1>5. d = [at |-> c.at, slot |-> Slot(s.of, v)]
  BY <1>2, <1>3, <1>4
<1>6. SlotOK(Slot(s.of, v), vs)
  BY SlotIs DEF SlotOK
<1> QED
  BY <1>2, <1>5, <1>6 DEF CellOK, IsCell

(* Cells that are as they should be, as many as there were.                *)
LEMMA CellsRan ==
  ASSUME CompiledOK(compiled), NEW vs, MachineAt(vs), NEW op, Execute(op), op # "Push_Closure",
         Advance, SlotsOK(stack', vs), UNCHANGED <<classes, instances, globals>>,
         IsSeq(cells'), Len(cells') = Len(cells), (\A i \in 1..Len(cells) : CellOK(cells'[i], vs)),
         ListOK(cells', heap_values', ordered')
  PROVE  Ran
<1>1. compiled' = compiled /\ classes' = classes /\ instances' = instances /\ globals' = globals
  BY DEF Advance
<1>2. Grows
  <2>1. Len(compiled) \in Nat
    BY DEF CompiledOK, IsSeq
  <2> QED
    BY <1>1, <2>1, MachineIs DEF Grows, Extends, NoFewer
<1>3. (\A v \in vs : ValueOK(v, vs)') /\ ClassesOK' /\ InstancesOK(vs)' /\ GlobalsOK(vs)'
  BY <1>1, <1>2, ObjectsStay
<1>4. ValuesOK(vs)'
  BY <1>3 DEF ValuesOK
<1>5. FramesOK' /\ status' = "running"
  BY <1>2, AdvanceIs
<1>6. StackOK(vs)'
  BY DEF StackOK, SlotsOK
<1>7. CellsOK(vs)'
  BY DEF CellsOK, CellOK, ListOK
<1> QED
  BY <1>1, <1>3, <1>4, <1>5, <1>6, <1>7, RanIs DEF Outcomes

StoredIn(cs, c, v) == [cs EXCEPT ![c].slot.value = v]
LEMMA MoveTopToHeapRan == ASSUME CompiledOK(compiled), NEW vs, MachineAt(vs), MoveTopToHeap PROVE Ran
<1>1. PICK c, v, op, at : c = Frame.cells[Instr.x + 1] /\ v = Top.value /\ op = "Move_Top_To_Heap" /\ at = cells[c].at
  BY SMTT(30)
<1>2. /\ Execute(op) /\ Advance /\ UNCHANGED <<heap_values, ordered, classes, instances, globals>>
      /\ IF at = 0 THEN cells' = StoredIn(cells, c, v) /\ UNCHANGED stack
         ELSE stack' = Stored(stack, at, v) /\ UNCHANGED cells
  BY <1>1 DEF MoveTopToHeap, StoredIn, Stored
<1>3. c \in 1..Len(cells) /\ CellOK(cells[c], vs) /\ (at # 0 => at \in 1..Len(stack))
  BY <1>1, <1>2, CapturedAre DEF OfHeap
<1>4. v \in vs /\ SlotsOK(stack, vs)
  BY <1>1, <1>2, SlotsAre, StackIs, MachineIs
<1>5. CASE at # 0
  <2>1. PICK t : t = Stored(stack, at, v)
    OBVIOUS
  <2>2. SlotsOK(t, vs)
    BY <1>3, <1>4, <1>5, <2>1, SlotsStore
  <2>3. SlotsOK(stack', vs) /\ UNCHANGED objects
    BY <1>2, <1>5, <2>1, <2>2 DEF objects, captures
  <2> QED
    BY <1>1, <1>2, <2>3, MoveRan
<1>6. CASE at = 0
  <2>1. PICK d, ds : d = [cells[c] EXCEPT !.slot.value = v] /\ ds = StoredIn(cells, c, v)
    OBVIOUS
  <2>2. CellOK(d, vs)
    BY <1>3, <1>4, <2>1, CellStays
  <2>3. ds = Updated(cells, c, d)
    BY <2>1, Zenon DEF StoredIn, Updated
  <2>4. IsSeq(ds) /\ Len(ds) = Len(cells) /\ \A j \in 1..Len(cells) : ds[j] = IF j = c THEN d ELSE cells[j]
    BY <2>3, UpdateIs, MachineIs
  <2>5. cells' = ds /\ stack' = stack
    BY <1>2, <1>6, <2>1
  <2>6. \A j \in 1..Len(cells) : CellOK(cells[j], vs)
    BY DEF MachineAt, CellsOK
  <2>7. \A j \in 1..Len(cells) : CellOK(ds[j], vs)
    BY <2>2, <2>4, <2>6
  <2>8. SlotsOK(stack', vs)
    BY <1>4, <2>5
  <2>9. IsSeq(cells') /\ Len(cells') = Len(cells) /\ \A j \in 1..Len(cells) : CellOK(cells'[j], vs)
    BY <2>4, <2>5, <2>7
  <2>10. ListOK(cells', heap_values', ordered')
    BY <1>2, <2>9 DEF MachineAt, CellsOK, ListOK
  <2> QED
    BY <1>1, <1>2, <2>8, <2>9, <2>10, CellsRan
<1> QED
  BY <1>5, <1>6

(* The cells at the head of the list that are at a place of the stack or   *)
(* above it move to the heap.                                              *)
LEMMA SuffixIs ==
  ASSUME NEW s, IsSeq(s), NEW m \in 0..Len(s), NEW t, t = SubSeq(s, m + 1, Len(s))
  PROVE  IsSeq(t) /\ Len(t) = Len(s) - m /\ \A i \in 1..Len(s)-m : t[i] = s[m + i]
<1>1. PICK S : S = {s[i] : i \in 1..Len(s)}
  OBVIOUS
<1>2. s \in Seq(S)
  BY <1>1, SeqIs
<1>3. Len(s) \in Nat /\ m \in Nat /\ m <= Len(s)
  BY DEF IsSeq
<1>4. t \in Seq(S) /\ Len(t) = Len(s) - m
  BY <1>2, <1>3
<1>5. \A i \in 1..Len(s)-m : t[i] = s[m + i]
  BY <1>2, <1>3
<1> QED
  BY <1>4, <1>5, SeqIs

LEMMA MovedAre ==
  ASSUME NEW vs, MachineAt(vs), NEW p, NEW m, m = Max(Moved(p) \cup {0})
  PROVE  /\ DOMAIN heap_values = 1..Len(heap_values) /\ Len(heap_values) \in Nat
         /\ m \in 0..Len(heap_values)
         /\ \A i \in Moved(p) : i \in 1..Len(heap_values) /\ heap_values[i] \in 1..Len(cells) /\ OpenAt(i) >= p
<1>1. DOMAIN heap_values = 1..Len(heap_values) /\ Len(heap_values) \in Nat
  BY DEF MachineAt, CellsOK, ListOK, IsSeq
<1>2. PICK S, n : S = Moved(p) \cup {0} /\ n = Len(heap_values)
  OBVIOUS
<1>3. \A i \in Moved(p) : i \in 1..Len(heap_values) /\ OpenAt(i) >= p
  BY <1>1 DEF Moved
<1>4. S \subseteq 0..n /\ S # {} /\ n \in Nat
  BY <1>1, <1>2, <1>3
<1>5. Max(S) \in S
  BY <1>4, MaxOfNaturals
<1>6. \A i \in 1..Len(heap_values) : heap_values[i] \in 1..Len(cells)
  BY DEF MachineAt, CellsOK, ListOK
<1> QED
  BY <1>1, <1>2, <1>3, <1>4, <1>5, <1>6

LEMMA MoveToHeapIs ==
  ASSUME NEW vs, MachineAt(vs), NEW p \in Nat \ {0}, (\A i \in Moved(p) : OpenAt(i) <= Len(stack)), MoveToHeap(p)
  PROVE  /\ IsSeq(cells') /\ Len(cells') = Len(cells) /\ \A i \in 1..Len(cells) : CellOK(cells'[i], vs)
         /\ ListOK(cells', heap_values', ordered')
<1>1. PICK moved, m, n, list : /\ moved = {heap_values[i] : i \in Moved(p)} /\ m = Max(Moved(p) \cup {0})
                              /\ n = Len(cells) /\ list = heap_values
  OBVIOUS
<1>2. PICK ds, us : ds = cells' /\ us = heap_values'
  OBVIOUS
<1>3. n \in Nat /\ DOMAIN cells = 1..n
  BY <1>1, MachineIs DEF IsSeq
<1>4. /\ ds = [c \in 1..n |-> IF c \in moved THEN [at |-> 0, slot |-> stack[cells[c].at]] ELSE cells[c]]
      /\ us = SubSeq(list, m + 1, Len(list)) /\ ordered' = ordered
  BY <1>1, <1>2, <1>3 DEF MoveToHeap
<1>5. ds = [i \in 1..n |-> ds[i]]
  BY <1>4
<1>6. IsSeq(ds) /\ Len(ds) = n
  BY <1>3, <1>5, MapIs
<1>7. ASSUME NEW c \in moved PROVE cells[c].at \in 1..Len(stack)
  <2>1. PICK i \in Moved(p) : c = heap_values[i]
    BY <1>1
  <2>2. OpenAt(i) <= Len(stack) /\ OpenAt(i) >= p /\ c \in 1..Len(cells)
    BY <1>1, <2>1, MovedAre
  <2>3. OpenAt(i) = cells[c].at
    BY <2>1 DEF OpenAt
  <2>4. cells[c].at \in 0..StackSize+MaxLocals-1
    BY <2>2 DEF MachineAt, CellsOK, CellOK
  <2> QED
    BY <2>2, <2>3, <2>4, MachineIs
<1>8. ASSUME NEW i \in 1..n PROVE CellOK(ds[i], vs)
  <2>1. PICK c : c = cells[i]
    OBVIOUS
  <2>2. CASE i \notin moved
    BY <1>1, <1>4, <2>2 DEF MachineAt, CellsOK
  <2>3. CASE i \in moved
    <3>1. PICK s : s = stack[c.at]
      OBVIOUS
    <3>2. c.at \in 1..Len(stack)
      BY <1>7, <2>1, <2>3
    <3>3. SlotOK(s, vs)
      BY <3>1, <3>2 DEF MachineAt, StackOK, SlotsOK
    <3>4. ds[i] = [at |-> 0, slot |-> s]
      BY <1>4, <2>1, <2>3, <3>1
    <3>5. 0 \in 0..StackSize+MaxLocals-1
      BY MachineIs
    <3> QED
      BY <3>3, <3>4, <3>5 DEF CellOK, IsCell
  <2> QED
    BY <2>2, <2>3
<1>9. ListOK(ds, us, ordered')
  <2>1. IsSeq(list) /\ ordered \in BOOLEAN /\ \A i \in 1..Len(list) : list[i] \in 1..n
    BY <1>1 DEF MachineAt, CellsOK, ListOK
  <2>2. m \in 0..Len(list) /\ Len(list) \in Nat
    BY <1>1, MovedAre
  <2>3. IsSeq(us) /\ Len(us) = Len(list) - m /\ \A i \in 1..Len(list)-m : us[i] = list[m + i]
    BY <1>4, <2>1, <2>2, SuffixIs
  <2>4. \A i \in 1..Len(list)-m : m + i \in 1..Len(list)
    BY <2>2
  <2>5. \A i \in 1..Len(us) : us[i] \in 1..n
    BY <2>1, <2>3, <2>4
  <2> QED
    BY <1>4, <1>6, <2>1, <2>3, <2>5 DEF ListOK
<1> QED
  BY <1>1, <1>2, <1>6, <1>8, <1>9

LEMMA MovableAre ==
  ASSUME NEW op \in {"Return", "Move_Value_To_Heap"}, Execute(op)
  PROVE  \A i \in Moved(FirstMoved) : OpenAt(i) <= Len(stack)
  BY DEF Execute, Astray, OnTrack

LEMMA MoveValueToHeapRan == ASSUME CompiledOK(compiled), NEW vs, MachineAt(vs), MoveValueToHeap PROVE Ran
<1>1. PICK op, p, t : op = "Move_Value_To_Heap" /\ p = Len(stack) /\ t = Front(stack)
  OBVIOUS
<1>2. Execute(op) /\ MoveToHeap(FirstMoved) /\ stack' = t /\ Advance /\ UNCHANGED <<classes, instances, globals>>
  BY <1>1 DEF MoveValueToHeap
<1>3. p \in Nat \ {0} /\ SlotsOK(stack, vs) /\ Len(stack) # 0
  BY <1>1, <1>2, SlotsAre, StackIs, MachineIs
<1>4. SlotsOK(t, vs)
  BY <1>1, <1>3, SlotsFront
<1>5. FirstMoved = p
  <2>1. Instr.op = op
    BY <1>2 DEF Execute
  <2> QED
    BY <1>1, <2>1 DEF FirstMoved
<1>6. (\A i \in Moved(p) : OpenAt(i) <= Len(stack)) /\ MoveToHeap(p)
  <2>1. \A i \in Moved(FirstMoved) : OpenAt(i) <= Len(stack)
    BY <1>1, <1>2, MovableAre
  <2> QED
    BY <1>2, <1>5, <2>1
<1>7. /\ IsSeq(cells') /\ Len(cells') = Len(cells) /\ \A i \in 1..Len(cells) : CellOK(cells'[i], vs)
      /\ ListOK(cells', heap_values', ordered')
  BY <1>3, <1>6, MoveToHeapIs
<1>8. SlotsOK(stack', vs)
  BY <1>2, <1>4
<1> QED
  BY <1>1, <1>2, <1>7, <1>8, CellsRan

-----------------------------------------------------------------------------
(* Globals.                                                                *)
LEMMA GlobalsRan ==
  ASSUME CompiledOK(compiled), NEW vs, MachineAt(vs), NEW op, Execute(op), op # "Push_Closure",
         Advance, SlotsOK(stack', vs), UNCHANGED <<captures, classes, instances>>, GlobalsOK(vs)'
  PROVE  Ran
<1>1. compiled' = compiled /\ classes' = classes /\ instances' = instances /\ captures' = captures /\ cells' = cells
  BY DEF Advance, captures
<1>2. Grows
  BY <1>1, GrowsSame
<1>3. (\A v \in vs : ValueOK(v, vs)') /\ ClassesOK' /\ InstancesOK(vs)' /\ CellsOK(vs)'
  BY <1>1, <1>2, ObjectsStay
<1>4. ValuesOK(vs)'
  BY <1>3 DEF ValuesOK
<1>5. FramesOK' /\ status' = "running"
  BY <1>2, AdvanceIs
<1>6. StackOK(vs)'
  BY DEF StackOK, SlotsOK
<1> QED
  BY <1>1, <1>3, <1>4, <1>5, <1>6, RanIs DEF Outcomes

LEMMA DefineGlobalRan == ASSUME CompiledOK(compiled), NEW vs, MachineAt(vs), DefineGlobal PROVE Ran
<1>1. PICK op, n, v, t, g : op = "Define_Global" /\ n = Instr.x /\ v = Top.value /\ t = Front(stack) /\ g = Set(globals, n, v)
  OBVIOUS
<1>2. Execute(op) /\ globals' = g /\ stack' = t /\ Advance /\ UNCHANGED <<captures, classes, instances>>
  BY <1>1 DEF DefineGlobal
<1>3. v \in vs /\ SlotsOK(stack, vs) /\ Len(stack) # 0
  BY <1>1, <1>2, SlotsAre, StackIs, MachineIs
<1>4. SlotsOK(t, vs)
  BY <1>1, <1>3, SlotsFront
<1>5. DOMAIN g = DOMAIN globals \cup {n} /\ \A k \in DOMAIN g : g[k] = IF k = n THEN v ELSE globals[k]
  <2>1. g = Set(globals, n, v)
    BY <1>1
  <2> QED
    BY <2>1 DEF Set
<1>6. \A k \in DOMAIN globals : globals[k] \in vs
  BY DEF MachineAt, GlobalsOK
<1>7. GlobalsOK(vs)'
  BY <1>2, <1>3, <1>5, <1>6 DEF GlobalsOK
<1> QED
  BY <1>1, <1>2, <1>4, <1>7, GlobalsRan

LEMMA ReadGlobalRan == ASSUME CompiledOK(compiled), NEW vs, MachineAt(vs), ReadGlobal PROVE Ran
<1>1. PICK op, v : op = "Read_Global" /\ v = globals[Instr.x]
  OBVIOUS
<1>2. Execute(op) /\ ((IsDefined /\ PushValue(v) /\ Advance /\ UNCHANGED objects) \/ RuntimeError)
  BY <1>1 DEF ReadGlobal
<1>3. CASE IsDefined /\ PushValue(v) /\ Advance /\ UNCHANGED objects
  <2>1. v \in vs
    BY <1>1, <1>3 DEF IsDefined, MachineAt, GlobalsOK
  <2> QED
    BY <1>1, <1>2, <1>3, <2>1, PushThere DEF Pushing
<1> QED
  BY <1>2, <1>3, ErrorRan

LEMMA AssignGlobalRan == ASSUME CompiledOK(compiled), NEW vs, MachineAt(vs), AssignGlobal PROVE Ran
<1>1. PICK op, n, v, g : op = "Assign_Global" /\ n = Instr.x /\ v = Top.value /\ g = [globals EXCEPT ![n] = v]
  OBVIOUS
<1>2. Execute(op) /\ ((globals' = g /\ Advance /\ UNCHANGED <<stack, captures, classes, instances>>) \/ RuntimeError)
  BY <1>1 DEF AssignGlobal
<1>3. CASE globals' = g /\ Advance /\ UNCHANGED <<stack, captures, classes, instances>>
  <2>1. v \in vs /\ SlotsOK(stack, vs)
    BY <1>1, <1>2, SlotsAre, StackIs, MachineIs
  <2>2. \A k \in DOMAIN globals : globals[k] \in vs
    BY DEF MachineAt, GlobalsOK
  <2>3. \A k \in DOMAIN g : g[k] \in vs
    BY <1>1, <2>1, <2>2
  <2>4. GlobalsOK(vs)'
    BY <1>3, <2>3 DEF GlobalsOK
  <2>5. SlotsOK(stack', vs)
    BY <1>3, <2>1
  <2> QED
    BY <1>1, <1>2, <1>3, <2>4, <2>5, GlobalsRan
<1> QED
  BY <1>2, <1>3, ErrorRan

-----------------------------------------------------------------------------
(* Jumps.                                                                  *)

LEMMA TargetLands ==
  ASSUME CompiledOK(compiled), NEW vs, MachineAt(vs), NEW op \in Jumps, Execute(op), NEW ip, ip = Instr.x
  PROVE  Lands(ip)
<1>1. PICK code, k : code = Code /\ k = Frame.ip
  OBVIOUS
<1>2. k \in 1..Len(code) /\ Len(code) \in Nat /\ IsSeq(code)
  BY <1>1, FrameIs
<1>3. Instr = code[k] /\ Instr.op = op
  BY <1>1, FrameIs
<1>4. CodeOK(code, Len(compiled[Frame.function].outsiders), compiled)
  BY <1>1, FrameIs
<1>5. ip \in Unset \/ Target(code, ip)
  BY <1>2, <1>3, <1>4 DEF CodeOK
<1>6. ~(ip \in DOMAIN code /\ code[ip].op = "Method")
  BY <1>2, <1>5 DEF Unset, Target, IsSeq
<1> QED
  BY <1>1, <1>6 DEF Lands

LEMMA JumpRan == ASSUME CompiledOK(compiled), NEW vs, MachineAt(vs), Jump PROVE Ran
<1>1. /\ compiled' = compiled /\ status' = status /\ stack' = stack
      /\ captures' = captures /\ cells' = cells /\ classes' = classes /\ instances' = instances /\ globals' = globals
  BY DEF Jump, objects, captures
<1>2. Grows
  BY <1>1, GrowsSame
<1>3. PICK op, ip : op \in Jumps /\ Execute(op) /\ At(ip) /\ (ip = Instr.x \/ (ip = Frame.ip + 1 /\ op = "Jump_If_False"))
  <2>1. CASE Execute("Jump") /\ At(Instr.x)
    <3>1. PICK op, ip : op = "Jump" /\ ip = Instr.x
      OBVIOUS
    <3>2. op \in Jumps /\ Execute(op) /\ At(ip)
      BY <2>1, <3>1 DEF Jumps
    <3> QED
      BY <3>1, <3>2
  <2>2. CASE Execute("Loop") /\ At(Instr.x)
    <3>1. PICK op, ip : op = "Loop" /\ ip = Instr.x
      OBVIOUS
    <3>2. op \in Jumps /\ Execute(op) /\ At(ip)
      BY <2>2, <3>1 DEF Jumps
    <3> QED
      BY <3>1, <3>2
  <2>3. CASE Execute("Jump_If_False") /\ \E i \in {Instr.x, Frame.ip + 1} : At(i)
    BY <2>3 DEF Jumps
  <2> QED
    BY <2>1, <2>2, <2>3 DEF Jump
<1>4. Lands(ip)
  <2>1. CASE ip = Instr.x
    BY <1>3, <2>1, TargetLands
  <2>2. CASE ip = Frame.ip + 1 /\ op = "Jump_If_False"
    BY <1>3, <2>2, NextIs DEF Lands
  <2> QED
    BY <1>3, <2>1, <2>2
<1>5. FramesOK'
  BY <1>1, <1>2, <1>3, <1>4, FramesAt
<1>6. (\A v \in vs : ValueOK(v, vs)') /\ ClassesOK' /\ InstancesOK(vs)' /\ CellsOK(vs)' /\ GlobalsOK(vs)' /\ StackOK(vs)'
  BY <1>1, <1>2, ObjectsStay
<1>7. ValuesOK(vs)'
  BY <1>6 DEF ValuesOK
<1>8. status' = "running"
  BY <1>1, <1>3 DEF Execute
<1> QED
  BY <1>1, <1>5, <1>6, <1>7, <1>8, RanIs DEF Outcomes

LEMMA StopsRan == ASSUME CompiledOK(compiled), NEW vs, MachineAt(vs), GoesAstray \/ Asserts PROVE Ran
<1>1. PICK how \in {"undefined", "aborted"} : Stop(how)
  BY DEF GoesAstray, Asserts
<1> QED
  BY <1>1, StopRan

-----------------------------------------------------------------------------
(* Calls.                                                                  *)

(* A frame that goes on behind the call, and the frame of the call.        *)
LEMMA CallIs_ ==
  ASSUME CompiledOK(compiled), NEW vs, MachineAt(vs), NEW op, Execute(op), op # "Push_Closure", Grows, compiled' = compiled,
         Len(frames) # MaxFrames, NEW callee, ClosureOK(callee), NEW start \in 1..StackSize, NEW ip, ip = Frame.ip + 1,
         frames' = Append([frames EXCEPT ![Len(frames)].ip = ip],
                          [function |-> callee.function, ip |-> 1, start |-> start, cells |-> callee.cells])
  PROVE  FramesOK'
<1>1. PICK s, n, f, g, c, u, t :
        /\ s = frames /\ n = Len(frames) /\ f = Frame
        /\ g = [function |-> f.function, ip |-> ip, start |-> f.start, cells |-> f.cells]
        /\ c = [function |-> callee.function, ip |-> 1, start |-> start, cells |-> callee.cells]
        /\ u = [frames EXCEPT ![Len(frames)].ip = ip] /\ t = Append(u, c)
  OBVIOUS
<1>2. frames' = t
  BY <1>1
<1>3. IsSeq(s) /\ n \in Nat /\ n # 0 /\ Len(s) = n /\ f = s[n] /\ IsFrame(f) /\ ClosureOK(f) /\ f.start \in 1..StackSize
  BY <1>1, FrameIs, MachineIs
<1>4. [f EXCEPT !.ip = ip] = g
  BY <1>1, <1>3 DEF IsFrame
<1>5. u = [s EXCEPT ![n] = [s[n] EXCEPT !.ip = ip]]
  BY <1>1
<1>6. u = Updated(s, n, g)
  BY <1>3, <1>4, <1>5, Zenon DEF Updated
<1>7. IsSeq(u) /\ Len(u) = n /\ \A j \in 1..n : u[j] = IF j = n THEN g ELSE s[j]
  BY <1>3, <1>6, UpdateIs
<1>8. IsSeq(t) /\ Len(t) = n + 1 /\ (\A j \in 1..n : t[j] = u[j]) /\ t[n + 1] = c
  BY <1>1, <1>7, AppendIs
<1>9. IsFrame(g) /\ g.start \in 1..StackSize /\ ClosureOK(g)'
  <2>1. ClosureOK(g)
    BY <1>1, <1>3 DEF ClosureOK
  <2>2. ClosureOK(g)'
    BY <2>1, ClosuresStay
  <2> QED
    BY <1>1, <1>3, <2>2 DEF IsFrame
<1>10. IsFrame(c) /\ c.start \in 1..StackSize /\ ClosureOK(c)'
  <2>1. ClosureOK(c)
    BY <1>1 DEF ClosureOK
  <2>2. ClosureOK(c)'
    BY <2>1, ClosuresStay
  <2> QED
    BY <1>1, <2>2 DEF IsFrame
<1>11. ~AtMethod(g)'
  <2>1. ~(ip \in DOMAIN Code /\ Code[ip].op = "Method")
    BY NextIs
  <2> QED
    BY <1>1, <2>1 DEF AtMethod, Code
<1>12. ~AtMethod(c)'
  <2>1. c.ip = 1 /\ c.function \in 1..Len(compiled)
    BY <1>1 DEF ClosureOK
  <2>2. PICK code : code = compiled[c.function].code
    OBVIOUS
  <2>3. CodeOK(code, Len(compiled[c.function].outsiders), compiled)
    BY <2>1, <2>2 DEF CompiledOK
  <2>4. ~(1 \in DOMAIN code /\ code[1].op = "Method")
    BY <2>3 DEF CodeOK, IsSeq
  <2> QED
    BY <2>1, <2>2, <2>4 DEF AtMethod
<1>13. ASSUME NEW i \in 1..n-1
       PROVE  IsFrame(t[i]) /\ ClosureOK(t[i])' /\ t[i].start \in 1..StackSize /\ ~AtMethod(t[i])'
  <2>1. PICK h : h = s[i]
    OBVIOUS
  <2>2. t[i] = h
    <3>1. i \in 1..n /\ i # n
      BY <1>3
    <3>2. t[i] = u[i] /\ u[i] = s[i]
      BY <1>7, <1>8, <3>1
    <3> QED
      BY <2>1, <3>2
  <2>3. i \in 1..Len(frames)
    BY <1>1, <1>3
  <2>4. IsFrame(h) /\ ClosureOK(h) /\ h.start \in 1..StackSize /\ ~AtMethod(h)
    BY <1>1, <2>1, <2>3 DEF MachineAt, FramesOK
  <2>5. ClosureOK(h)'
    BY <2>4, ClosuresStay
  <2>6. ~AtMethod(h)'
    BY <2>4 DEF AtMethod
  <2> QED
    BY <2>2, <2>4, <2>5, <2>6
<1>14. t[n] = g /\ t[n + 1] = c
  BY <1>3, <1>7, <1>8
<1>15. \A i \in 1..n+1 : i \in 1..n-1 \/ i = n \/ i = n + 1
  BY <1>3
<1>16. \A i \in 1..Len(t) : IsFrame(t[i]) /\ ClosureOK(t[i])' /\ t[i].start \in 1..StackSize
  BY <1>8, <1>9, <1>10, <1>13, <1>14, <1>15
<1>17. \A i \in 1..Len(t) : ~AtMethod(t[i])'
  BY <1>8, <1>11, <1>12, <1>13, <1>14, <1>15
<1>18. Len(t) # 0 /\ Len(t) \in 1..Len(t) /\ \A i \in 1..Len(t)-1 : i \in 1..Len(t)
  BY <1>3, <1>8
<1>19. Len(t) <= MaxFrames
  <2>1. n <= MaxFrames /\ n # MaxFrames /\ MaxFrames \in Nat
    BY <1>1, MachineAssumption DEF MachineAt, FramesOK
  <2> QED
    BY <1>3, <1>8, <2>1
<1> QED
  BY <1>2, <1>8, <1>16, <1>17, <1>18, <1>19 DEF FramesOK

-----------------------------------------------------------------------------
(* Instances `all`, the last of which may be new, as value v.              *)
WithInstances(vs, v, ws, all) ==
  /\ ws = vs \cup {v} /\ NoFewer(instances, all)
  /\ v \in vs \/ (v.kind = "instance" /\ v.instance \in 1..Len(all))
  /\ IsSeq(all) /\ \A i \in 1..Len(all) : InstanceOK(all[i], ws)

LEMMA SameInstances == ASSUME NEW vs, MachineAt(vs), NEW v \in vs PROVE WithInstances(vs, v, vs, instances)
  BY MachineIs DEF WithInstances, NoFewer, MachineAt, InstancesOK

LEMMA InstancesStay ==
  ASSUME CompiledOK(compiled), NEW vs, MachineAt(vs), NEW v, NEW ws, NEW all, WithInstances(vs, v, ws, all),
         instances' = all, UNCHANGED <<compiled, captures, classes, globals>>
  PROVE  Grows /\ ValuesOK(ws)' /\ ClassesOK' /\ CellsOK(ws)' /\ InstancesOK(ws)' /\ GlobalsOK(ws)'
<1>1. ws = vs \cup {v} /\ NoFewer(instances, all) /\ IsSeq(all) /\ \A i \in 1..Len(all) : InstanceOK(all[i], ws)
  BY DEF WithInstances
<1>2. Grows
  <2>1. Len(compiled) \in Nat
    BY DEF CompiledOK, IsSeq
  <2>2. cells' = cells
    BY DEF captures
  <2> QED
    BY <1>1, <2>1, <2>2, MachineIs DEF Grows, Extends, NoFewer
<1>3. vs \subseteq ws
  BY <1>1
<1>4. (\A u \in vs : ValueOK(u, ws)') /\ ClassesOK' /\ CellsOK(ws)' /\ GlobalsOK(ws)'
  BY <1>2, <1>3, ObjectsStay
<1>5. v \notin vs => ValueOK(v, ws)'
  BY DEF WithInstances, ValueOK
<1>6. ValuesOK(ws)'
  BY <1>1, <1>4, <1>5 DEF ValuesOK
<1>7. InstancesOK(ws)'
  BY <1>1 DEF InstancesOK, InstanceOK
<1> QED
  BY <1>2, <1>4, <1>6, <1>7

LEMMA CallClosureRan ==
  ASSUME CompiledOK(compiled), NEW vs, MachineAt(vs), NEW op, Execute(op), op # "Push_Closure",
         NEW v, NEW ws, NEW all, WithInstances(vs, v, ws, all),
         NEW callee, ClosureOK(callee), NEW arguments \in {0, 1}, NEW s, SlotsOK(s, ws), arguments < Len(s),
         CallClosure(callee, arguments, s, all)
  PROVE  Ran
<1>1. PICK ps, start, ip, t :
        /\ ps = compiled[callee.function].parameters /\ start = Len(s) - arguments /\ ip = Frame.ip + 1
        /\ t = AsParameters(s, start, ps)
  OBVIOUS
<1>2. CASE RuntimeError
  BY <1>2, ErrorRan
<1>3. CASE /\ Len(frames) # MaxFrames /\ stack' = t /\ instances' = all /\ UNCHANGED <<compiled, status, captures, classes, globals>>
           /\ frames' = Append([frames EXCEPT ![Len(frames)].ip = frames[Len(frames)].ip + 1],
                               [function |-> callee.function, ip |-> 1, start |-> start, cells |-> callee.cells])
  <2>1. SlotsOK(t, ws)
    <3>1. t = AsParameters(s, start, ps)
      BY <1>1
    <3> QED
      BY <3>1, SlotsRename
  <2>2. Grows /\ ValuesOK(ws)' /\ ClassesOK' /\ CellsOK(ws)' /\ InstancesOK(ws)' /\ GlobalsOK(ws)'
    BY <1>3, InstancesStay
  <2>3. start \in 1..StackSize
    BY <1>1, MachineIs DEF SlotsOK, IsSeq
  <2>4. frames[Len(frames)].ip + 1 = ip
    BY <1>1, FrameIs
  <2>5. frames' = Append([frames EXCEPT ![Len(frames)].ip = ip],
                         [function |-> callee.function, ip |-> 1, start |-> start, cells |-> callee.cells])
    BY <1>3, <2>4
  <2>6. FramesOK'
    <3>1. compiled' = compiled /\ Len(frames) # MaxFrames
      BY <1>3
    <3> QED
      BY <1>1, <2>2, <2>3, <2>5, <3>1, CallIs_
  <2>7. StackOK(ws)'
    BY <1>3, <2>1 DEF StackOK, SlotsOK
  <2>8. status' = "running" /\ compiled' = compiled
    BY <1>3, FrameIs
  <2> QED
    BY <2>2, <2>6, <2>7, <2>8, RanIs DEF Outcomes
<1> QED
  <2>1. [frames EXCEPT ![Len(frames)].ip = @ + 1] = [frames EXCEPT ![Len(frames)].ip = frames[Len(frames)].ip + 1]
    OBVIOUS
  <2> QED
    BY <1>1, <1>2, <1>3, <2>1 DEF CallClosure, AsParameters

LEMMA CallNativeRan ==
  ASSUME CompiledOK(compiled), NEW vs, MachineAt(vs), NEW op, Execute(op), op # "Push_Closure", Len(stack) # 0,
         NEW arguments, CallNative(arguments)
  PROVE  Ran
<1>1. CASE RuntimeError
  BY <1>1, ErrorRan
<1>2. CASE stack' = Append(Front(stack), Slot(Instr.as, Plain)) /\ Advance /\ UNCHANGED objects
  <2>1. PICK v, ws, as, s, t : v = Plain /\ ws = vs \cup {v} /\ as = Instr.as /\ s = Front(stack) /\ t = Append(s, Slot(as, v))
    OBVIOUS
  <2>2. SlotsOK(stack, ws)
    BY <2>1, SlotsAre, SlotsMore
  <2>3. SlotsOK(s, ws) /\ Len(s) = Len(stack) - 1
    BY <2>1, <2>2, SlotsFront
  <2>4. Len(s) < StackSize
    BY <2>3, MachineIs
  <2>5. SlotsOK(t, ws)
    BY <2>1, <2>3, <2>4, SlotsPush
  <2>6. SlotsOK(stack', ws)
    BY <1>2, <2>1, <2>5
  <2>7. ValueOK(v, ws)
    BY <2>1, PlainIs
  <2> QED
    BY <1>2, <2>1, <2>6, <2>7, PushRan
<1> QED
  BY <1>1, <1>2 DEF CallNative

LEMMA MethodsAre ==
  ASSUME NEW vs, MachineAt(vs), NEW class \in 1..Len(classes), NEW m \in DOMAIN classes[class].methods
  PROVE  ClosureOK(classes[class].methods[m])
  BY DEF MachineAt, ClassesOK, ClassOK

LEMMA ConstructRan ==
  ASSUME CompiledOK(compiled), NEW vs, MachineAt(vs), NEW op, Execute(op), op # "Push_Closure",
         NEW class \in 1..Len(classes), NEW arguments \in {0, 1}, arguments < Len(stack), Construct(class, arguments)
  PROVE  Ran
<1>1. PICK v, ws, s, new, all, n, i, as :
        /\ n = Len(instances) + 1 /\ v = Instance(n) /\ ws = vs \cup {v} /\ as = Instr.as
        /\ i = Len(stack) - arguments /\ s = Updated(stack, i, Slot(as, v))
        /\ new = [class |-> class, fields |-> <<>>] /\ all = Append(instances, new)
  OBVIOUS
<1>2. [stack EXCEPT ![Len(stack) - arguments] = Slot(Instr.as, Instance(Len(instances) + 1))] = s
  BY <1>1, Zenon DEF Updated
<1>3. SlotsOK(s, ws) /\ Len(s) = Len(stack)
  <2>1. SlotsOK(stack, ws)
    BY <1>1, SlotsAre, SlotsMore
  <2>2. i \in 1..Len(stack) /\ v \in ws
    BY <1>1, MachineIs
  <2>3. PICK y : y = Slot(as, v)
    OBVIOUS
  <2>4. SlotOK(y, ws)
    BY <2>2, <2>3, SlotIs DEF SlotOK
  <2>5. s = Updated(stack, i, y)
    BY <1>1, <2>3
  <2>6. i \in 1..Len(stack)
    BY <2>2
  <2> QED
    BY <2>1, <2>4, <2>5, <2>6, SlotsReplace
<1>4. v.kind = "instance" /\ v.instance = n
  BY <1>1 DEF Instance
<1>5. IsSeq(all) /\ Len(all) = n /\ (\A k \in 1..Len(instances) : all[k] = instances[k]) /\ all[n] = new
      /\ n = Len(instances) + 1 /\ Len(instances) \in Nat
  BY <1>1, AppendIs, MachineIs
<1>6. WithInstances(vs, v, ws, all)
  <2>1. NoFewer(instances, all)
    BY <1>5 DEF NoFewer
  <2>2. \A k \in 1..Len(instances) : InstanceOK(instances[k], ws)
    BY <1>1 DEF MachineAt, InstancesOK, InstanceOK
  <2>3. InstanceOK(new, ws)
    <3>1. DOMAIN <<>> = {}
      OBVIOUS
    <3> QED
      BY <1>1, <3>1 DEF InstanceOK, IsInstance
  <2>4. \A k \in 1..n : InstanceOK(all[k], ws)
    <3>1. \A k \in 1..n : k \in 1..Len(instances) \/ k = n
      BY <1>5
    <3> QED
      BY <1>5, <2>2, <2>3, <3>1
  <2>5. v.instance \in 1..Len(all)
    BY <1>4, <1>5
  <2> QED
    BY <1>1, <1>4, <1>5, <2>1, <2>4, <2>5 DEF WithInstances
<1>7. \/ /\ Konstrutor \in DOMAIN classes[class].methods
         /\ CallClosure(classes[class].methods[Konstrutor], arguments, s, all)
      \/ RuntimeError
      \/ stack' = s /\ instances' = all /\ Advance /\ UNCHANGED <<captures, classes, globals>>
  BY <1>1, <1>2 DEF Construct
<1>8. CASE /\ Konstrutor \in DOMAIN classes[class].methods
           /\ CallClosure(classes[class].methods[Konstrutor], arguments, s, all)
  <2>1. PICK callee : callee = classes[class].methods[Konstrutor]
    OBVIOUS
  <2>2. ClosureOK(callee) /\ CallClosure(callee, arguments, s, all)
    BY <1>8, <2>1, MethodsAre
  <2>3. arguments < Len(s)
    BY <1>3
  <2> QED
    BY <1>3, <1>6, <2>2, <2>3, CallClosureRan
<1>9. CASE stack' = s /\ instances' = all /\ Advance /\ UNCHANGED <<captures, classes, globals>>
  <2>1. compiled' = compiled /\ UNCHANGED <<captures, classes, globals>>
    BY <1>9 DEF Advance
  <2>2. Grows /\ ValuesOK(ws)' /\ ClassesOK' /\ CellsOK(ws)' /\ InstancesOK(ws)' /\ GlobalsOK(ws)'
    BY <1>6, <1>9, <2>1, InstancesStay
  <2>3. FramesOK' /\ status' = "running"
    BY <1>9, <2>2, AdvanceIs
  <2>4. StackOK(ws)'
    BY <1>3, <1>9 DEF StackOK, SlotsOK
  <2> QED
    BY <2>1, <2>2, <2>3, <2>4, RanIs DEF Outcomes
<1> QED
  BY <1>7, <1>8, <1>9, ErrorRan

-----------------------------------------------------------------------------
LEMMA CallValueRan ==
  ASSUME CompiledOK(compiled), NEW vs, MachineAt(vs), NEW op, Execute(op), op # "Push_Closure",
         NEW callee \in vs, NEW arguments \in {0, 1}, NEW s, SlotsOK(s, vs), Len(s) = Len(stack), arguments < Len(s),
         CallValue(callee, arguments, s)
  PROVE  Ran
<1>1. ValueOK(callee, vs) /\ Len(stack) # 0
  BY MachineIs DEF MachineAt, ValuesOK
<1>2. WithInstances(vs, callee, vs, instances)
  BY SameInstances
<1>3. CASE callee.kind = "closure"
  <2>1. ClosureOK(callee) /\ CallClosure(callee, arguments, s, instances)
    BY <1>1, <1>3 DEF ValueOK, CallValue
  <2> QED
    BY <1>2, <2>1, CallClosureRan
<1>4. CASE callee.kind = "native"
  BY <1>1, <1>4, CallNativeRan DEF CallValue
<1>5. CASE callee.kind = "class"
  <2>1. PICK class : class = callee.class
    OBVIOUS
  <2>2. class \in 1..Len(classes) /\ Construct(class, arguments)
    BY <1>1, <1>5, <2>1 DEF ValueOK, CallValue
  <2> QED
    BY <2>2, ConstructRan
<1>6. CASE callee.kind = "method"
  <2>1. PICK c, i, v, t : c = callee.closure /\ i = Len(s) - arguments /\ v = callee.instance /\ t = Stored(s, i, v)
    OBVIOUS
  <2>2. ClosureOK(c) /\ v \in vs
    BY <1>1, <1>6, <2>1 DEF ValueOK
  <2>3. CallClosure(c, arguments, t, instances)
    <3>1. WithReceiver(s, arguments, v) = t
      BY <2>1, Zenon DEF WithReceiver, Stored
    <3>2. CallClosure(c, arguments, WithReceiver(s, arguments, v), instances)
      BY <1>6, <2>1 DEF CallValue
    <3> QED
      BY <3>1, <3>2
  <2>4. i \in 1..Len(s)
    BY <2>1 DEF SlotsOK, IsSeq
  <2>5. SlotsOK(t, vs) /\ Len(t) = Len(s)
    <3>1. t = Stored(s, i, v)
      BY <2>1
    <3> QED
      BY <2>2, <2>4, <3>1, SlotsStore
  <2>6. arguments < Len(t)
    BY <2>5
  <2> QED
    BY <1>2, <2>2, <2>3, <2>5, <2>6, CallClosureRan
<1>7. CASE callee.kind \in {"plain", "instance"}
  BY <1>7, ErrorRan DEF CallValue
<1> QED
  BY <1>1, <1>3, <1>4, <1>5, <1>6, <1>7 DEF ValueOK

LEMMA CallFunctionRan == ASSUME CompiledOK(compiled), NEW vs, MachineAt(vs), CallFunction \/ CallClass PROVE Ran
<1>1. PICK n, callee, s : n = Instr.x /\ callee = Peek(Instr.x).value /\ s = stack
  OBVIOUS
<1>2. PICK op \in {"Call_Function", "Call_Class"} :
        Execute(op) /\ (Stop("undefined") \/ RuntimeError \/ CallValue(callee, n, s))
  BY <1>1 DEF CallFunction, CallClass
<1>3. n \in {0, 1} /\ n < Len(stack) /\ Len(stack) \in Nat
  BY <1>1, <1>2, StackIs, MachineIs
<1>4. callee \in vs /\ SlotsOK(s, vs)
  <2>1. Len(stack) - n \in 1..Len(stack)
    BY <1>3
  <2> QED
    BY <1>1, <2>1, SlotsAre DEF Peek
<1>5. CASE Stop("undefined")
  BY <1>5, StopRan
<1>6. CASE CallValue(callee, n, s)
  <2>1. n < Len(s) /\ Len(s) = Len(stack)
    BY <1>1, <1>3
  <2> QED
    BY <1>2, <1>3, <1>4, <1>6, <2>1, CallValueRan
<1> QED
  BY <1>2, <1>5, <1>6, ErrorRan

LEMMA CallFromClassRan ==
  ASSUME CompiledOK(compiled), NEW vs, MachineAt(vs), NEW op, Execute(op), op # "Push_Closure",
         NEW v \in vs, NEW class \in 1..Len(classes), NEW m, NEW s, SlotsOK(s, vs), Len(s) # 0, CallFromClass(class, m, s)
  PROVE  Ran
<1>1. WithInstances(vs, v, vs, instances)
  BY SameInstances
<1>2. CASE m \in DOMAIN classes[class].methods
  <2>1. PICK c : c = classes[class].methods[m]
    OBVIOUS
  <2>2. ClosureOK(c) /\ CallClosure(c, 0, s, instances)
    BY <1>2, <2>1, MethodsAre DEF CallFromClass
  <2>3. 0 < Len(s) /\ 0 \in {0, 1}
    BY DEF SlotsOK, IsSeq
  <2> QED
    BY <1>1, <2>2, <2>3, CallClosureRan
<1>3. CASE m \notin DOMAIN classes[class].methods
  BY <1>3, ErrorRan DEF CallFromClass
<1> QED
  BY <1>2, <1>3

(* The instance on top, its class and its fields.                          *)
LEMMA InstanceIs ==
  ASSUME NEW vs, MachineAt(vs), NEW v \in vs, v.kind = "instance"
  PROVE  /\ v.instance \in 1..Len(instances) /\ instances[v.instance].class \in 1..Len(classes)
         /\ IsInstance(instances[v.instance])
         /\ \A m \in DOMAIN instances[v.instance].fields : instances[v.instance].fields[m] \in vs
<1>1. v.instance \in 1..Len(instances)
  BY DEF MachineAt, ValuesOK, ValueOK
<1> QED
  BY <1>1 DEF MachineAt, InstancesOK, InstanceOK

LEMMA CallMethodRan == ASSUME CompiledOK(compiled), NEW vs, MachineAt(vs), CallMethod PROVE Ran
<1>1. PICK v, m, op, o : v = Top.value /\ m = Instr.x /\ op = "Call_Method" /\ o = instances[Top.value.instance]
  OBVIOUS
<1>2. /\ Execute(op)
      /\ IF v.kind # "instance" THEN RuntimeError
         ELSE IF m \in DOMAIN o.fields
              THEN CallValue(o.fields[m], 0, Stored(stack, Len(stack), o.fields[m]))
              ELSE CallFromClass(o.class, m, stack)
  BY <1>1 DEF CallMethod, Stored
<1>3. v \in vs /\ SlotsOK(stack, vs) /\ Len(stack) \in 1..Len(stack) /\ Len(stack) # 0
  BY <1>1, <1>2, SlotsAre, StackIs, MachineIs
<1>4. CASE v.kind = "instance" /\ m \in DOMAIN o.fields
  <2>1. PICK w, s : w = o.fields[m] /\ s = Stored(stack, Len(stack), w)
    OBVIOUS
  <2>2. CallValue(w, 0, s)
    BY <1>2, <1>4, <2>1
  <2>3. w \in vs
    BY <1>1, <1>3, <1>4, <2>1, InstanceIs
  <2>4. SlotsOK(s, vs) /\ Len(s) = Len(stack)
    BY <1>3, <2>1, <2>3, SlotsStore
  <2>5. 0 < Len(s) /\ 0 \in {0, 1}
    BY <1>3, <2>4
  <2> QED
    BY <1>1, <1>2, <2>2, <2>3, <2>4, <2>5, CallValueRan
<1>5. CASE v.kind = "instance" /\ m \notin DOMAIN o.fields
  <2>1. PICK c, s : c = o.class /\ s = stack
    OBVIOUS
  <2>2. CallFromClass(c, m, s)
    BY <1>2, <1>5, <2>1
  <2>3. c \in 1..Len(classes)
    BY <1>1, <1>3, <1>5, <2>1, InstanceIs
  <2>4. SlotsOK(s, vs) /\ Len(s) # 0
    BY <1>3, <2>1
  <2> QED
    BY <1>1, <1>2, <1>3, <2>2, <2>3, <2>4, CallFromClassRan
<1> QED
  BY <1>2, <1>4, <1>5, ErrorRan

(* A superclass is on top.                                                 *)
LEMMA SuperclassIs ==
  ASSUME CompiledOK(compiled), NEW vs, MachineAt(vs), NEW op \in {"Get_Super", "Call_Super_Method"}, Execute(op)
  PROVE  Top.value \in vs /\ Top.value.class \in 1..Len(classes) /\ Len(stack) >= 2 /\ Len(stack) \in Nat
<1>1. Len(stack) >= 2 /\ Len(stack) \in Nat
  BY StackIs, MachineIs
<1>2. Top.value.kind = "class"
  BY <1>1 DEF Execute, Astray, OnTrack
<1>3. Top.value \in vs
  BY <1>1, SlotsAre
<1> QED
  BY <1>1, <1>2, <1>3 DEF MachineAt, ValuesOK, ValueOK

LEMMA CallSuperMethodRan == ASSUME CompiledOK(compiled), NEW vs, MachineAt(vs), CallSuperMethod PROVE Ran
<1>1. PICK v, c, m, op, s : v = Top.value /\ c = Top.value.class /\ m = Instr.x /\ op = "Call_Super_Method" /\ s = Front(stack)
  OBVIOUS
<1>2. Execute(op) /\ CallFromClass(c, m, s)
  BY <1>1 DEF CallSuperMethod
<1>3. v \in vs /\ c \in 1..Len(classes) /\ Len(stack) >= 2 /\ Len(stack) \in Nat
  BY <1>1, <1>2, SuperclassIs
<1>4. SlotsOK(s, vs) /\ Len(s) = Len(stack) - 1
  <2>1. SlotsOK(stack, vs) /\ Len(stack) # 0
    BY <1>3, SlotsAre
  <2>2. s = Front(stack)
    BY <1>1
  <2> QED
    BY <2>1, <2>2, SlotsFront
<1>5. Len(s) # 0
  BY <1>3, <1>4
<1> QED
  BY <1>1, <1>2, <1>3, <1>4, <1>5, CallFromClassRan

-----------------------------------------------------------------------------
(* Closures.                                                               *)

(* What is known once k variables have been captured.                      *)
IsCapture(c) == c = [cells |-> c.cells, list |-> c.list, ordered |-> c.ordered, captured |-> c.captured]
CaptureOK(k, c, us) ==
  /\ IsCapture(c) /\ NoFewer(cells, c.cells) /\ IsSeq(c.cells) /\ ListOK(c.cells, c.list, c.ordered)
  /\ \A i \in 1..Len(c.cells) : CellOK(c.cells[i], us)
  /\ IsSeq(c.captured) /\ Len(c.captured) = k /\ \A i \in 1..k : c.captured[i] \in 1..Len(c.cells)

LEMMA PlacesAre ==
  ASSUME CompiledOK(compiled), NEW vs, MachineAt(vs), NEW op, Execute(op), NEW os, OutsidersOK(os)
  PROVE  \A i \in 1..Len(os) : os[i].location = "Stack" => Place(os[i].index) \in 1..StackSize+MaxLocals-1
<1>1. Frame.start \in 1..StackSize /\ StackSize \in Nat /\ MaxLocals \in Nat /\ MaxLocals # 0
  BY FrameIs, MachineIs
<1> QED
  BY <1>1 DEF OutsidersOK, Place

(* A cell enters the list.                                                 *)
LEMMA WithNewCellIs ==
  ASSUME NEW l, IsSeq(l), NEW stop \in 0..Len(l), NEW S, (\A i \in 1..Len(l) : l[i] \in S), NEW new \in S,
         NEW r, r = WithNewCell(l, stop, new)
  PROVE  IsSeq(r) /\ \A i \in 1..Len(r) : r[i] \in S
<1>1. l \in Seq(S)
  <2>1. PICK A : A = {l[i] : i \in 1..Len(l)}
    OBVIOUS
  <2>2. l \in Seq(A)
    BY <2>1, SeqIs
  <2>3. A \subseteq S
    BY <2>1
  <2> QED
    BY <2>2, <2>3
<1>2. Len(l) \in Nat /\ stop \in Nat /\ stop <= Len(l)
  BY DEF IsSeq
<1>3. PICK one : one = <<new>>
  OBVIOUS
<1>4. one \in Seq(S)
  BY <1>3
<1>5. r \in Seq(S) => \A i \in 1..Len(r) : r[i] \in S
  OBVIOUS
<1>6. r \in Seq(S)
  <2>1. CASE stop = Len(l)
    <3>1. r = one \o l
      BY <1>3, <2>1 DEF WithNewCell
    <3> QED
      BY <1>1, <1>4, <3>1
  <2>2. CASE stop # Len(l)
    <3>1. PICK before, after : before = SubSeq(l, 1, (stop + 2) - 1) /\ after = SubSeq(l, stop + 2, Len(l))
      OBVIOUS
    <3>2. r = InsertAt(l, stop + 2, new)
      BY <2>2 DEF WithNewCell
    <3>3. InsertAt(l, stop + 2, new) = SubSeq(l, 1, (stop + 2) - 1) \o <<new>> \o SubSeq(l, stop + 2, Len(l))
      BY DEF InsertAt
    <3>4. r = before \o one \o after
      BY <1>3, <3>1, <3>2, <3>3
    <3>5. before \in Seq(S) /\ after \in Seq(S)
      BY <1>1, <1>2, <2>2, <3>1
    <3> QED
      BY <1>4, <3>4, <3>5
  <2> QED
    BY <2>1, <2>2
<1> QED
  BY <1>5, <1>6, SeqIs

LEMMA WalkIs ==
  ASSUME NEW c, IsSeq(c.list), NEW place
  PROVE  Walk(c, place) \in 0..Len(c.list)
<1>1. PICK n, S : n = Len(c.list) /\ S = {i \in DOMAIN c.list : c.cells[c.list[i]].at <= place} \cup {Len(c.list)}
  OBVIOUS
<1>2. n \in Nat /\ DOMAIN c.list = 1..n
  BY <1>1 DEF IsSeq
<1>3. S \subseteq 0..n /\ S # {} /\ S \subseteq Nat
  BY <1>1, <1>2
<1>4. Min(S) \in S
  BY <1>3, MinOfNaturals
<1>5. Walk(c, place) = Min(S)
  BY <1>1, Zenon DEF Walk
<1> QED
  BY <1>1, <1>3, <1>4, <1>5

(* One more variable is captured, whose cell is there ...                  *)
LEMMA CapturedMore ==
  ASSUME NEW k \in Nat, NEW c, NEW us, CaptureOK(k, c, us), NEW x \in 1..Len(c.cells),
         NEW d, d = [c EXCEPT !.captured = Append(@, x)]
  PROVE  CaptureOK(k + 1, d, us)
<1>1. PICK cs, l, o, u, v : cs = c.cells /\ l = c.list /\ o = c.ordered /\ u = c.captured /\ v = Append(c.captured, x)
  OBVIOUS
<1>2. c = [cells |-> cs, list |-> l, ordered |-> o, captured |-> u]
  BY <1>1 DEF CaptureOK, IsCapture
<1>3. d = [cells |-> cs, list |-> l, ordered |-> o, captured |-> v]
  BY <1>1, <1>2
<1>4. d.cells = cs /\ d.list = l /\ d.ordered = o /\ d.captured = v
  BY <1>3
<1>5. IsSeq(u) /\ Len(u) = k /\ \A i \in 1..k : u[i] \in 1..Len(cs)
  BY <1>1 DEF CaptureOK
<1>6. IsSeq(v) /\ Len(v) = k + 1 /\ (\A i \in 1..k : v[i] = u[i]) /\ v[k + 1] = x
  BY <1>1, <1>5, AppendIs
<1>7. \A i \in 1..k+1 : i \in 1..k \/ i = k + 1
  OBVIOUS
<1>8. \A i \in 1..k+1 : v[i] \in 1..Len(cs)
  BY <1>1, <1>5, <1>6, <1>7
<1>9. NoFewer(cells, cs) /\ IsSeq(cs) /\ ListOK(cs, l, o) /\ \A i \in 1..Len(cs) : CellOK(cs[i], us)
  BY <1>1 DEF CaptureOK
<1> QED
  BY <1>3, <1>4, <1>6, <1>8, <1>9 DEF CaptureOK, IsCapture

(* ... or gets a new one.                                                  *)
LEMMA CapturedNew ==
  ASSUME NEW k \in Nat, NEW c, NEW us, CaptureOK(k, c, us), Plain \in us, NEW place \in 1..StackSize+MaxLocals-1,
         NEW stop \in 0..Len(c.list), NEW d, d = NewHeapValue(c, place, stop)
  PROVE  CaptureOK(k + 1, d, us)
<1>1. PICK cs, l, o, u, new, cell, all, list, v :
        /\ cs = c.cells /\ l = c.list /\ o = c.ordered /\ u = c.captured /\ new = Len(c.cells) + 1
        /\ cell = [at |-> place, slot |-> Slot(VariableAt(place), Plain)]
        /\ all = Append(cs, cell) /\ list = WithNewCell(l, stop, new) /\ v = Append(u, new)
  OBVIOUS
<1>2. PICK p : p = (o /\ InOrder(all, list))
  OBVIOUS
<1>3. d = [cells |-> all, list |-> list, ordered |-> p, captured |-> v]
  BY <1>1, <1>2, Zenon DEF NewHeapValue
<1>4. d.cells = all /\ d.list = list /\ d.ordered = p /\ d.captured = v
  BY <1>3
<1>5. /\ NoFewer(cells, cs) /\ IsSeq(cs) /\ ListOK(cs, l, o) /\ \A i \in 1..Len(cs) : CellOK(cs[i], us)
      /\ IsSeq(u) /\ Len(u) = k /\ \A i \in 1..k : u[i] \in 1..Len(cs)
  BY <1>1 DEF CaptureOK
<1>6. Len(cs) \in Nat /\ new = Len(cs) + 1
  BY <1>1, <1>5 DEF IsSeq
<1>7. IsSeq(all) /\ Len(all) = new /\ (\A i \in 1..Len(cs) : all[i] = cs[i]) /\ all[new] = cell
  BY <1>1, <1>5, AppendIs
<1>8. CellOK(cell, us)
  <2>1. PICK slot : slot = Slot(VariableAt(place), Plain)
    OBVIOUS
  <2>2. SlotOK(slot, us)
    BY <2>1, SlotIs DEF SlotOK
  <2>3. cell = [at |-> place, slot |-> slot]
    BY <1>1, <2>1
  <2>4. place \in 0..StackSize+MaxLocals-1
    OBVIOUS
  <2> QED
    BY <2>2, <2>3, <2>4 DEF CellOK, IsCell
<1>9. \A i \in 1..Len(all) : CellOK(all[i], us)
  <2>1. \A i \in 1..Len(all) : i \in 1..Len(cs) \/ i = new
    BY <1>6, <1>7
  <2> QED
    BY <1>5, <1>7, <1>8, <2>1
<1>10. NoFewer(cells, all)
  BY <1>5, <1>6, <1>7 DEF NoFewer
<1>11. ListOK(all, list, p)
  <2>1. IsSeq(l) /\ \A i \in 1..Len(l) : l[i] \in 1..new
    BY <1>5, <1>6 DEF ListOK
  <2>2. new \in 1..new /\ stop \in 0..Len(l)
    BY <1>1, <1>6
  <2>3. IsSeq(list) /\ \A i \in 1..Len(list) : list[i] \in 1..new
    BY <1>1, <2>1, <2>2, WithNewCellIs
  <2>4. p \in BOOLEAN
    BY <1>2
  <2> QED
    BY <1>7, <2>3, <2>4 DEF ListOK
<1>12. IsSeq(v) /\ Len(v) = k + 1 /\ (\A i \in 1..k : v[i] = u[i]) /\ v[k + 1] = new
  BY <1>1, <1>5, AppendIs
<1>13. \A i \in 1..k+1 : v[i] \in 1..Len(all)
  <2>1. \A i \in 1..k+1 : i \in 1..k \/ i = k + 1
    OBVIOUS
  <2>2. \A i \in 1..Len(cs) : i \in 1..Len(all)
    BY <1>6, <1>7
  <2>3. new \in 1..Len(all)
    BY <1>6, <1>7
  <2> QED
    BY <1>5, <1>12, <2>1, <2>2, <2>3
<1> QED
  BY <1>3, <1>4, <1>7, <1>9, <1>10, <1>11, <1>12, <1>13 DEF CaptureOK, IsCapture

LEMMA HeapValueIs ==
  ASSUME NEW k \in Nat, NEW c, NEW us, CaptureOK(k, c, us), Plain \in us, NEW place \in 1..StackSize+MaxLocals-1,
         NEW d, d = HeapValue(c, place)
  PROVE  CaptureOK(k + 1, d, us)
<1>1. PICK stop : stop = Walk(c, place)
  OBVIOUS
<1>2. IsSeq(c.list) /\ \A i \in 1..Len(c.list) : c.list[i] \in 1..Len(c.cells)
  BY DEF CaptureOK, ListOK
<1>3. stop \in 0..Len(c.list) /\ Len(c.list) \in Nat
  BY <1>1, <1>2, WalkIs DEF IsSeq
<1>4. CASE stop # 0 /\ c.cells[c.list[stop]].at = place
  <2>1. PICK x : x = c.list[stop]
    OBVIOUS
  <2>2. x \in 1..Len(c.cells)
    BY <1>2, <1>3, <1>4, <2>1
  <2>3. d = [c EXCEPT !.captured = Append(@, x)]
    BY <1>1, <1>4, <2>1 DEF HeapValue
  <2> QED
    BY <2>2, <2>3, CapturedMore
<1>5. CASE ~(stop # 0 /\ c.cells[c.list[stop]].at = place)
  <2>1. d = NewHeapValue(c, place, stop)
    BY <1>1, <1>5 DEF HeapValue
  <2> QED
    BY <1>3, <2>1, CapturedNew
<1> QED
  BY <1>4, <1>5

(* One after the other.                                                    *)
CapturesOK(os, n, us) ==
  /\ OutsidersOK(os) /\ FitIn(os, n) /\ n = Len(compiled[Frame.function].outsiders) /\ ClosureOK(Frame) /\ Plain \in us
  /\ \A i \in 1..Len(os) : os[i].location = "Stack" => Place(os[i].index) \in 1..StackSize+MaxLocals-1

LEMMA CaptureIs ==
  ASSUME CompiledOK(compiled), NEW os, NEW n, NEW us, CapturesOK(os, n, us), NEW i \in 1..Len(os),
         NEW c, CaptureOK(i - 1, c, us), NEW d, d = Capture(c, os[i])
  PROVE  CaptureOK(i, d, us)
<1>1. PICK k, o, j : k = i - 1 /\ o = os[i] /\ j = o.index
  OBVIOUS
<1>2. i \in Nat /\ k \in Nat /\ k + 1 = i /\ j \in Nat
  BY <1>1 DEF CapturesOK, OutsidersOK
<1>3. CaptureOK(k, c, us) /\ d = Capture(c, o)
  BY <1>1
<1>4. CASE o.location = "Stack"
  <2>1. PICK place : place = Place(j)
    OBVIOUS
  <2>2. place \in 1..StackSize+MaxLocals-1 /\ Plain \in us
    BY <1>1, <1>4, <2>1 DEF CapturesOK
  <2>3. d = HeapValue(c, place)
    BY <1>1, <1>3, <1>4, <2>1 DEF Capture
  <2>4. CaptureOK(k + 1, d, us)
    BY <1>2, <1>3, <2>2, <2>3, HeapValueIs
  <2> QED
    BY <1>2, <2>4
<1>5. CASE o.location # "Stack"
  <2>1. PICK x : x = Frame.cells[j + 1]
    OBVIOUS
  <2>2. j \in 0..n-1
    BY <1>1, <1>5 DEF CapturesOK, FitIn
  <2>3. n \in Nat /\ n = Len(compiled[Frame.function].outsiders)
    BY DEF CapturesOK, ClosureOK, CompiledOK, OutsidersOK, IsSeq
  <2>4. j + 1 \in 1..n
    BY <2>2, <2>3
  <2>5. x \in 1..Len(cells)
    BY <2>1, <2>3, <2>4 DEF CapturesOK, ClosureOK
  <2>6. x \in 1..Len(c.cells)
    BY <1>3, <2>5 DEF CaptureOK, NoFewer
  <2>7. d = [c EXCEPT !.captured = Append(@, x)]
    BY <1>1, <1>3, <1>5, <2>1 DEF Capture
  <2>8. CaptureOK(k + 1, d, us)
    BY <1>2, <1>3, <2>6, <2>7, CapturedMore
  <2> QED
    BY <1>2, <2>8
<1> QED
  BY <1>4, <1>5

NothingCaptured == [cells |-> cells, list |-> heap_values, ordered |-> ordered, captured |-> <<>>]
CapturingAt(os, g, i) == IF i = 0 THEN NothingCaptured ELSE Capture(g[i - 1], os[i])

(* The function that Capturing defines.                                    *)
LEMMA CapturingExists ==
  ASSUME NEW os, IsSeq(os)
  PROVE  \E g : Capturing(os) = g[Len(os)] /\ \A i \in 0..Len(os) : g[i] = CapturingAt(os, g, i)
<1>1. PICK l : l = Len(os)
  OBVIOUS
<1>2. l \in Nat
  BY <1>1 DEF IsSeq
<1> DEFINE Solves(g, m) == g = [i \in 0..m |-> CapturingAt(os, g, i)]
           Unsolved == {m \in Nat : ~ \E g : Solves(g, m)}
<1>3. Unsolved = {}
  <2>1. SUFFICES ASSUME Unsolved # {} PROVE FALSE
    OBVIOUS
  <2>2. PICK m \in Unsolved : \A k \in Unsolved : m <= k
    <3>1. Unsolved \subseteq Nat
      OBVIOUS
    <3> HIDE DEF Unsolved
    <3> QED
      BY <2>1, <3>1, MinOfNaturals
  <2>3. m \in Nat /\ m # 0 /\ ~ \E g : Solves(g, m)
    <3>1. m \in Nat /\ ~ \E g : Solves(g, m)
      OBVIOUS
    <3>2. \E g : Solves(g, 0)
      <4>1. PICK g : g = [i \in 0..0 |-> NothingCaptured]
        OBVIOUS
      <4>2. \A i \in 0..0 : CapturingAt(os, g, i) = NothingCaptured
        BY DEF CapturingAt
      <4>3. [i \in 0..0 |-> CapturingAt(os, g, i)] = [i \in 0..0 |-> NothingCaptured]
        BY <4>2
      <4> QED
        BY <4>1, <4>3
    <3> HIDE DEF Solves
    <3> QED
      BY <3>1, <3>2
  <2>4. PICK g : Solves(g, m - 1)
    <3>1. m - 1 \in Nat /\ ~(m <= m - 1)
      BY <2>3
    <3> QED
      BY <2>2, <3>1
  <2> DEFINE u == [i \in 0..m |-> CapturingAt(os, g, i)]
  <2>5. \A i \in 0..m-1 : u[i] = g[i]
    <3>1. \A i \in 0..m-1 : i \in 0..m /\ g[i] = CapturingAt(os, g, i)
      BY <2>3, <2>4
    <3> QED
      BY <3>1
  <2>6. \A i \in 0..m : i # 0 => i - 1 \in 0..m-1
    BY <2>3
  <2>7. \A i \in 0..m : CapturingAt(os, u, i) = CapturingAt(os, g, i)
    <3> HIDE DEF u
    <3> QED
      BY <2>5, <2>6 DEF CapturingAt
  <2>8. Solves(u, m)
    <3>1. [i \in 0..m |-> CapturingAt(os, u, i)] = [i \in 0..m |-> CapturingAt(os, g, i)]
      BY <2>7
    <3> QED
      BY <3>1
  <2> HIDE DEF Solves, u
  <2> QED
    BY <2>3, <2>8
<1>4. \E g : Solves(g, l)
  BY <1>2, <1>3
<1>5. Capturing(os) = (CHOOSE g : Solves(g, l))[l]
  BY <1>1 DEF Capturing, CapturingAt, NothingCaptured
<1>6. PICK g : Solves(g, l) /\ Capturing(os) = g[l]
  <2> HIDE DEF Solves
  <2> QED
    BY <1>4, <1>5
<1>7. \A i \in 0..l : g[i] = CapturingAt(os, g, i)
  BY <1>6
<1> QED
  BY <1>1, <1>6, <1>7

LEMMA CapturingIs ==
  ASSUME CompiledOK(compiled), NEW vs, MachineAt(vs), NEW os, NEW n, NEW us, CapturesOK(os, n, us), vs \subseteq us,
         NEW d, d = Capturing(os)
  PROVE  CaptureOK(Len(os), d, us)
<1>1. IsSeq(os) /\ Len(os) \in Nat
  BY DEF CapturesOK, OutsidersOK, IsSeq
<1>2. PICK g : d = g[Len(os)] /\ \A i \in 0..Len(os) : g[i] = CapturingAt(os, g, i)
  BY <1>1, CapturingExists
<1>3. CaptureOK(0, g[0], us)
  <2>1. PICK c, e : c = NothingCaptured /\ e = <<>>
    OBVIOUS
  <2>2. g[0] = c
    BY <1>1, <1>2, <2>1 DEF CapturingAt
  <2>3. c = [cells |-> cells, list |-> heap_values, ordered |-> ordered, captured |-> e]
    BY <2>1 DEF NothingCaptured
  <2>4. c.cells = cells /\ c.list = heap_values /\ c.ordered = ordered /\ c.captured = e
    BY <2>3
  <2>5. IsSeq(cells) /\ ListOK(cells, heap_values, ordered) /\ \A i \in 1..Len(cells) : CellOK(cells[i], us)
    BY DEF MachineAt, CellsOK, CellOK, SlotOK
  <2>6. NoFewer(cells, cells)
    BY MachineIs DEF NoFewer
  <2>7. IsSeq(e) /\ Len(e) = 0
    BY <2>1, EmptyIs
  <2>8. \A i \in 1..0 : e[i] \in 1..Len(cells)
    OBVIOUS
  <2>9. CaptureOK(0, c, us)
    BY <2>3, <2>4, <2>5, <2>6, <2>7, <2>8 DEF CaptureOK, IsCapture
  <2> QED
    BY <2>2, <2>9
<1> DEFINE Wrong == {i \in 0..Len(os) : ~CaptureOK(i, g[i], us)}
<1>4. Wrong = {}
  <2>1. SUFFICES ASSUME Wrong # {} PROVE FALSE
    OBVIOUS
  <2>2. PICK i \in Wrong : \A k \in Wrong : i <= k
    <3>1. Wrong \subseteq Nat
      BY <1>1
    <3> HIDE DEF Wrong
    <3> QED
      BY <2>1, <3>1, MinOfNaturals
  <2>3. i \in 0..Len(os) /\ ~CaptureOK(i, g[i], us)
    OBVIOUS
  <2>4. i # 0
    BY <1>3, <2>3
  <2>5. i \in 1..Len(os) /\ i - 1 \in 0..Len(os) /\ ~(i <= i - 1)
    BY <1>1, <2>3, <2>4
  <2>6. CaptureOK(i - 1, g[i - 1], us)
    BY <2>2, <2>5
  <2>7. PICK c, e : c = g[i - 1] /\ e = g[i]
    OBVIOUS
  <2>8. e = Capture(c, os[i])
    BY <1>2, <2>4, <2>5, <2>7 DEF CapturingAt
  <2>9. CaptureOK(i - 1, c, us)
    BY <2>6, <2>7
  <2>10. CaptureOK(i, e, us)
    BY <2>5, <2>8, <2>9, CaptureIs
  <2> QED
    BY <2>3, <2>7, <2>10
<1>5. CaptureOK(Len(os), g[Len(os)], us)
  BY <1>1, <1>4
<1> QED
  BY <1>2, <1>5

LEMMA PushClosureRan == ASSUME CompiledOK(compiled), NEW vs, MachineAt(vs), PushClosure PROVE Ran
<1>1. PICK f, os, c : f = Instr.x /\ os = compiled[f].outsiders /\ c = Capturing(os)
  OBVIOUS
<1>2. PICK n, v, w, us, ws, as, t, op, ip, all, captured :
        /\ n = Len(compiled[Frame.function].outsiders) /\ all = c.cells /\ captured = c.captured
        /\ v = ClosureOf(f, captured) /\ w = Plain /\ us = vs \cup {w} /\ ws = us \cup {v}
        /\ as = Instr.as /\ t = Append(stack, Slot(as, v)) /\ op = "Push_Closure" /\ ip = Frame.ip + 1
  OBVIOUS
<1>3. /\ Execute(op) /\ Advance /\ cells' = all /\ heap_values' = c.list /\ ordered' = c.ordered
      /\ UNCHANGED <<classes, instances, globals>> /\ stack' = t
  BY <1>1, <1>2 DEF PushClosure, PushValue
<1>4. f \in 1..Len(compiled) /\ FitIn(os, n) /\ ClosureOK(Frame)
  <2>1. Instr.op = op /\ OperandOK(Instr, n, compiled) /\ ClosureOK(Frame)
    BY <1>2, <1>3, FrameIs
  <2> QED
    BY <1>1, <1>2, <2>1 DEF OperandOK
<1>5. OutsidersOK(os)
  BY <1>1, <1>4 DEF CompiledOK
<1>6. CapturesOK(os, n, us) /\ vs \subseteq us
  <2>1. \A i \in 1..Len(os) : os[i].location = "Stack" => Place(os[i].index) \in 1..StackSize+MaxLocals-1
    BY <1>3, <1>5, PlacesAre
  <2> QED
    BY <1>2, <1>4, <1>5, <2>1 DEF CapturesOK
<1>7. CaptureOK(Len(os), c, us)
  BY <1>1, <1>6, CapturingIs
<1>8. /\ NoFewer(cells, all) /\ IsSeq(all) /\ (\A i \in 1..Len(all) : CellOK(all[i], us)) /\ ListOK(all, c.list, c.ordered)
      /\ \A i \in 1..Len(os) : captured[i] \in 1..Len(all)
  BY <1>2, <1>7 DEF CaptureOK
<1>9. compiled' = compiled /\ status' = status /\ At(ip) /\ classes' = classes /\ instances' = instances /\ globals' = globals
  BY <1>2, <1>3 DEF Advance
<1>10. Grows
  <2>1. Len(compiled) \in Nat
    BY DEF CompiledOK, IsSeq
  <2> QED
    BY <1>3, <1>8, <1>9, <2>1, MachineIs DEF Grows, Extends, NoFewer
<1>11. v.kind = "closure" /\ v.function = f /\ v.cells = captured
  BY <1>2 DEF ClosureOf
<1>12. ValueOK(v, ws)'
  <2>1. ClosureOK(v)'
    BY <1>1, <1>3, <1>4, <1>8, <1>9, <1>11 DEF ClosureOK
  <2> QED
    BY <1>11, <2>1 DEF ValueOK
<1>13. ValueOK(w, ws)'
  BY <1>2 DEF ValueOK, Plain
<1>14. (\A u \in vs : ValueOK(u, ws)') /\ ClassesOK' /\ InstancesOK(ws)' /\ GlobalsOK(ws)'
  <2>1. vs \subseteq ws
    BY <1>2
  <2> QED
    BY <1>9, <1>10, <2>1, ObjectsStay
<1>15. ValuesOK(ws)'
  BY <1>2, <1>12, <1>13, <1>14 DEF ValuesOK
<1>16. CellsOK(ws)'
  <2>1. \A i \in 1..Len(all) : CellOK(all[i], ws)
    BY <1>2, <1>8 DEF CellOK, SlotOK
  <2> QED
    BY <1>3, <1>8, <2>1 DEF CellsOK, CellOK, SlotOK, ListOK
<1>17. SlotsOK(t, ws) /\ Len(t) = Len(stack) + 1 /\ t[Len(t)].value = v
  <2>1. SlotsOK(stack, ws)
    BY <1>2, SlotsAre, SlotsMore
  <2>2. Len(stack) < StackSize
    BY <1>2, <1>3, RoomIs DEF Pushing
  <2>3. v \in ws /\ t = Append(stack, Slot(as, v))
    BY <1>2
  <2> QED
    BY <2>1, <2>2, <2>3, SlotsPush
<1>18. StackOK(ws)'
  BY <1>3, <1>17 DEF StackOK, SlotsOK
<1>19. Lands(ip)
  BY <1>3, <1>11, <1>17, MachineIs DEF Lands
<1>20. FramesOK'
  BY <1>3, <1>9, <1>10, <1>19, FramesAt
<1>21. status' = "running"
  BY <1>3, <1>9, FrameIs
<1> QED
  BY <1>9, <1>14, <1>15, <1>16, <1>18, <1>20, <1>21, RanIs DEF Outcomes

-----------------------------------------------------------------------------
(* Returning.                                                              *)
LEMMA FrontFrames ==
  ASSUME NEW vs, MachineAt(vs), Len(frames) # 0, frames' = Front(frames), compiled' = compiled, Len(cells') = Len(cells),
         status' = "running" => Len(frames) # 1
  PROVE  FramesOK'
<1>1. PICK s, n, t : s = frames /\ n = Len(frames) /\ t = Front(s)
  OBVIOUS
<1>2. IsSeq(s) /\ n \in Nat /\ n # 0 /\ Len(s) = n /\ frames' = t
  BY <1>1, MachineIs
<1>3. IsSeq(t) /\ Len(t) = n - 1 /\ \A i \in 1..n-1 : t[i] = s[i]
  BY <1>1, <1>2, FrontIs
<1>4. ASSUME NEW i \in 1..n-1
      PROVE  IsFrame(t[i]) /\ ClosureOK(t[i])' /\ t[i].start \in 1..StackSize /\ ~AtMethod(t[i])'
  <2>1. PICK h : h = s[i]
    OBVIOUS
  <2>2. t[i] = h
    BY <1>3, <2>1
  <2>3. i \in 1..Len(frames)
    BY <1>1, <1>2
  <2>4. IsFrame(h) /\ ClosureOK(h) /\ h.start \in 1..StackSize /\ ~AtMethod(h)
    BY <1>1, <2>1, <2>3 DEF MachineAt, FramesOK
  <2>5. ClosureOK(h)' /\ ~AtMethod(h)'
    BY <2>4 DEF ClosureOK, AtMethod
  <2> QED
    BY <2>2, <2>4, <2>5
<1>5. \A i \in 1..Len(t) : IsFrame(t[i]) /\ ClosureOK(t[i])' /\ t[i].start \in 1..StackSize /\ ~AtMethod(t[i])'
  BY <1>3, <1>4
<1>6. \A i \in 1..Len(t)-1 : i \in 1..Len(t)
  BY <1>2, <1>3
<1>7. status' = "running" => Len(t) # 0 /\ Len(t) \in 1..Len(t)
  BY <1>1, <1>2, <1>3
<1>8. Len(t) <= MaxFrames
  <2>1. n <= MaxFrames /\ MaxFrames \in Nat
    BY <1>1, MachineAssumption DEF MachineAt, FramesOK
  <2> QED
    BY <1>2, <1>3, <2>1
<1> QED
  BY <1>2, <1>3, <1>5, <1>6, <1>7, <1>8 DEF FramesOK

LEMMA ReturnRan == ASSUME CompiledOK(compiled), NEW vs, MachineAt(vs), Return_ PROVE Ran
<1>1. PICK op, p, v, as :
        /\ op = "Return" /\ p = Frame.start /\ v = Top.value
        /\ as = compiled[frames[Len(frames) - 1].function].code[frames[Len(frames) - 1].ip - 1].as
  OBVIOUS
<1>2. /\ Execute(op) /\ frames' = Front(frames) /\ compiled' = compiled
      /\ classes' = classes /\ instances' = instances /\ globals' = globals
  BY <1>1 DEF Return_
<1>3. p \in 1..StackSize /\ p <= Len(stack) /\ status = "running" /\ Len(frames) # 0
  <2>1. Frame.start <= Len(stack)
    <3>1. Instr.op = "Return"
      BY <1>1, <1>2 DEF Execute
    <3> QED
      BY <1>2, <3>1 DEF Execute, Astray, OnTrack
  <2>2. Frame.start \in 1..StackSize /\ status = "running" /\ Len(frames) # 0
    BY <1>2, FrameIs
  <2> QED
    BY <1>1, <2>1, <2>2
<1>4. SlotsOK(stack, vs) /\ v \in vs /\ Len(stack) >= 1 /\ (Len(frames) = 1 => Len(stack) >= 2) /\ Len(stack) \in Nat
      /\ Len(stack) <= StackSize /\ StackSize \in Nat
  <2>1. Len(stack) \in Nat /\ Len(stack) <= StackSize /\ StackSize \in Nat
    BY MachineIs
  <2>2. Len(stack) >= 1 /\ (Len(frames) = 1 => Len(stack) >= 2)
    BY <1>1, <1>2, StackIs
  <2> QED
    BY <1>1, <2>1, <2>2, SlotsAre
<1>5. FirstMoved = p
  <2>1. Instr.op = op
    BY <1>2 DEF Execute
  <2> QED
    BY <1>1, <2>1 DEF FirstMoved
<1>6. /\ IsSeq(cells') /\ Len(cells') = Len(cells) /\ \A i \in 1..Len(cells) : CellOK(cells'[i], vs)
      /\ ListOK(cells', heap_values', ordered')
  <2>1. \A i \in Moved(FirstMoved) : OpenAt(i) <= Len(stack)
    BY <1>1, <1>2, MovableAre
  <2>2. MoveToHeap(FirstMoved)
    BY DEF Return_
  <2>3. p \in Nat \ {0} /\ (\A i \in Moved(p) : OpenAt(i) <= Len(stack)) /\ MoveToHeap(p)
    BY <1>3, <1>4, <1>5, <2>1, <2>2
  <2> QED
    BY <2>3, MoveToHeapIs
<1>7. CellsOK(vs)'
  BY <1>6 DEF CellsOK, CellOK, ListOK
<1>8. Grows
  <2>1. Len(compiled) \in Nat
    BY DEF CompiledOK, IsSeq
  <2> QED
    BY <1>2, <1>6, <2>1, MachineIs DEF Grows, Extends, NoFewer
<1>9. (\A u \in vs : ValueOK(u, vs)') /\ ClassesOK' /\ InstancesOK(vs)' /\ GlobalsOK(vs)'
  BY <1>2, <1>8, ObjectsStay
<1>10. ValuesOK(vs)'
  BY <1>9 DEF ValuesOK
<1>11. StackOK(vs)' /\ status' \in {"running", "ended"} /\ (status' = "running" => Len(frames) # 1)
  <2>1. CASE Len(frames) = 1
    <3>1. PICK n, t : n = Len(stack) - 2 /\ t = SubSeq(stack, 1, n)
      OBVIOUS
    <3>2. n \in 0..Len(stack)
      BY <1>4, <2>1, <3>1
    <3>3. SlotsOK(t, vs)
      BY <1>4, <3>1, <3>2, SlotsPrefix
    <3>4. stack' = t /\ status' = "ended"
      BY <2>1, <3>1 DEF Return_
    <3> QED
      BY <3>3, <3>4 DEF StackOK, SlotsOK
  <2>2. CASE Len(frames) # 1
    <3>1. PICK n, s, t : n = p - 1 /\ s = SubSeq(stack, 1, n) /\ t = Append(s, Slot(as, v))
      OBVIOUS
    <3>2. n \in 0..Len(stack) /\ n < StackSize
      BY <1>3, <1>4, <3>1
    <3>3. SlotsOK(s, vs) /\ Len(s) = n
      BY <1>4, <3>1, <3>2, SlotsPrefix
    <3>4. SlotsOK(t, vs)
      <4>1. Len(s) < StackSize
        BY <3>2, <3>3
      <4> QED
        BY <1>4, <3>1, <3>3, <4>1, SlotsPush
    <3>5. stack' = t /\ status' = status
      BY <1>1, <2>2, <3>1 DEF Return_
    <3> QED
      BY <1>3, <2>2, <3>4, <3>5 DEF StackOK, SlotsOK
  <2> QED
    BY <2>1, <2>2
<1>12. FramesOK'
  <2>1. Len(cells') = Len(cells)
    BY <1>6
  <2> QED
    BY <1>2, <1>3, <1>11, <2>1, FrontFrames
<1> QED
  BY <1>2, <1>7, <1>9, <1>10, <1>11, <1>12, RanIs DEF Outcomes

-----------------------------------------------------------------------------
(* Properties.                                                             *)
LEMMA TopTwoAre ==
  ASSUME NEW vs, MachineAt(vs), Len(stack) >= 2
  PROVE  Top = stack[Len(stack)] /\ Top.value \in vs /\ Peek(1).value \in vs /\ Peek(0) = Top /\ Len(stack) # 0
         /\ Len(stack) - 2 \in 0..Len(stack) /\ Len(stack) - 2 < StackSize /\ Len(stack) > 1
<1>1. Len(stack) \in Nat /\ Len(stack) <= StackSize /\ StackSize \in Nat
  BY MachineIs
<1>2. Len(stack) - 1 \in 1..Len(stack) /\ Len(stack) # 0 /\ Len(stack) - 0 = Len(stack)
  BY <1>1
<1>3. Top = stack[Len(stack)] /\ Top.value \in vs
  BY <1>2, SlotsAre
<1>4. Peek(1).value \in vs
  BY <1>2, SlotsAre DEF Peek
<1>5. Peek(0) = Top
  BY <1>2, <1>3 DEF Peek
<1> QED
  BY <1>1, <1>2, <1>3, <1>4, <1>5

LEMMA GetPropertyRan == ASSUME CompiledOK(compiled), NEW vs, MachineAt(vs), GetProperty PROVE Ran
<1>1. PICK o, m, op, as, w, ws, i, c :
        /\ o = Top.value /\ m = Instr.x /\ op = "Get_Property" /\ as = Instr.as /\ w = Property(o, m) /\ ws = vs \cup {w}
        /\ i = o.instance /\ c = instances[i].class
  OBVIOUS
<1>2. /\ Execute(op)
      /\ \/ Has(o, m) /\ stack' = Append(Front(stack), Slot(as, w)) /\ Advance /\ UNCHANGED objects
         \/ RuntimeError
  BY <1>1 DEF GetProperty
<1>3. o \in vs /\ SlotsOK(stack, vs) /\ Len(stack) # 0
  BY <1>1, <1>2, SlotsAre, StackIs, MachineIs
<1>4. CASE Has(o, m) /\ stack' = Append(Front(stack), Slot(as, w)) /\ Advance /\ UNCHANGED objects
  <2>1. o.kind = "instance" /\ m \in DOMAIN instances[i].fields \cup DOMAIN classes[c].methods
    BY <1>1, <1>4 DEF Has
  <2>2. i \in 1..Len(instances) /\ c \in 1..Len(classes) /\ \A k \in DOMAIN instances[i].fields : instances[i].fields[k] \in vs
    BY <1>1, <1>3, <2>1, InstanceIs
  <2>3. ValueOK(w, ws)
    <3>1. CASE m \in DOMAIN instances[i].fields
      <4>1. w = instances[i].fields[m]
        BY <1>1, <3>1 DEF Property
      <4>2. w \in vs
        BY <2>2, <3>1, <4>1
      <4>3. ws = vs
        BY <1>1, <4>2
      <4> QED
        BY <4>2, <4>3 DEF MachineAt, ValuesOK
    <3>2. CASE m \notin DOMAIN instances[i].fields
      <4>1. PICK closure : closure = classes[c].methods[m]
        BY SMTT(30)
      <4>2. w = Bound(o, closure)
        BY <1>1, <3>2, <4>1 DEF Property
      <4>3. ClosureOK(closure)
        BY <2>1, <2>2, <3>2, <4>1, MethodsAre
      <4>4. w.kind = "method" /\ w.closure = closure /\ w.instance = o
        BY <4>2 DEF Bound
      <4> QED
        BY <1>1, <1>3, <4>3, <4>4 DEF ValueOK
    <3> QED
      BY <3>1, <3>2
  <2>4. PICK s, t : s = Front(stack) /\ t = Append(s, Slot(as, w))
    OBVIOUS
  <2>5. SlotsOK(stack, ws)
    BY <1>1, <1>3, SlotsMore
  <2>6. SlotsOK(s, ws) /\ Len(s) = Len(stack) - 1
    BY <1>3, <2>4, <2>5, SlotsFront
  <2>7. Len(s) < StackSize
    BY <2>6, MachineIs
  <2>8. w \in ws
    BY <1>1
  <2>9. SlotsOK(t, ws)
    BY <2>4, <2>6, <2>7, <2>8, SlotsPush
  <2>10. SlotsOK(stack', ws)
    BY <1>4, <2>4, <2>9
  <2> QED
    BY <1>1, <1>2, <1>4, <2>3, <2>10, PushRan
<1> QED
  BY <1>2, <1>4, ErrorRan

LEMMA GetSuperRan == ASSUME CompiledOK(compiled), NEW vs, MachineAt(vs), GetSuper PROVE Ran
<1>1. PICK c, m, op, as, o, closure, w, ws :
        /\ c = Top.value.class /\ m = Instr.x /\ op = "Get_Super" /\ as = Instr.as /\ o = Peek(1).value
        /\ closure = classes[c].methods[m] /\ w = Bound(o, closure) /\ ws = vs \cup {w}
  OBVIOUS
<1>2. /\ Execute(op)
      /\ \/ /\ m \in DOMAIN classes[c].methods /\ stack' = Append(SubSeq(stack, 1, Len(stack) - 2), Slot(as, w))
            /\ Advance /\ UNCHANGED objects
         \/ RuntimeError
  BY <1>1 DEF GetSuper
<1>3. c \in 1..Len(classes) /\ Len(stack) >= 2
  BY <1>1, <1>2, SuperclassIs
<1>4. o \in vs /\ Len(stack) - 2 \in 0..Len(stack) /\ Len(stack) - 2 < StackSize
  BY SMTT(30), <1>1, <1>3, TopTwoAre
<1>5. CASE /\ m \in DOMAIN classes[c].methods /\ stack' = Append(SubSeq(stack, 1, Len(stack) - 2), Slot(as, w))
           /\ Advance /\ UNCHANGED objects
  <2>1. ClosureOK(closure)
    BY <1>1, <1>3, <1>5, MethodsAre
  <2>2. w.kind = "method" /\ w.closure = closure /\ w.instance = o
    BY SMTT(30), <1>1 DEF Bound
  <2>3. ValueOK(w, ws)
    BY <1>1, <1>4, <2>1, <2>2 DEF ValueOK
  <2>4. PICK n, s, t : n = Len(stack) - 2 /\ s = SubSeq(stack, 1, n) /\ t = Append(s, Slot(as, w))
    OBVIOUS
  <2>5. SlotsOK(stack, ws)
    BY <1>1, SlotsAre, SlotsMore
  <2>6. SlotsOK(s, ws) /\ Len(s) = n
    BY ZenonT(40), <1>4, <2>4, <2>5, SlotsPrefix
  <2>7. Len(s) < StackSize /\ w \in ws
    BY <1>1, <1>4, <2>4, <2>6
  <2>8. SlotsOK(t, ws)
    BY <2>4, <2>6, <2>7, SlotsPush
  <2>9. SlotsOK(stack', ws)
    BY <1>5, <2>4, <2>8
  <2> QED
    BY <1>1, <1>2, <1>5, <2>3, <2>9, PushRan
<1> QED
  BY <1>2, <1>5, ErrorRan

-----------------------------------------------------------------------------
(* Fields are set in the instance there is.                                *)
LEMMA SetPropertyRan == ASSUME CompiledOK(compiled), NEW vs, MachineAt(vs), SetProperty PROVE Ran
<1>1. PICK o, m, op, as, v, k, i, fields, j, all :
        /\ o = Peek(1).value /\ m = Instr.x /\ op = "Set_Property" /\ as = Instr.as /\ v = Top.value /\ k = o.instance
        /\ i = instances[k] /\ fields = Set(i.fields, m, v) /\ j = [class |-> i.class, fields |-> fields]
        /\ all = Updated(instances, k, j)
  OBVIOUS
<1>2. /\ Execute(op)
      /\ \/ /\ o.kind = "instance"
            /\ instances' = [instances EXCEPT ![k].fields = Set(@, m, v)]
            /\ stack' = Append(SubSeq(stack, 1, Len(stack) - 2), Slot(as, v))
            /\ Advance /\ UNCHANGED <<captures, classes, globals>>
         \/ RuntimeError
  BY <1>1 DEF SetProperty
<1>3. o \in vs /\ v \in vs /\ Len(stack) - 2 \in 0..Len(stack) /\ Len(stack) - 2 < StackSize
  <2>1. Len(stack) >= 2
    BY <1>1, <1>2, StackIs
  <2> QED
    BY <1>1, <2>1, TopTwoAre
<1>4. CASE /\ o.kind = "instance"
           /\ instances' = [instances EXCEPT ![k].fields = Set(@, m, v)]
           /\ stack' = Append(SubSeq(stack, 1, Len(stack) - 2), Slot(as, v))
           /\ Advance /\ UNCHANGED <<captures, classes, globals>>
  <2>1. k \in 1..Len(instances) /\ i.class \in 1..Len(classes) /\ IsInstance(i) /\ \A n \in DOMAIN i.fields : i.fields[n] \in vs
    BY <1>1, <1>3, <1>4, InstanceIs
  <2>2. instances' = all
    <3>1. [i EXCEPT !.fields = fields] = j
      BY <1>1, <2>1 DEF IsInstance
    <3>2. instances' = [instances EXCEPT ![k].fields = Set(instances[k].fields, m, v)]
      BY <1>4
    <3>3. instances' = [instances EXCEPT ![k].fields = fields]
      BY <1>1, <3>2
    <3>4. [instances EXCEPT ![k].fields = fields] = Updated(instances, k, j)
      BY <1>1, <3>1, Zenon DEF Updated
    <3> QED
      BY <1>1, <3>3, <3>4
  <2>3. IsSeq(all) /\ Len(all) = Len(instances) /\ \A n \in 1..Len(instances) : all[n] = IF n = k THEN j ELSE instances[n]
    <3>1. IsSeq(instances) /\ all = Updated(instances, k, j)
      BY <1>1, MachineIs
    <3> QED
      BY <3>1, UpdateIs
  <2>4. InstanceOK(j, vs)
    <3>1. DOMAIN fields = DOMAIN i.fields \cup {m} /\ \A n \in DOMAIN fields : fields[n] = IF n = m THEN v ELSE i.fields[n]
      BY <1>1 DEF Set
    <3>2. \A n \in DOMAIN fields : fields[n] \in vs
      BY <1>3, <2>1, <3>1
    <3> QED
      BY <1>1, <2>1, <3>2 DEF InstanceOK, IsInstance
  <2>5. WithInstances(vs, v, vs, all)
    <3>1. \A n \in 1..Len(instances) : InstanceOK(instances[n], vs)
      BY DEF MachineAt, InstancesOK
    <3>2. \A n \in 1..Len(all) : InstanceOK(all[n], vs)
      BY <2>3, <2>4, <3>1
    <3>3. vs = vs \cup {v}
      BY <1>3
    <3> QED
      BY <1>3, <2>3, <3>2, <3>3, MachineIs DEF WithInstances, NoFewer
  <2>6. compiled' = compiled
    BY <1>4 DEF Advance
  <2>7. Grows /\ ValuesOK(vs)' /\ ClassesOK' /\ CellsOK(vs)' /\ InstancesOK(vs)' /\ GlobalsOK(vs)'
    BY <1>4, <2>2, <2>5, <2>6, InstancesStay
  <2>8. FramesOK' /\ status' = "running"
    BY <1>1, <1>2, <1>4, <2>7, AdvanceIs
  <2>9. PICK n, s, t : n = Len(stack) - 2 /\ s = SubSeq(stack, 1, n) /\ t = Append(s, Slot(as, v))
    OBVIOUS
  <2>10. SlotsOK(s, vs) /\ Len(s) = n
    BY ZenonT(40), <1>3, <2>9, SlotsAre, SlotsPrefix
  <2>11. Len(s) < StackSize
    BY <1>3, <2>9, <2>10
  <2>12. SlotsOK(t, vs)
    BY <1>3, <2>9, <2>10, <2>11, SlotsPush
  <2>13. StackOK(vs)'
    BY <1>4, <2>9, <2>12 DEF StackOK, SlotsOK
  <2> QED
    BY <2>6, <2>7, <2>8, <2>13, RanIs DEF Outcomes
<1> QED
  BY <1>2, <1>4, ErrorRan

-----------------------------------------------------------------------------
(* Classes, one of which may be new or another.                            *)
LEMMA ClassesRan ==
  ASSUME CompiledOK(compiled), NEW vs, MachineAt(vs), NEW op, Execute(op), op # "Push_Closure", Advance,
         UNCHANGED <<captures, instances, globals>>, NEW cs, NoFewer(classes, cs), IsSeq(cs), classes' = cs,
         \A i \in 1..Len(cs) : ClassOK(cs[i]),
         NEW v, NEW ws, ws = vs \cup {v}, v \in vs \/ (v.kind = "class" /\ v.class \in 1..Len(cs)), SlotsOK(stack', ws)
  PROVE  Ran
<1>1. compiled' = compiled /\ captures' = captures /\ cells' = cells /\ instances' = instances /\ globals' = globals
  BY DEF Advance, captures
<1>2. Grows
  <2>1. Len(compiled) \in Nat
    BY DEF CompiledOK, IsSeq
  <2> QED
    BY <1>1, <2>1, MachineIs DEF Grows, Extends, NoFewer
<1>3. (\A u \in vs : ValueOK(u, ws)') /\ CellsOK(ws)' /\ InstancesOK(ws)' /\ GlobalsOK(ws)'
  <2>1. vs \subseteq ws
    OBVIOUS
  <2> QED
    BY <1>1, <1>2, <2>1, ObjectsStay
<1>4. v \notin vs => ValueOK(v, ws)'
  BY DEF ValueOK
<1>5. ValuesOK(ws)'
  BY <1>3, <1>4 DEF ValuesOK
<1>6. ClassesOK'
  <2>1. \A i \in 1..Len(cs) : ClassOK(cs[i])'
    BY <1>1 DEF ClassOK, ClosureOK
  <2> QED
    BY <2>1 DEF ClassesOK
<1>7. FramesOK' /\ status' = "running"
  BY <1>2, AdvanceIs
<1>8. StackOK(ws)'
  BY DEF StackOK, SlotsOK
<1> QED
  BY <1>1, <1>3, <1>5, <1>6, <1>7, <1>8, RanIs DEF Outcomes

LEMMA ClassRan == ASSUME CompiledOK(compiled), NEW vs, MachineAt(vs), Class PROVE Ran
<1>1. PICK n, v, ws, op, as, c, cs, t :
        /\ n = Len(classes) + 1 /\ v = ClassOf(n) /\ ws = vs \cup {v} /\ op = "Class" /\ as = Instr.as
        /\ c = [methods |-> <<>>, own |-> <<>>, super |-> 0] /\ cs = Append(classes, c) /\ t = Append(stack, Slot(as, v))
  OBVIOUS
<1>2. Execute(op) /\ classes' = cs /\ stack' = t /\ Advance /\ UNCHANGED <<captures, instances, globals>>
  BY <1>1 DEF Class, PushValue
<1>3. IsSeq(cs) /\ Len(cs) = n /\ (\A i \in 1..Len(classes) : cs[i] = classes[i]) /\ cs[n] = c
      /\ n = Len(classes) + 1 /\ Len(classes) \in Nat
  BY <1>1, AppendIs, MachineIs
<1>4. ClassOK(c)
  <2>1. DOMAIN <<>> = {}
    OBVIOUS
  <2> QED
    BY <1>1, <2>1 DEF ClassOK, IsClass
<1>5. \A i \in 1..Len(cs) : ClassOK(cs[i])
  <2>1. \A i \in 1..Len(classes) : ClassOK(classes[i])
    BY DEF MachineAt, ClassesOK
  <2>2. \A i \in 1..n : i \in 1..Len(classes) \/ i = n
    BY <1>3
  <2> QED
    BY <1>3, <1>4, <2>1, <2>2
<1>6. NoFewer(classes, cs) /\ v.kind = "class" /\ v.class \in 1..Len(cs)
  BY <1>1, <1>3 DEF NoFewer, ClassOf
<1>7. SlotsOK(t, ws)
  <2>1. SlotsOK(stack, ws)
    BY <1>1, SlotsAre, SlotsMore
  <2>2. Len(stack) < StackSize
    BY <1>1, <1>2, RoomIs DEF Pushing
  <2>3. v \in ws /\ t = Append(stack, Slot(as, v))
    BY <1>1
  <2> QED
    BY <2>1, <2>2, <2>3, SlotsPush
<1>8. SlotsOK(stack', ws)
  BY <1>2, <1>7
<1> QED
  BY <1>1, <1>2, <1>3, <1>5, <1>6, <1>8, ClassesRan

(* Another class in the place of one; the top of the stack is popped.      *)
LEMMA ClassReplaced ==
  ASSUME CompiledOK(compiled), NEW vs, MachineAt(vs), NEW op, Execute(op), op # "Push_Closure", Advance, Len(stack) # 0,
         UNCHANGED <<captures, instances, globals>>, NEW k, k \in 1..Len(classes), NEW c, ClassOK(c),
         classes' = Updated(classes, k, c), stack' = Front(stack)
  PROVE  Ran
<1>1. PICK cs, v, t : cs = Updated(classes, k, c) /\ v = Top.value /\ t = Front(stack)
  OBVIOUS
<1>2. IsSeq(cs) /\ Len(cs) = Len(classes) /\ \A n \in 1..Len(classes) : cs[n] = IF n = k THEN c ELSE classes[n]
  <2>1. IsSeq(classes) /\ cs = Updated(classes, k, c)
    BY <1>1, MachineIs
  <2> QED
    BY <2>1, UpdateIs
<1>3. \A i \in 1..Len(cs) : ClassOK(cs[i])
  <2>1. \A i \in 1..Len(classes) : ClassOK(classes[i])
    BY DEF MachineAt, ClassesOK
  <2> QED
    BY <1>2, <2>1
<1>4. NoFewer(classes, cs)
  BY <1>2, MachineIs DEF NoFewer
<1>5. v \in vs /\ SlotsOK(stack, vs)
  BY <1>1, SlotsAre
<1>6. SlotsOK(t, vs)
  BY <1>1, <1>5, SlotsFront
<1>7. vs = vs \cup {v} /\ SlotsOK(stack', vs) /\ classes' = cs
  BY <1>1, <1>5, <1>6
<1> QED
  BY <1>2, <1>3, <1>4, <1>5, <1>7, ClassesRan

LEMMA ClassIs ==
  ASSUME NEW vs, MachineAt(vs), NEW v \in vs, v.kind = "class"
  PROVE  v.class \in 1..Len(classes) /\ ClassOK(classes[v.class]) /\ IsClass(classes[v.class])
<1>1. v.class \in 1..Len(classes)
  BY DEF MachineAt, ValuesOK, ValueOK
<1>2. ClassOK(classes[v.class])
  BY <1>1 DEF MachineAt, ClassesOK
<1> QED
  BY <1>1, <1>2 DEF ClassOK

-----------------------------------------------------------------------------
LEMMA InheritanceRan == ASSUME CompiledOK(compiled), NEW vs, MachineAt(vs), Inheritance PROVE Ran
<1>1. PICK u, v, sub, super, op, c, ms, d :
        /\ u = Top.value /\ v = Peek(1).value /\ sub = u.class /\ super = v.class /\ op = "Inheritance" /\ c = classes[sub]
        /\ ms = InheritedMethods(sub, super) /\ d = [methods |-> ms, own |-> c.own, super |-> super]
  OBVIOUS
<1>2. /\ Execute(op) /\ stack' = Front(stack) /\ Advance /\ UNCHANGED <<captures, instances, globals>>
      /\ classes' = [classes EXCEPT ![sub].methods = ms, ![sub].super = super]
  BY <1>1 DEF Inheritance
<1>3. Len(stack) >= 2 /\ Len(stack) # 0 /\ u \in vs /\ v \in vs /\ Peek(0).value = u /\ Len(stack) > 1
  <2>1. Len(stack) >= 2
    BY <1>1, <1>2, StackIs
  <2> QED
    BY <1>1, <2>1, TopTwoAre
<1>4. u.kind = "class" /\ v.kind = "class"
  <2>1. Instr.op = "Inheritance"
    BY <1>1, <1>2 DEF Execute
  <2>2. Peek(0).value.kind = "class" /\ Peek(1).value.kind = "class"
    BY <1>2, <1>3, <2>1 DEF Execute, Astray, OnTrack
  <2> QED
    BY <1>1, <1>3, <2>2
<1>5. sub \in 1..Len(classes) /\ ClassOK(c) /\ IsClass(c)
  BY <1>1, <1>3, <1>4, ClassIs
<1>6. super \in 1..Len(classes) /\ ClassOK(classes[super])
  BY <1>1, <1>3, <1>4, ClassIs
<1>7. ClassOK(d)
  <2>1. PICK from : from = classes[super].methods
    OBVIOUS
  <2>2. ms = [k \in DOMAIN from \cup DOMAIN c.methods |-> IF k \in DOMAIN from THEN from[k] ELSE c.methods[k]]
    BY <1>1, <2>1 DEF InheritedMethods, Copied
  <2>3. \A k \in DOMAIN from : ClosureOK(from[k])
    BY <1>6, <2>1 DEF ClassOK
  <2>4. \A k \in DOMAIN c.methods : ClosureOK(c.methods[k])
    BY <1>5 DEF ClassOK
  <2>5. ASSUME NEW k \in DOMAIN ms PROVE ClosureOK(ms[k])
    <3>1. CASE k \in DOMAIN from
      <4>1. ms[k] = from[k]
        BY <2>2, <3>1
      <4> QED
        BY <2>3, <3>1, <4>1
    <3>2. CASE k \notin DOMAIN from
      <4>1. ms[k] = c.methods[k] /\ k \in DOMAIN c.methods
        BY <2>2, <2>5, <3>2
      <4> QED
        BY <2>4, <4>1
    <3> QED
      BY <3>1, <3>2
  <2>6. d.methods = ms /\ IsClass(d)
    BY <1>1 DEF IsClass
  <2> QED
    BY <2>5, <2>6 DEF ClassOK
<1>8. classes' = Updated(classes, sub, d)
  <2>1. [[c EXCEPT !.methods = ms] EXCEPT !.super = super] = d
    <3>1. PICK a, b, s : a = c.methods /\ b = c.own /\ s = c.super
      OBVIOUS
    <3>2. c = [methods |-> a, own |-> b, super |-> s]
      BY <1>5, <3>1 DEF IsClass
    <3>3. [c EXCEPT !.methods = ms] = [methods |-> ms, own |-> b, super |-> s]
      BY <3>2
    <3>4. d = [methods |-> ms, own |-> b, super |-> super]
      BY <1>1, <3>1
    <3>5. [[methods |-> ms, own |-> b, super |-> s] EXCEPT !.super = super] = [methods |-> ms, own |-> b, super |-> super]
      OBVIOUS
    <3> QED
      BY <3>3, <3>4, <3>5, Zenon
  <2>2. PICK e, es : e = [c EXCEPT !.methods = ms] /\ es = Updated(classes, sub, e)
    OBVIOUS
  <2>3. DOMAIN classes = 1..Len(classes)
    BY MachineIs DEF IsSeq
  <2>4. es = [classes EXCEPT ![sub].methods = ms]
    BY <1>1, <2>2, Zenon DEF Updated
  <2>5. es[sub] = e
    BY <1>5, <2>2, <2>3 DEF Updated
  <2>6. [classes EXCEPT ![sub].methods = ms, ![sub].super = super] = [es EXCEPT ![sub].super = super]
    BY <2>4
  <2>7. [es EXCEPT ![sub].super = super] = [es EXCEPT ![sub] = d]
    BY <2>1, <2>2, <2>5, Zenon
  <2>8. [es EXCEPT ![sub] = d] = [classes EXCEPT ![sub] = d]
    BY <2>2 DEF Updated
  <2> QED
    BY <1>2, <2>6, <2>7, <2>8 DEF Updated
<1>9. op # "Push_Closure"
  BY <1>1
<1>10. Execute(op) /\ stack' = Front(stack) /\ Advance /\ UNCHANGED <<captures, instances, globals>> /\ Len(stack) # 0
  BY <1>2, <1>3
<1> QED
  BY <1>5, <1>7, <1>8, <1>9, <1>10, ClassReplaced

(* The method is the closure on top.                                       *)
LEMMA MethodRan == ASSUME CompiledOK(compiled), NEW vs, MachineAt(vs), Method PROVE Ran
<1>1. PICK u, v, k, m, op, c, ms, own, d :
        /\ u = Top.value /\ v = Peek(1).value /\ k = v.class /\ m = Instr.x /\ op = "Method" /\ c = classes[k]
        /\ ms = Set(c.methods, m, u) /\ own = Set(c.own, m, u) /\ d = [methods |-> ms, own |-> own, super |-> c.super]
  OBVIOUS
<1>2. /\ Execute(op) /\ stack' = Front(stack) /\ Advance /\ UNCHANGED <<captures, instances, globals>>
      /\ classes' = [classes EXCEPT ![k].methods = Set(@, m, u), ![k].own = Set(@, m, u)]
  BY <1>1 DEF Method
<1>3. Len(stack) >= 2 /\ Len(stack) # 0 /\ u \in vs /\ v \in vs /\ Len(stack) > 1 /\ Top = stack[Len(stack)]
  <2>1. Len(stack) >= 2
    BY <1>1, <1>2, StackIs
  <2> QED
    BY <1>1, <2>1, TopTwoAre
<1>4. v.kind = "class"
  <2>1. Instr.op = "Method"
    BY <1>1, <1>2 DEF Execute
  <2> QED
    BY <1>1, <1>2, <1>3, <2>1 DEF Execute, Astray, OnTrack
<1>5. k \in 1..Len(classes) /\ ClassOK(c) /\ IsClass(c)
  BY <1>1, <1>3, <1>4, ClassIs
<1>6. ClosureOK(u)
  <2>1. status = "running" /\ Frame = frames[Len(frames)] /\ Code = compiled[Frame.function].code
        /\ IsSeq(Code) /\ Frame.ip \in 1..Len(Code) /\ Instr = Code[Frame.ip] /\ Instr.op = op
    BY SMTT(30), <1>2, FrameIs
  <2>2. AtMethod(frames[Len(frames)])
    BY ZenonT(40), <1>1, <2>1 DEF AtMethod, IsSeq
  <2>3. u.kind = "closure"
    BY <1>1, <1>3, <2>1, <2>2 DEF MachineAt, FramesOK
  <2> QED
    BY <1>3, <2>3 DEF MachineAt, ValuesOK, ValueOK
<1>7. ClassOK(d)
  <2>1. ms = [n \in DOMAIN c.methods \cup {m} |-> IF n = m THEN u ELSE c.methods[n]]
    BY <1>1 DEF Set
  <2>2. \A n \in DOMAIN c.methods : ClosureOK(c.methods[n])
    BY <1>5 DEF ClassOK
  <2>3. ASSUME NEW n \in DOMAIN ms PROVE ClosureOK(ms[n])
    <3>1. CASE n = m
      <4>1. ms[n] = u
        BY <2>1, <3>1
      <4> QED
        BY <1>6, <4>1
    <3>2. CASE n # m
      <4>1. ms[n] = c.methods[n] /\ n \in DOMAIN c.methods
        BY <2>1, <2>3, <3>2
      <4> QED
        BY <2>2, <4>1
    <3> QED
      BY <3>1, <3>2
  <2>4. d.methods = ms /\ IsClass(d)
    BY <1>1 DEF IsClass
  <2> QED
    BY <2>3, <2>4 DEF ClassOK
<1>8. classes' = Updated(classes, k, d)
  <2>1. [[c EXCEPT !.methods = ms] EXCEPT !.own = own] = d
    <3>1. PICK a, b, s : a = c.methods /\ b = c.own /\ s = c.super
      OBVIOUS
    <3>2. c = [methods |-> a, own |-> b, super |-> s]
      BY <1>5, <3>1 DEF IsClass
    <3>3. [c EXCEPT !.methods = ms] = [methods |-> ms, own |-> b, super |-> s]
      BY <3>2
    <3>4. d = [methods |-> ms, own |-> own, super |-> s]
      BY <1>1, <3>1
    <3>5. [[methods |-> ms, own |-> b, super |-> s] EXCEPT !.own = own] = [methods |-> ms, own |-> own, super |-> s]
      OBVIOUS
    <3> QED
      BY <3>3, <3>4, <3>5, Zenon
  <2>2. PICK e, es : e = [c EXCEPT !.methods = ms] /\ es = Updated(classes, k, e)
    OBVIOUS
  <2>3. DOMAIN classes = 1..Len(classes)
    BY MachineIs DEF IsSeq
  <2>4. es = [classes EXCEPT ![k].methods = ms]
    BY <1>1, <2>2, Zenon DEF Updated
  <2>5. es[k] = e
    BY <1>5, <2>2, <2>3 DEF Updated
  <2>6. classes' = [classes EXCEPT ![k].methods = ms, ![k].own = own]
    BY <1>1, <1>2
  <2>7. [classes EXCEPT ![k].methods = ms, ![k].own = own] = [es EXCEPT ![k].own = own]
    BY <2>4
  <2>8. [es EXCEPT ![k].own = own] = [es EXCEPT ![k] = d]
    BY <2>1, <2>2, <2>5, Zenon
  <2>9. [es EXCEPT ![k] = d] = [classes EXCEPT ![k] = d]
    BY <2>2 DEF Updated
  <2> QED
    BY <2>6, <2>7, <2>8, <2>9 DEF Updated
<1>9. op # "Push_Closure"
  BY <1>1
<1>10. Execute(op) /\ stack' = Front(stack) /\ Advance /\ UNCHANGED <<captures, instances, globals>> /\ Len(stack) # 0
  BY <1>2, <1>3
<1> QED
  BY <1>5, <1>7, <1>8, <1>9, <1>10, ClassReplaced

-----------------------------------------------------------------------------
(* Every instruction.                                                      *)
LEMMA InterpretRan == ASSUME CompiledOK(compiled), MachineInv, Interpret PROVE Ran
<1>1. PICK vs : MachineAt(vs)
  BY DEF MachineInv
<1>2. CASE PushLiteral \/ CopyFromIdx \/ CopyTopToIdx \/ CopyFromHeap \/ MoveTopToHeap \/ MoveValueToHeap
  BY <1>1, <1>2, PushLiteralRan, CopyFromIdxRan, CopyTopToIdxRan, CopyFromHeapRan, MoveTopToHeapRan, MoveValueToHeapRan
<1>3. CASE Pop \/ DefineGlobal \/ ReadGlobal \/ AssignGlobal \/ Jump
  BY <1>1, <1>3, PopRan, DefineGlobalRan, ReadGlobalRan, AssignGlobalRan, JumpRan
<1>4. CASE PushClosure \/ CallFunction \/ CallClass \/ CallMethod \/ CallSuperMethod \/ Return_
  BY <1>1, <1>4, PushClosureRan, CallFunctionRan, CallMethodRan, CallSuperMethodRan, ReturnRan
<1>5. CASE Class \/ Inheritance \/ Method \/ GetProperty \/ GetSuper \/ SetProperty
  BY <1>1, <1>5, ClassRan, InheritanceRan, MethodRan, GetPropertyRan, GetSuperRan, SetPropertyRan
<1>6. CASE GoesAstray \/ Asserts
  BY <1>1, <1>6, StopsRan
<1> QED
  BY <1>2, <1>3, <1>4, <1>5, <1>6 DEF Interpret

(* Where the script starts, and before.                                    *)
LEMMA FramesStay ==
  ASSUME Grows, CompiledOK(compiled), NEW vs, MachineAt(vs), frames' = frames, status' # "running"
  PROVE  FramesOK'
<1>1. IsSeq(frames) /\ Len(frames) \in Nat
  BY MachineIs
<1>2. ASSUME NEW i \in 1..Len(frames)
      PROVE  IsFrame(frames[i]) /\ ClosureOK(frames[i])' /\ frames[i].start \in 1..StackSize
             /\ (i < Len(frames) => ~AtMethod(frames[i])')
  <2>1. PICK f, cs, ds : f = frames[i] /\ cs = compiled /\ ds = compiled'
    OBVIOUS
  <2>2. IsFrame(f) /\ ClosureOK(f) /\ f.start \in 1..StackSize /\ (i < Len(frames) => ~AtMethod(f))
    <3>1. i < Len(frames) => i \in 1..Len(frames)-1
      BY <1>1
    <3> QED
      BY <2>1, <3>1 DEF MachineAt, FramesOK
  <2>3. ClosureOK(f)'
    BY <2>2, ClosuresStay
  <2>4. ds[f.function] = cs[f.function]
    BY <2>1, <2>2 DEF ClosureOK, Grows, Extends
  <2>5. AtMethod(f)' <=> AtMethod(f)
    BY <2>1, <2>4 DEF AtMethod
  <2>6. frames'[i] = f
    BY <2>1
  <2> QED
    BY <2>1, <2>2, <2>3, <2>5, <2>6
<1>3. \A i \in 1..Len(frames)-1 : i \in 1..Len(frames) /\ i < Len(frames)
  BY <1>1
<1>4. Len(frames) <= MaxFrames
  BY DEF MachineAt, FramesOK
<1> QED
  BY <1>1, <1>2, <1>3, <1>4 DEF FramesOK

LEMMA MachineStays ==
  ASSUME CompiledOK(compiled), Extends(compiled, compiled'), IsSeq(compiled'), MachineInv, UNCHANGED machine, status' # "running"
  PROVE  MachineInv'
<1>1. PICK vs : MachineAt(vs)
  BY DEF MachineInv
<1>2. /\ stack' = stack /\ frames' = frames /\ captures' = captures /\ cells' = cells /\ classes' = classes
      /\ instances' = instances /\ globals' = globals
  BY DEF machine, objects, captures
<1>3. Grows
  BY <1>1, <1>2, MachineIs DEF Grows, NoFewer
<1>4. (\A v \in vs : ValueOK(v, vs)') /\ ClassesOK' /\ CellsOK(vs)' /\ InstancesOK(vs)' /\ GlobalsOK(vs)' /\ StackOK(vs)'
  BY <1>1, <1>2, <1>3, ObjectsStay
<1>5. ValuesOK(vs)'
  BY <1>4 DEF ValuesOK
<1>6. FramesOK'
  BY <1>1, <1>2, <1>3, FramesStay
<1> QED
  BY <1>4, <1>5, <1>6 DEF MachineInv, MachineAt

LEMMA Starts_ == ASSUME CompiledOK(compiled), MachineInv, Finished, Start PROVE MachineInv'
<1>1. PICK vs : MachineAt(vs)
  BY DEF MachineInv
<1>2. PICK n, v, ws, s, f : /\ n = Len(compiled') /\ v = ClosureOf(n, <<>>) /\ ws = vs \cup {v} /\ s = Slot(0, v)
                            /\ f = [function |-> n, ip |-> 1, start |-> 1, cells |-> <<>>]
  OBVIOUS
<1>3. stack' = <<s>> /\ frames' = <<f>> /\ captures' = captures /\ cells' = cells /\ classes' = classes /\ instances' = instances /\ globals' = globals
  BY <1>2 DEF Start, objects, captures
<1>4. /\ CompiledOK(compiled)' /\ Extends(compiled, compiled') /\ n # 0 /\ compiled'[n].outsiders = <<>>
      /\ n \in 1..n
  BY <1>2 DEF Finished, CompiledOK, IsSeq
<1>5. Grows
  BY <1>1, <1>3, <1>4, MachineIs DEF Grows, NoFewer
<1>6. (\A u \in vs : ValueOK(u, ws)') /\ ClassesOK' /\ CellsOK(ws)' /\ InstancesOK(ws)' /\ GlobalsOK(ws)'
  <2>1. vs \subseteq ws
    BY <1>2
  <2> QED
    BY <1>1, <1>3, <1>5, <2>1, ObjectsStay
<1>7. v.kind = "closure" /\ v.function = n
  BY <1>2 DEF ClosureOf
<1>8. ClosureOK(v)' /\ ClosureOK(f)' /\ IsFrame(f)
  BY <1>2, <1>4, <1>7, EmptyIs DEF ClosureOK, IsFrame
<1>9. ValuesOK(ws)'
  <2>1. ValueOK(v, ws)'
    BY <1>7, <1>8 DEF ValueOK
  <2> QED
    BY <1>2, <1>6, <2>1 DEF ValuesOK
<1>10. IsSeq(stack') /\ Len(stack') = 1 /\ stack'[1] = s /\ IsSeq(frames') /\ Len(frames') = 1 /\ frames'[1] = f
  BY <1>3, TuplesAre
<1>11. s.value = v /\ IsSlot(s) /\ v \in ws /\ 1 <= StackSize /\ 1 \in 1..StackSize
  BY <1>2, SlotIs, MachineAssumption
<1>12. StackOK(ws)'
  <2>1. \A i \in 1..1 : i = 1
    OBVIOUS
  <2> QED
    BY <1>10, <1>11, <2>1 DEF StackOK, SlotsOK, SlotOK
<1>13. FramesOK'
  <2>1. \A i \in 1..1 : i = 1
    OBVIOUS
  <2>2. \A i \in 1..1-1 : FALSE
    OBVIOUS
  <2>3. f.start \in 1..StackSize
    BY <1>2, <1>11
  <2>4. 1 <= MaxFrames
    BY MachineAssumption
  <2> QED
    BY <1>7, <1>8, <1>10, <1>11, <2>1, <2>2, <2>3, <2>4 DEF FramesOK
<1> QED
  BY <1>6, <1>9, <1>12, <1>13 DEF MachineInv, MachineAt

LEMMA InitMachine == ASSUME MachineInit, status = "parsing" PROVE MachineInv
<1>1. PICK vs : vs = {NativeFunction}
  OBVIOUS
<1>2. /\ stack = <<>> /\ frames = <<>> /\ cells = <<>> /\ heap_values = <<>> /\ ordered = TRUE
      /\ classes = <<>> /\ instances = <<>>
      /\ globals = [n \in {Native} |-> NativeFunction]
  BY DEF MachineInit
<1>3. ValuesOK(vs)
  BY <1>1, PlainIs DEF ValuesOK
<1>4. StackOK(vs) /\ CellsOK(vs) /\ ClassesOK /\ InstancesOK(vs)
  BY <1>2, EmptyIs, MachineAssumption DEF StackOK, SlotsOK, CellsOK, ListOK, ClassesOK, InstancesOK
<1>5. GlobalsOK(vs)
  BY <1>1, <1>2 DEF GlobalsOK
<1>6. FramesOK
  <2>1. 0 <= MaxFrames
    BY MachineAssumption
  <2> QED
    BY <1>2, <2>1, EmptyIs DEF FramesOK
<1> QED
  BY <1>3, <1>4, <1>5, <1>6 DEF MachineInv, MachineAt

-----------------------------------------------------------------------------
(* What the invariant implies.                                             *)
LEMMA InvIsTyped == ASSUME Inv PROVE TypeOK
<1>1. PICK vs : MachineAt(vs)
  BY DEF Inv, MachineInv
<1>2. CompilerInv
  BY DEF Inv
<1>3. status \in Statuses /\ regular \in BOOLEAN /\ dialect \in Dialects
  BY <1>2 DEF CompilerInv
<1>4. /\ status = "parsing" => functions # <<>>
      /\ \A i \in DOMAIN functions : functions[i].depth \in Nat /\ Len(functions[i].locals) \in 1..MaxLocals
      /\ \A i \in DOMAIN breakpoints : breakpoints[i].operand \in Nat
  <2>1. CASE ParserDone
    BY <2>1 DEF ParserDone
  <2>2. CASE ParserBroken
    BY <2>2 DEF ParserBroken, IsSeq
  <2>3. CASE \E in : ParserOK(in)
    <3>1. PICK in : ParserOK(in)
      BY <2>3
    <3>2. FunctionsOK(functions, compiled) /\ BreakpointsOK(in, functions, open, breakpoints, Len(blocks))
      BY <3>1 DEF ParserOK, Parsing
    <3>3. functions # <<>>
      BY <3>2, EmptyIs DEF FunctionsOK
    <3>4. \A i \in DOMAIN functions : functions[i].depth \in Nat /\ Len(functions[i].locals) \in 1..MaxLocals
      BY <3>2 DEF FunctionsOK, FunctionOK, LocalsOK, IsSeq
    <3>5. \A i \in DOMAIN breakpoints : breakpoints[i].operand \in Nat
      BY <3>2 DEF BreakpointsOK, IsSeq
    <3> QED
      BY <3>3, <3>4, <3>5
  <2> QED
    BY <1>2, <2>1, <2>2, <2>3 DEF CompilerInv
<1>5. IsSeq(frames) /\ IsSeq(cells) /\ IsSeq(instances) /\ IsSeq(classes) /\ IsSeq(compiled) /\ Len(stack) <= StackSize
  BY <1>1, <1>2, MachineIs DEF CompilerInv, CompiledOK
<1>6. \A i \in DOMAIN frames : frames[i].function \in DOMAIN compiled
  BY <1>1, <1>5 DEF MachineAt, FramesOK, ClosureOK, IsSeq
<1>7. \A i \in DOMAIN cells : cells[i].at \in 0..StackSize+MaxLocals-1
  BY <1>1, <1>5 DEF MachineAt, CellsOK, CellOK, IsSeq
<1>8. \A i \in DOMAIN instances : instances[i].class \in DOMAIN classes
  BY <1>1, <1>5 DEF MachineAt, InstancesOK, InstanceOK, IsSeq
<1>9. Len(frames) <= MaxFrames
  BY <1>1 DEF MachineAt, FramesOK
<1>10. ToSet(heap_values) \subseteq DOMAIN cells /\ ordered \in BOOLEAN
  <2>1. ListOK(cells, heap_values, ordered)
    BY <1>1 DEF MachineAt, CellsOK
  <2> QED
    BY <1>5, <2>1 DEF ListOK, IsSeq, ToSet
<1> QED
  BY <1>3, <1>4, <1>5, <1>6, <1>7, <1>8, <1>9, <1>10 DEF TypeOK

-----------------------------------------------------------------------------
LEMMA InitInv == ASSUME Init PROVE Inv
  BY InitCompiler, InitMachine DEF Init, Inv, ParserInit

LEMMA NextInv == ASSUME Inv, [Next]_vars PROVE Inv'
<1>1. CompilerInv /\ MachineInv /\ CompiledOK(compiled)
  BY DEF Inv, CompilerInv
<1>2. CASE Compiling
  <2>1. CompilerInv' /\ (Kept \/ Finished)
    BY <1>1, <1>2, ParsingKeepsCompiler DEF Compiling
  <2>2. CASE Kept
    <3>1. status' # "running" /\ UNCHANGED machine
      BY <1>2, <2>2 DEF Compiling, Kept
    <3>2. Extends(compiled, compiled') /\ IsSeq(compiled')
      BY <2>2 DEF Kept, CompiledOK
    <3> QED
      BY <1>1, <2>1, <3>1, <3>2, MachineStays DEF Inv
  <2>3. CASE Finished
    <3>1. Start
      BY <1>2, <2>3 DEF Compiling, Finished
    <3> QED
      BY <1>1, <2>1, <2>3, <3>1, Starts_ DEF Inv
  <2> QED
    BY <2>1, <2>2, <2>3
<1>3. CASE Running
  <2>1. Ran /\ UNCHANGED parser
    BY <1>1, <1>3, InterpretRan DEF Running
  <2>2. status = "running"
    BY <1>3, Zenon DEF Running, Interpret, Execute, PushLiteral, CopyFromIdx, CopyTopToIdx, CopyFromHeap, MoveTopToHeap,
       MoveValueToHeap, Pop, DefineGlobal, ReadGlobal, AssignGlobal, Jump, PushClosure, CallFunction, CallClass, CallMethod,
       CallSuperMethod, Return_, Class, Inheritance, Method, GetProperty, GetSuper, SetProperty, GoesAstray, Asserts
  <2>3. CompilerInv'
    BY <1>1, <2>1, <2>2, RunKeepsCompiler DEF Ran
  <2> QED
    BY <2>1, <2>3 DEF Inv, Ran
<1>4. CASE UNCHANGED vars
  <2>1. CompilerInv'
    BY <1>1, <1>4, CompilerUnchanged
  <2>2. /\ compiled' = compiled /\ status' = status /\ stack' = stack /\ frames' = frames /\ captures' = captures
        /\ cells' = cells /\ classes' = classes /\ instances' = instances /\ globals' = globals
    BY <1>4 DEF vars, machine, objects, captures
  <2>3. PICK vs : MachineAt(vs)
    BY <1>1 DEF MachineInv
  <2>4. MachineAt(vs)'
    <3>1. FramesOK'
      BY <2>2, <2>3 DEF MachineAt, FramesOK, ClosureOK, AtMethod
    <3>2. Grows
      BY <1>1, <2>2, <2>3, GrowsSame
    <3>3. (\A v \in vs : ValueOK(v, vs)') /\ ClassesOK' /\ CellsOK(vs)' /\ InstancesOK(vs)' /\ GlobalsOK(vs)' /\ StackOK(vs)'
      BY <1>1, <2>2, <2>3, <3>2, ObjectsStay
    <3> QED
      BY <3>1, <3>3 DEF MachineAt, ValuesOK
  <2> QED
    BY <2>1, <2>4 DEF Inv, MachineInv
<1> QED
  BY <1>2, <1>3, <1>4 DEF Next

LEMMA AlwaysInv == Spec => []Inv
  BY InitInv, NextInv, PTL DEF Spec

(* Every variable has its type: the limits of locals and of the stack are  *)
(* kept, and what runs is a function that was compiled.                    *)
THEOREM ProgramIsTyped == Spec => []TypeOK
  BY AlwaysInv, InvIsTyped, PTL

(* In every regular program, nested in any way and as long as it may be,   *)
(* each jump has been told where to go when the run starts, in the code of *)
(* its own function.                                                       *)
THEOREM JumpsAreTold == Spec => []JumpsArePatched
<1>1. Inv => JumpsArePatched
  BY CompiledJumps DEF Inv
<1> QED
  BY <1>1, AlwaysInv, PTL
=============================================================================
