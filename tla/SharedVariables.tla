--------------------------- MODULE SharedVariables ---------------------------
(***************************************************************************)
(* What closures promise the programmer (README, "Closures"): a variable   *)
(* that a closure captured is one variable, shared by the function that    *)
(* declared it and by every closure that captured it, while its slot is on *)
(* the stack and after.  A handle is what a closure holds.                 *)
(***************************************************************************)
EXTENDS Naturals

CONSTANTS
  Handles,   (* what closures hold of the variables they captured          *)
  Values,    (* values of variables                                        *)
  Unused,    (* a handle not given out yet                                 *)
  Detached   (* a handle whose variable has left the stack                 *)

VARIABLES
  height,    (* how many slots the stack has                               *)
  locals,    (* their values, slot 0 first                                 *)
  bound,     (* the slot each handle shares                                *)
  value      (* the value of each detached handle                          *)

vars == <<height, locals, bound, value>>

Slots == 0..height-1

Init ==
  /\ height = 1
  /\ locals \in [Slots -> Values]
  /\ bound = [h \in Handles |-> Unused]
  /\ value \in [Handles -> Values]

(* The first n slots stay, and v is pushed on top of them.                 *)
Placed(n, v) == [i \in 0..n |-> IF i = n THEN v ELSE locals[i]]

Push(v) ==
  /\ height' = height + 1
  /\ locals' = Placed(height, v)
  /\ UNCHANGED <<bound, value>>

(* The variable of slot s is captured: whoever captured it first, there is *)
(* one handle for it.                                                      *)
Capture(s) ==
  /\ IF \E h \in Handles : bound[h] = s
     THEN UNCHANGED bound
     ELSE \E h \in Handles : /\ bound[h] = Unused
                             /\ bound' = [bound EXCEPT ![h] = s]
  /\ UNCHANGED <<height, locals, value>>

Assign(s, v) ==
  /\ locals' = [locals EXCEPT ![s] = v]
  /\ UNCHANGED <<height, bound, value>>

AssignThrough(h, v) ==
  /\ bound[h] # Unused
  /\ IF bound[h] = Detached
     THEN value' = [value EXCEPT ![h] = v] /\ UNCHANGED locals
     ELSE locals' = [locals EXCEPT ![bound[h]] = v] /\ UNCHANGED value
  /\ UNCHANGED <<height, bound>>

(* Slots n and above leave the stack; their variables live on, with the    *)
(* values they had, in the handles that share them.                        *)
Leaving(n) == {h \in Handles : bound[h] \in n..height-1}

Detach(n) ==
  /\ bound' = [h \in Handles |-> IF h \in Leaving(n) THEN Detached ELSE bound[h]]
  /\ value' = [h \in Handles |-> IF h \in Leaving(n) THEN locals[bound[h]] ELSE value[h]]

Pop(n) ==
  /\ height' = n
  /\ locals' = [i \in 0..n-1 |-> locals[i]]
  /\ Detach(n)

(* A call ends: its slots leave and its result takes the callee's place.   *)
Return(n, v) ==
  /\ height' = n + 1
  /\ locals' = Placed(n, v)
  /\ Detach(n)

Next ==
  \/ \E v \in Values : Push(v)
  \/ \E s \in Slots : Capture(s) \/ Pop(s)
  \/ \E s \in Slots, v \in Values : Assign(s, v) \/ Return(s, v)
  \/ \E h \in Handles, v \in Values : AssignThrough(h, v)

Spec == Init /\ [][Next]_vars

=============================================================================
