------------------------------ MODULE PyFloat ------------------------------
(***************************************************************************)
(* The Python type mantix._core.Float (_core.c): a program with names for  *)
(* objects runs one statement after the other under the interpreter's      *)
(* lock.  A Float is reference counted memory with an mtx_float in it; a   *)
(* statement converts its operands, allocates its result, has mantix.h     *)
(* compute it, clears its temporaries and drops its references, one action *)
(* for each of these.                                                      *)
(***************************************************************************)
EXTENDS FloatStore, SequencesExt

CONSTANTS
  Cells,          \* memory for Floats
  V, W, Tmp,      \* the mtx_floats the functions declare
  Names,          \* of the program
  Number, Other,  \* an operand that is a Python number, or not convertible
  None,
  FreeListMax,
  DefaultPrecision

Temps == {V, W, Tmp}

ASSUME PyAssumption ==
  /\ Objects = Cells \cup Temps /\ Cells \cap Temps = {}
  /\ V # W /\ Tmp \notin {V, W}
  /\ {Number, Other, None} \cap Objects = {}
  /\ IsFiniteSet(Names)
  /\ FreeListMax \in Nat /\ DefaultPrecision \in Precisions \ {0}

VARIABLES
  refs,      \* reference count of every cell, 0 for one not live
  freelist,  \* the type's free list, its end is taken first
  names,     \* the Float a name refers to, or None
  call,      \* the running statement
  pc

pyVars == <<refs, freelist, names, call, pc>>
vars == <<storeVars, pyVars>>

Idle == [op |-> "none", target |-> None, args |-> <<>>, res |-> None,
         drops |-> <<>>, raised |-> FALSE]

PyInit ==
  /\ Init
  /\ refs = [c \in Cells |-> 0]
  /\ freelist = <<>>
  /\ names = [x \in Names |-> None]
  /\ call = Idle
  /\ pc = "idle"

Bound == {names[x] : x \in Names} \ {None}

Operands == Bound \cup {Number, Other}

Occurrences(s, c) == Cardinality({i \in DOMAIN s : s[i] = c})

\* Py_INCREF of the cells among the operands.
WithRefs(s) == [c \in Cells |-> refs[c] + Occurrences(s, c)]

-----------------------------------------------------------------------------
(* How a statement starts and ends *)

\* The statement has come to step p, and the program has not gone wrong.
At(p) == pc = p /\ ~undef

\* x = op(args); the interpreter holds references to the operands.
Begin(op, x, args, next) ==
  /\ At("idle")
  /\ call' = [Idle EXCEPT !.op = op, !.target = x, !.args = args]
  /\ refs' = WithRefs(args)
  /\ pc' = next
  /\ UNCHANGED <<storeVars, freelist, names>>

\* The references still to be dropped, and the name bound to the result.
Finish(res, lost) ==
  LET old == IF res = None THEN <<>> ELSE <<names[call.target]>>
  IN  /\ names' = IF res = None THEN names ELSE [names EXCEPT ![call.target] = res]
      /\ call' = [Idle EXCEPT !.drops = call.args \o lost \o old]
      /\ pc' = "drop"

\* Mutant: the result is not given back.
RaiseKeepsResult == Finish(None, <<>>) /\ UNCHANGED <<refs, freelist>>

\* The function returns an object, or NULL and gives back what it allocated.
Return == Finish(call.res, <<>>) /\ UNCHANGED <<refs, freelist>>
Raise == Finish(None, <<call.res>>) /\ UNCHANGED <<refs, freelist>>

\* Mutant: one more than there is room for.
RoomPlusOne == Len(freelist) <= FreeListMax

Room == Len(freelist) < FreeListMax

\* MantixFloat_dealloc: the fields stay as they are.
Dealloc(c) ==
  /\ heap' = Freed({c})
  /\ freelist' = IF Room THEN Append(freelist, c) ELSE freelist

\* Py_DECREF; the counts of what is no Float are left aside.
Drop ==
  /\ At("drop") /\ call.drops # <<>>
  /\ LET c == Head(call.drops)
     IN  /\ refs' = IF c \in Cells THEN [refs EXCEPT ![c] = @ - 1] ELSE refs
         /\ IF c \in Cells /\ refs[c] = 1 THEN Dealloc(c)
            ELSE UNCHANGED <<heap, freelist>>
  /\ call' = [call EXCEPT !.drops = Tail(@)]
  /\ UNCHANGED <<obj, status, undef, names, pc>>

End ==
  /\ At("drop") /\ call.drops = <<>>
  /\ pc' = "idle"
  /\ UNCHANGED <<storeVars, refs, freelist, names, call>>

-----------------------------------------------------------------------------
(* Operands and results *)

\* Where mantix.h finds an operand: a Float lends its fields.
Place(i) == IF call.args[i] \in Cells THEN call.args[i] ELSE <<V, W>>[i]

Floats == {call.args[i] : i \in DOMAIN call.args} \cap Cells

\* The highest precision of the Floats among the operands; numbers, new
\* objects and dot products have the default.
ResultPrecision ==
  IF Floats = {} \/ call.op \in {"new", "dot"} THEN DefaultPrecision
  ELSE Max({obj[c].precision : c \in Floats})

Unconvertible == \E i \in DOMAIN call.args : call.args[i] = Other

\* to_mantix_float of the operands: a number fits the inline limb.  A NaN is as
\* good as no number.
Convert(next) ==
  /\ ~Unconvertible
  /\ \E n \in 0..1 :
       obj' = [o \in Objects |->
                 IF \E i \in DOMAIN call.args : call.args[i] = Number /\ Place(i) = o
                   THEN [Fresh(ResultPrecision) EXCEPT !.used = n] ELSE obj[o]]
  /\ pc' = next
  /\ UNCHANGED <<heap, status, undef, refs, freelist, names, call>>

\* Otherwise what was converted is cleared, and the operator is not
\* implemented; a dot product goes on without the product.
ConvertFails ==
  /\ Unconvertible
  /\ IF call.op = "dot"
       THEN pc' = "next" /\ UNCHANGED <<refs, freelist, names, call>>
       ELSE Raise
  /\ UNCHANGED storeVars

ConvertOperands ==
  /\ At("convert")
  /\ \/ ConvertFails
     \/ Convert(CASE call.op = "compare" -> "clear"
                  [] call.op = "dot"     -> "product"
                  [] OTHER               -> "alloc")

\* Mutant: memory from the free list keeps its limbs.
ResetLessLimbs(c, p) ==
  IF freelist = <<>> THEN Fresh(p) ELSE [obj[c] EXCEPT !.precision = p, !.used = 0]

\* The fields of the mtx_float in memory that is handed out.
Reset(c, p) == Fresh(p)

\* mantix_float_alloc: the free list first, then PyObject_Malloc.
Alloc ==
  /\ At("alloc")
  /\ \E c \in Cells :
       /\ IF freelist = <<>> THEN refs[c] = 0 ELSE c = Last(freelist)
       /\ refs' = [refs EXCEPT ![c] = 1]
       /\ obj' = [obj EXCEPT ![c] = Reset(c, ResultPrecision)]
       /\ call' = [call EXCEPT !.res = c]
  /\ freelist' = IF freelist = <<>> THEN <<>> ELSE Front(freelist)
  /\ pc' = CASE call.op = "new"              -> "precision"
             [] call.op \in {"fma", "dot"}   -> "temporary"
             [] OTHER                        -> "compute"
  /\ UNCHANGED <<heap, status, undef, names>>

AllocFails ==
  /\ At("alloc") /\ freelist = <<>>
  /\ call' = [call EXCEPT !.raised = TRUE]
  /\ pc' = "clear"
  /\ UNCHANGED <<storeVars, refs, freelist, names>>

-----------------------------------------------------------------------------
(* What mantix.h computes *)

\* A copy of n limbs into x.
Copies(x, n) ==
  Fits(x, n) \/ Grows(x, n, n) \/ (n > obj[x].capacity /\ Fails("out_of_memory"))

\* A sum, product, quotient or root into x.
Computes(x) ==
  \/ \E n \in Sizes : Fits(x, n) \/ \E m \in Sizes : Grows(x, m, n)
  \/ Fails("out_of_memory")
  \/ Overruns(x)

ByZero(i) == obj[Place(i)].used = 0

Continue(next) == pc' = next /\ UNCHANGED <<refs, freelist, names, call>>

\* Statuses of sums and copies are not looked at.
Compute ==
  /\ At("compute")
  /\ CASE call.op = "neg"  -> Copies(call.res, obj[Place(1)].used)
       [] call.op = "add"  -> Computes(call.res)
       [] call.op = "div"  -> IF ByZero(2) THEN Fails("division_by_zero")
                              ELSE Computes(call.res)
       [] call.op = "sqrt" -> Computes(call.res) \/ Fails("invalid_argument")
  /\ Continue("clear")

\* A temporary for the product of fma, or of the items of dot.
Temporary ==
  /\ At("temporary")
  /\ InitObject(Tmp, obj[call.res].precision)
  /\ Continue(IF call.op = "fma" THEN "product" ELSE "items")

Product ==
  /\ At("product")
  /\ Computes(Tmp)
  /\ Continue("sum")

Sum ==
  /\ At("sum")
  /\ Computes(call.res)
  /\ Continue(IF call.op = "fma" THEN "clear" ELSE "next")

\* The next items of the sequences, or an exception from one of them, or their
\* end.
Items ==
  /\ At("items")
  /\ \/ \E v, w \in Operands :
          /\ call' = [call EXCEPT !.args = <<v, w>>]
          /\ refs' = WithRefs(<<v, w>>)
          /\ pc' = "convert"
     \/ \E raised \in BOOLEAN :
          /\ call' = [call EXCEPT !.raised = raised]
          /\ pc' = "clear"
          /\ UNCHANGED refs
  /\ UNCHANGED <<storeVars, freelist, names>>

\* mtx_clear of the objects X, the others as they are.
Clears(X) ==
  /\ obj' = [o \in Objects |-> IF o \in X THEN Unset ELSE obj[o]]
  /\ heap' = Freed(X)
  /\ UNCHANGED <<status, undef>>

\* The items are given back; the sequences hold them too.
NextItem ==
  /\ At("next")
  /\ Clears({V, W})
  /\ refs' = [c \in Cells |-> refs[c] - Occurrences(call.args, c)]
  /\ call' = [call EXCEPT !.args = <<>>]
  /\ pc' = "items"
  /\ UNCHANGED <<freelist, names>>

Failed ==
  \/ call.raised
  \/ call.op = "div" /\ status = "division_by_zero"
  \/ call.op = "sqrt" /\ status # "ok"

Clear ==
  /\ At("clear")
  /\ Clears(Temps)
  /\ IF Failed THEN Raise ELSE Return

-----------------------------------------------------------------------------
(* What changes a Float the program has *)

\* Mutant: the operand is returned without a reference of its own.
BorrowedRef(c) == refs

NewRef(c) == [refs EXCEPT ![c] = @ + 1]

\* iadd, isub, imul and idiv of two Floats compute into the first.
InPlace ==
  /\ At("in_place")
  /\ LET self == call.args[1]
     IN  \/ call.op = "idiv" /\ ByZero(2) /\ Fails("division_by_zero") /\ Raise
         \/ /\ ~(call.op = "idiv" /\ ByZero(2))
            /\ Computes(self)
            /\ refs' = NewRef(self)
            /\ Finish(self, <<>>)
            /\ UNCHANGED freelist

\* MantixFloat_init on a new object or on one the program has.
Subject == IF call.op = "new" THEN call.res ELSE call.args[1]
Value == Last(call.args)

\* A precision of 0, or none, leaves the one there is.
SetPrecision ==
  /\ At("precision")
  /\ \E p \in Precisions :
       obj' = IF p = 0 THEN obj ELSE [obj EXCEPT ![Subject].precision = p]
  /\ Continue("value")
  /\ UNCHANGED <<heap, status, undef>>

SetValue ==
  /\ At("value")
  /\ \/ Value = None /\ Fits(Subject, 0) /\ Return
     \/ Value = Number /\ (\E n \in 0..1 : Fits(Subject, n)) /\ Return
     \/ Value = Other /\ Fails("invalid_argument") /\ Raise
     \/ /\ Value \in Cells
        /\ Copies(Subject, obj[Value].used)
        /\ IF status' = "ok" THEN Return ELSE Raise

-----------------------------------------------------------------------------
(* Statements *)

\* x = v + w and the like; x = v / w; v < w and the like.
Binary(op) ==
  \E x \in Names, v, w \in Operands :
    /\ v \in Cells \/ w \in Cells
    /\ Begin(op, x, <<v, w>>,
             IF op # "compare" /\ v \in Cells /\ w \in Cells THEN "alloc" ELSE "convert")

\* x += w and the like; x /= w.
Augmented(op) ==
  \E x \in Names, w \in Bound :
    names[x] # None /\ Begin(op, x, <<names[x], w>>, "in_place")

\* x = -v, x = abs(v); x = sqrt(v).
Negate == \E x \in Names, v \in Bound : Begin("neg", x, <<v>>, "alloc")
Sqrt == \E x \in Names, v \in Operands : Begin("sqrt", x, <<v>>, "convert")

\* x = fma(a, b, c); x = dot(s, t).
Fma == \E x \in Names, a, b, c \in Bound : Begin("fma", x, <<a, b, c>>, "alloc")
Dot == \E x \in Names : Begin("dot", x, <<>>, "alloc")

\* x = Float(v, p); y.__init__(v, p).
New == \E x \in Names, v \in Operands \cup {None} : Begin("new", x, <<v>>, "alloc")
InitAgain ==
  \E y \in Bound, v \in Operands \cup {None} : Begin("init", None, <<y, v>>, "precision")

\* x = y; del x.
Assign ==
  /\ At("idle")
  /\ \E x \in Names, to \in Bound \cup {None} :
       /\ names' = [names EXCEPT ![x] = to]
       /\ refs' = WithRefs(<<to>>)
       /\ call' = [Idle EXCEPT !.drops = <<names[x]>>]
  /\ pc' = "drop"
  /\ UNCHANGED <<storeVars, freelist>>

Statement ==
  \/ \E op \in {"add", "div", "compare"} : Binary(op)
  \/ \E op \in {"iadd", "idiv"} : Augmented(op)
  \/ Negate \/ Sqrt \/ Fma \/ Dot \/ New \/ InitAgain \/ Assign

PyNext ==
  \/ Statement
  \/ ConvertOperands \/ Alloc \/ AllocFails
  \/ Compute \/ Temporary \/ Product \/ Sum \/ Items \/ NextItem \/ Clear
  \/ InPlace \/ SetPrecision \/ SetValue
  \/ Drop \/ End

PySpec == PyInit /\ [][PyNext]_vars

-----------------------------------------------------------------------------
(* Properties *)

Owners == {c \in Cells : refs[c] > 0} \cup Temps

ObjectType == [limbs : Blocks \cup {Null, Inline}, capacity : Nat,
               precision : Nat, used : Nat]

\* What a reference refers to.
References == Cells \cup {Number, Other, None}

CallType ==
  [op : {"none", "add", "div", "compare", "iadd", "idiv", "neg", "sqrt", "fma",
         "dot", "new", "init"},
   target : Names \cup {None}, args : Seq(References), res : Cells \cup {None},
   drops : Seq(References), raised : BOOLEAN]

\* The types of the state, the fields of dead memory included.
PyTypeOK ==
  /\ obj \in [Objects -> ObjectType] /\ heap \in [Blocks -> Nat]
  /\ status \in Failures \cup {"ok"} /\ undef \in BOOLEAN
  /\ refs \in [Cells -> Nat]
  /\ freelist \in Seq(Cells) /\ Len(freelist) <= FreeListMax
  /\ names \in [Names -> Cells \cup {None}]
  /\ call \in CallType
  /\ pc \in {"idle", "convert", "alloc", "compute", "temporary", "product", "sum",
             "items", "next", "clear", "in_place", "precision", "value", "drop"}

\* A Float lives exactly as long as someone has it: its count is the number of
\* names, operands, results and references to be dropped that refer to it, and
\* memory in the free list, once each, has none.
RefCountsRight ==
  /\ \A c \in Cells :
       refs[c] = Cardinality({x \in Names : names[x] = c})
                 + Occurrences(call.args \o call.drops, c)
                 + (IF call.res = c THEN 1 ELSE 0)
  /\ IsInjective(freelist)
  /\ \A i \in DOMAIN freelist : refs[freelist[i]] = 0

\* Every block on the heap belongs to one live Float or temporary, which knows
\* its size; dead memory in the free list still points to blocks others have by
\* now.  Between statements the temporaries have none.
PyStorageOK ==
  /\ \A o \in Owners :
       /\ obj[o].limbs = Inline => obj[o].capacity = 1
       /\ obj[o].limbs \in Blocks => heap[obj[o].limbs] = obj[o].capacity /\ obj[o].capacity > 0
       /\ ~undef => obj[o].used <= obj[o].capacity
  /\ \A o, q \in Owners : obj[o].limbs \in Blocks /\ obj[o].limbs = obj[q].limbs => o = q
  /\ \A k \in Blocks : heap[k] > 0 => \E o \in Owners : obj[o].limbs = k
  /\ pc = "idle" => \A t \in Temps : obj[t].limbs \notin Blocks

\* A Float that a name refers to changes its number or precision only by an
\* augmented assignment to it or by its __init__; a division by zero leaves it
\* as it was.
OnlyTargetChanges ==
  [][\A x \in Names :
       names[x] # None /\ obj'[names[x]] # obj[names[x]] =>
         /\ call.op \in {"iadd", "idiv", "init"}
         /\ names[x] = call.args[1]
         /\ call.op = "idiv" => obj[call.args[2]].used # 0]_vars
=============================================================================
