----------------------- MODULE ImagePromises_proofs -------------------------
(***************************************************************************)
(* What ImagePromises promises, proved of the operations that are one      *)
(* launch (Elementary), for every triple of arrays a caller may hold and   *)
(* every radius.  The proof follows a call: a destination is made or       *)
(* checked (tier0.cpp), one launch is queued (execution.cpp), the device   *)
(* carries it out, and the caller finds its arrays and the result.  The    *)
(* inductive invariant says that a machine between two calls has come      *)
(* about in this way; every promise follows from it.                       *)
(***************************************************************************)
EXTENDS ImagePromises, Tier0_proofs

-----------------------------------------------------------------------------
(* Destinations *)

Shapes == [1..3 -> Nat \ {0}]
Handle == [mem : Nat \ {0}, shape : Shapes, dim : 1..3, type : dType]

\* The fields of a state of the arrays.
Fields == {"arrays", "memory", "ret", "thrown", "faults", "passes", "host", "queue"}
IsMachine(m) == m = [field \in Fields |-> m[field]]

\* The arrays as a call finds them: written, each in a memory of its own.
Callable(m) ==
  /\ IsMachine(m) /\ m.thrown = FALSE /\ m.faults = {} /\ m.queue = <<>>
  /\ m.arrays \in Seq(Handle) /\ Len(m.arrays) \in Held..Result
  /\ \A p \in 1..Len(m.arrays) : m.arrays[p].mem = p
  /\ m.memory = [k \in 1..Len(m.arrays) |-> Mark(k)]

Pointers(m) == 1..Len(m.arrays)

\* The pointer of a destination, supplied or created.
To(m, d) == IF d = Null THEN Len(m.arrays) + 1 ELSE d

\* after has a destination at hand that m may not have, and nothing else.
Holds(m, after, d, shape, dim) ==
  /\ IsMachine(after) /\ after.thrown = FALSE /\ after.faults = {}
  /\ after.ret = <<To(m, d)>>
  /\ d = Null =>
       /\ \E type \in dType :
            after.arrays = Append(m.arrays, [mem |-> Len(m.memory) + 1, dim |-> dim,
                                             type |-> type, shape |-> shape])
       /\ after.memory = Append(m.memory, Unwritten)
  /\ d # Null => after.arrays = m.arrays /\ after.memory = m.memory

\* The destination is all that has happened.
Made(m, made, d, shape, dim) == Holds(m, made, d, shape, dim) /\ made.queue = <<>>

\* A call that is refused has done nothing.
Refused(m, after) ==
  /\ IsMachine(after) /\ after.thrown = TRUE /\ after.faults = {} /\ after.queue = <<>>
  /\ after.arrays = m.arrays /\ after.memory = m.memory

\* Naming the result changes nothing else.
LEMMA ReturnIs ==
  ASSUME NEW m, IsMachine(m), NEW p
  PROVE  /\ IsMachine(Return(m, p)) /\ Return(m, p).ret = <<p>> /\ Ret(Return(m, p)) = p
         /\ Return(m, p).arrays = m.arrays /\ Return(m, p).memory = m.memory
         /\ Return(m, p).thrown = m.thrown /\ Return(m, p).faults = m.faults
         /\ Return(m, p).queue = m.queue
BY DEF IsMachine, Fields, Return, Ret

\* Throwing changes nothing else.
LEMMA ThrowIs ==
  ASSUME NEW m, IsMachine(m)
  PROVE  /\ IsMachine(Throw(m)) /\ Throw(m).ret = m.ret
         /\ Throw(m).arrays = m.arrays /\ Throw(m).memory = m.memory
         /\ Throw(m).thrown = TRUE /\ Throw(m).faults = m.faults
         /\ Throw(m).queue = m.queue
BY DEF IsMachine, Fields, Throw

\* Extents are at least 1 already.
LEMMA ShapeIsKept ==
  ASSUME NEW shape \in Shapes
  PROVE  [i \in 1..3 |-> Max({shape[i], 1})] = shape
<1>1. \A i \in 1..3 : shape[i] \in Nat \ {0} /\ Max({shape[i], 1}) = shape[i]
  BY MaxOfTwo DEF Shapes
<1> QED
  BY <1>1 DEF Shapes

\* Array::create adds an array with a memory of its own (array.cpp).
LEMMA CreateMade ==
  ASSUME NEW m, Callable(m), NEW shape \in Shapes, NEW dim, NEW type \in dType
  PROVE  Made(m, Create(m, shape, dim, type), Null, shape, dim)
<1> DEFINE new == [mem |-> Len(m.memory) + 1, dim |-> dim, type |-> type, shape |-> shape]
           made == [m EXCEPT !.memory = Append(@, Unwritten), !.arrays = Append(@, new),
                             !.ret = <<Len(m.arrays) + 1>>]
<1>1. Create(m, shape, dim, type) = made
  BY ShapeIsKept DEF Create, Callable
<1> HIDE DEF new
<1>2. /\ IsMachine(made) /\ made.thrown = FALSE /\ made.faults = {} /\ made.queue = <<>>
      /\ made.ret = <<Len(m.arrays) + 1>>
      /\ made.arrays = Append(m.arrays, new) /\ made.memory = Append(m.memory, Unwritten)
  BY DEF IsMachine, Fields, Callable
<1> HIDE DEF made
<1>3. \E t \in dType : new = [mem |-> Len(m.memory) + 1, dim |-> dim, type |-> t,
                              shape |-> shape]
  BY DEF new
<1> QED
  BY <1>1, <1>2, <1>3 DEF Made, Holds, To

\* A destination is there, or the one supplied is refused.
LEMMA DestinationMade ==
  ASSUME NEW m, Callable(m), NEW src \in Pointers(m), NEW d \in {Null} \cup Pointers(m),
         NEW shape \in Shapes, NEW dim, NEW checked, NEW sameShape, NEW type,
         TypeOr(m, src, type) \in dType
  PROVE  LET made == Destination(m, src, d, shape, dim, checked, sameShape, type)
             accepted == d # Null => /\ sameShape => m.arrays[d].shape = shape
                                     /\ checked # 0 => m.arrays[d].dim = checked
         IN  (accepted => Made(m, made, d, shape, dim)) /\ (~accepted => Refused(m, made))
<1> DEFINE made == Destination(m, src, d, shape, dim, checked, sameShape, type)
           accepted == d # Null => /\ sameShape => m.arrays[d].shape = shape
                                   /\ checked # 0 => m.arrays[d].dim = checked
<1> SUFFICES (accepted => Made(m, made, d, shape, dim)) /\ (~accepted => Refused(m, made))
  BY Zenon
<1>1. IsMachine(m) /\ m.thrown = FALSE /\ src # Null /\ m.faults = {} /\ m.queue = <<>>
  BY DEF Callable, Pointers, Null
<1>2. CASE d = Null
  <2>1. made = Create(m, shape, dim, TypeOr(m, src, type))
    BY <1>1, <1>2 DEF Destination
  <2>2. accepted
    BY <1>2
  <2> QED
    BY <1>2, <2>1, <2>2, CreateMade
<1>3. CASE d # Null
  <2>1. Array(m, d) = m.arrays[d]
    BY <1>1 DEF Array
  <2>2. made = Require(Return(m, d), accepted)
    BY <1>1, <1>3, <2>1 DEF Destination, Shape
  <2>3. Return(m, d).thrown = FALSE
    BY <1>1, ReturnIs
  <2> HIDE DEF made, accepted
  <2>4. ASSUME accepted
        PROVE  Made(m, made, d, shape, dim)
    <3>1. made = Return(m, d)
      BY <2>2, <2>4 DEF Require
    <3> QED
      BY <1>1, <1>3, <3>1, ReturnIs DEF Made, Holds, To
  <2>5. ASSUME ~accepted
        PROVE  Refused(m, made)
    <3>1. made = Throw(Return(m, d))
      BY <2>2, <2>3, <2>5 DEF Require
    <3>2. /\ IsMachine(Return(m, d)) /\ Return(m, d).faults = {} /\ Return(m, d).queue = <<>>
          /\ Return(m, d).arrays = m.arrays /\ Return(m, d).memory = m.memory
      BY <1>1, ReturnIs
    <3> QED
      BY <3>1, <3>2, ThrowIs DEF Refused
  <2> QED
    BY <2>4, <2>5
<1> QED
  BY <1>2, <1>3

-----------------------------------------------------------------------------
(* One launch *)

\* One launch into a destination that is at hand: it covers one that is created, or that
\* has the extents it would have been created with.
Launched(m, after, srcs, d, kernel, shape, dim) ==
  /\ Holds(m, after, d, shape, dim)
  /\ \E extents \in [1..3 -> Int] :
       /\ after.queue = <<[kernel |-> kernel, srcs |-> srcs, dsts |-> <<To(m, d)>>,
                           range |-> extents]>>
       /\ d = Null \/ m.arrays[d].shape = shape =>
            Covers(kernel, extents, after.arrays[To(m, d)].shape)

\* The sources of a launch, one or two.
Sources(m) == {<<a>> : a \in Pointers(m)} \cup {<<a, b>> : a, b \in Pointers(m)}

\* No pointer of a launch between arrays that are there is null.
LEMMA NoNull ==
  ASSUME NEW m, NEW srcs \in Sources(m), NEW to \in Nat \ {0}
  PROVE  Null \notin ToSet(srcs \o <<to>>)
<1>1. CASE \E a \in Pointers(m) : srcs = <<a>>
  BY <1>1 DEF ToSet, Null, Pointers
<1>2. CASE \E a, b \in Pointers(m) : srcs = <<a, b>>
  BY <1>2 DEF ToSet, Null, Pointers
<1> QED
  BY <1>1, <1>2 DEF Sources

\* Facts about sequences the provers do not find about the fields of a record.
LEMMA LengthHeld ==
  ASSUME NEW s, Len(s) \in Held..Result
  PROVE  Len(s) \in Nat /\ Len(s) # 0 /\ (Len(s) = Held \/ Len(s) = Result)
BY DEF Held, Result

\* Appending to nothing.
LEMMA AppendFirst == \A e : Append(<<>>, e) = <<e>>
OBVIOUS

\* Appending adds one element and keeps the others.
LEMMA AppendLast ==
  ASSUME NEW S, NEW s \in Seq(S), NEW e \in S
  PROVE  /\ Append(s, e) \in Seq(S) /\ Len(Append(s, e)) = Len(s) + 1
         /\ DOMAIN Append(s, e) = 1..(Len(s) + 1)
         /\ Append(s, e)[Len(s) + 1] = e
         /\ \A p \in 1..Len(s) : Append(s, e)[p] = s[p]
OBVIOUS

\* The elements of a sequence are those it was made of.
LEMMA SequenceIs ==
  ASSUME NEW S, NEW s \in Seq(S)
  PROVE  Len(s) \in Nat /\ DOMAIN s = 1..Len(s) /\ \A p \in 1..Len(s) : s[p] \in S
OBVIOUS

\* The pointer and the array of a destination that is at hand.
LEMMA HeldArray ==
  ASSUME NEW m, Callable(m), NEW d \in {Null} \cup Pointers(m), NEW shape \in Shapes,
         NEW dim \in 1..3, NEW made, Holds(m, made, d, shape, dim)
  PROVE  /\ To(m, d) \in Nat \ {0} /\ Ret(made) = To(m, d)
         /\ made.arrays \in Seq(Handle) /\ To(m, d) \in DOMAIN made.arrays
         /\ Shape(made, To(m, d)) \in Shapes
         /\ Shape(made, To(m, d)) = made.arrays[To(m, d)].shape
         /\ d = Null => made.arrays[To(m, d)].shape = shape
         /\ d # Null => made.arrays[To(m, d)].shape = m.arrays[d].shape
         /\ \A p \in Pointers(m) : made.arrays[p] = m.arrays[p]
<1>1. made.thrown = FALSE /\ made.ret = <<To(m, d)>>
  BY DEF Holds
<1>2. m.arrays \in Seq(Handle) /\ Len(m.arrays) \in Nat /\ Len(m.arrays) # 0
  <2>1. m.arrays \in Seq(Handle) /\ Len(m.arrays) \in Held..Result
    BY Zenon DEF Callable
  <2> QED
    BY Zenon, <2>1, LengthHeld
<1>3. \A h \in Handle : h.shape \in Shapes
  BY DEF Handle
<1>4. CASE d = Null
  <2>1. Len(m.memory) + 1 \in Nat \ {0}
    BY DEF Callable
  <2>2. PICK type \in dType :
          made.arrays = Append(m.arrays, [mem |-> Len(m.memory) + 1, dim |-> dim,
                                          type |-> type, shape |-> shape])
    BY <1>4 DEF Holds
  <2> DEFINE new == [mem |-> Len(m.memory) + 1, dim |-> dim, type |-> type, shape |-> shape]
  <2>3. new \in Handle /\ new.shape = shape
    BY <2>1 DEF Handle
  <2> HIDE DEF new
  <2>4. /\ made.arrays \in Seq(Handle) /\ Len(made.arrays) = Len(m.arrays) + 1
        /\ made.arrays[Len(m.arrays) + 1] = new
        /\ \A p \in 1..Len(m.arrays) : made.arrays[p] = m.arrays[p]
    <3>1. made.arrays = Append(m.arrays, new)
      BY <2>2 DEF new
    <3> QED
      BY <1>2, <2>3, <3>1, AppendLast
  <2> QED
    BY <1>1, <1>2, <1>3, <1>4, <2>3, <2>4, SequenceIs DEF To, Ret, Shape, Array, Pointers
<1>5. CASE d # Null
  <2>1. made.arrays = m.arrays /\ To(m, d) = d /\ d \in 1..Len(m.arrays)
    BY <1>5 DEF Holds, To, Pointers
  <2> QED
    BY <1>1, <1>2, <1>3, <1>5, <2>1, SequenceIs DEF Ret, Shape, Array, Pointers
<1> QED
  BY <1>4, <1>5

\* A launch into a destination that is at hand is the only command queued (execution.cpp).
LEMMA LaunchMade ==
  ASSUME NEW m, Callable(m), NEW d \in {Null} \cup Pointers(m), NEW shape \in Shapes,
         NEW dim \in 1..3, NEW made, Made(m, made, d, shape, dim),
         NEW srcs \in Sources(m), NEW kernel, NEW extents \in Shapes,
         d = Null \/ m.arrays[d].shape = shape =>
           Covers(kernel, extents, made.arrays[To(m, d)].shape)
  PROVE  Launched(m, Return(Launch(made, kernel, srcs, <<To(m, d)>>, extents), To(m, d)),
                  srcs, d, kernel, shape, dim)
<1> DEFINE cmd == [kernel |-> kernel, srcs |-> srcs, dsts |-> <<To(m, d)>>, range |-> extents]
           queued == [made EXCEPT !.queue = Append(@, cmd)]
<1>1. Holds(m, made, d, shape, dim) /\ made.queue = <<>>
  BY DEF Made
<1>2. Null \notin ToSet(srcs \o <<To(m, d)>>)
  BY <1>1, HeldArray, NoNull
<1>3. Launch(made, kernel, srcs, <<To(m, d)>>, extents) = queued
  BY <1>1, <1>2 DEF Launch, Holds
<1> HIDE DEF cmd
<1>4. /\ IsMachine(queued) /\ queued.thrown = FALSE /\ queued.faults = {}
      /\ queued.queue = <<cmd>>
      /\ queued.arrays = made.arrays /\ queued.memory = made.memory
  <2>1. /\ made = [field \in Fields |-> made[field]] /\ made.thrown = FALSE /\ made.faults = {}
        /\ made.queue = <<>>
    BY <1>1 DEF Holds, IsMachine
  <2>2. Append(made.queue, cmd) = <<cmd>>
    BY Zenon, <2>1, AppendFirst
  <2> QED
    BY <2>1, <2>2 DEF IsMachine, Fields
<1> HIDE DEF queued
<1> DEFINE after == Return(queued, To(m, d))
<1>5. /\ IsMachine(after) /\ after.thrown = FALSE /\ after.faults = {}
      /\ after.queue = <<cmd>> /\ after.ret = <<To(m, d)>>
      /\ after.arrays = made.arrays /\ after.memory = made.memory
  BY <1>4, ReturnIs
<1>6. extents \in [1..3 -> Int]
  BY DEF Shapes
<1> HIDE DEF after
<1>7. Holds(m, after, d, shape, dim)
  BY <1>1, <1>5 DEF Holds
<1>8. Launched(m, after, srcs, d, kernel, shape, dim)
  BY <1>5, <1>6, <1>7 DEF Launched, cmd
<1> QED
  BY <1>3, <1>8 DEF after

\* A launch over the extents of an array covers it.
LEMMA CoversItself ==
  ASSUME NEW shape \in Shapes, NEW kernel, kernel.writes = "range"
  PROVE  Covers(kernel, shape, shape)
<1>1. \A i \in 1..3 : shape[i] \in Int /\ shape[i] >= shape[i]
  BY DEF Shapes
<1> QED
  BY <1>1 DEF Covers

\* What a call may look up in an array.
LEMMA PointerIs ==
  ASSUME NEW m, Callable(m), NEW p \in Pointers(m)
  PROVE  /\ Array(m, p) = m.arrays[p] /\ Shape(m, p) = m.arrays[p].shape
         /\ Type(m, p) = m.arrays[p].type /\ m.arrays[p] \in Handle
         /\ m.arrays[p].shape \in Shapes /\ m.arrays[p].dim \in 1..3 /\ m.arrays[p].type \in dType
         /\ p \in Nat \ {0} /\ p # Null
<1>1. m.thrown = FALSE /\ m.arrays \in Seq(Handle)
  BY Zenon DEF Callable
<1>2. m.arrays[p] \in Handle /\ p \in Nat \ {0}
  BY <1>1, SequenceIs DEF Pointers
<1> QED
  BY <1>1, <1>2 DEF Array, Shape, Type, Handle, Null

\* A destination like the source is always at hand.
LEMMA LikeMade ==
  ASSUME NEW m, Callable(m), NEW src \in Pointers(m), NEW d \in {Null} \cup Pointers(m),
         NEW type \in dType \cup {"UNKNOWN"}
  PROVE  LET made == create_like(m, src, d, type)
         IN  /\ Made(m, made, d, Shape(m, src), Array(m, src).dim)
             /\ Ret(made) = To(m, d)
<1>1. TypeOr(m, src, type) \in dType
  BY PointerIs DEF TypeOr
<1>2. /\ m.arrays[src].shape \in Shapes /\ m.arrays[src].dim \in 1..3
      /\ Shape(m, src) = m.arrays[src].shape /\ Array(m, src) = m.arrays[src]
  BY PointerIs
<1>3. Made(m, create_like(m, src, d, type), d, m.arrays[src].shape, m.arrays[src].dim)
  BY <1>1, <1>2, DestinationMade DEF create_like
<1>4. Ret(create_like(m, src, d, type)) = To(m, d)
  BY <1>3 DEF Made, Holds, Ret
<1> QED
  BY <1>2, <1>3, <1>4

\* The launch over the extents of a destination that is at hand.
LEMMA ExecuteMade ==
  ASSUME NEW m, Callable(m), NEW d \in {Null} \cup Pointers(m), NEW shape \in Shapes,
         NEW dim \in 1..3, NEW made, Made(m, made, d, shape, dim),
         NEW srcs \in Sources(m), NEW kernel, kernel.writes = "range"
  PROVE  Launched(m, execute(made, kernel, srcs, To(m, d)), srcs, d, kernel, shape, dim)
<1>1. Holds(m, made, d, shape, dim)
  BY DEF Made
<1>2. /\ Shape(made, To(m, d)) \in Shapes
      /\ Shape(made, To(m, d)) = made.arrays[To(m, d)].shape
  BY <1>1, HeldArray
<1>3. Covers(kernel, Shape(made, To(m, d)), made.arrays[To(m, d)].shape)
  BY <1>2, CoversItself
<1> QED
  BY <1>2, <1>3, LaunchMade DEF execute

\* Operations that take any destination, or make one like their source, launch (tier1).
LEMMA LikeLaunched ==
  ASSUME NEW m, Callable(m), NEW src \in Pointers(m), NEW d \in {Null} \cup Pointers(m),
         NEW type \in dType \cup {"UNKNOWN"}, NEW kernel, kernel.writes = "range"
  PROVE  Launched(m, Like(m, kernel, src, d, type), <<src>>, d, kernel,
                  Shape(m, src), Array(m, src).dim)
<1> DEFINE made == create_like(m, src, d, type)
<1>1. \A step : Then([made_1 \in {step} |-> execute(made_1, kernel, <<src>>, Ret(made_1))])
                  = execute(step, kernel, <<src>>, Ret(step))
  BY ThenIs
<1>2. Like(m, kernel, src, d, type) = execute(made, kernel, <<src>>, Ret(made))
  BY <1>1 DEF Like
<1>3. Made(m, made, d, Shape(m, src), Array(m, src).dim) /\ Ret(made) = To(m, d)
  BY LikeMade
<1>4. Shape(m, src) \in Shapes /\ Array(m, src).dim \in 1..3 /\ <<src>> \in Sources(m)
  BY PointerIs DEF Sources
<1> HIDE DEF made
<1> QED
  BY <1>2, <1>3, <1>4, ExecuteMade

\* The same with a second source.
LEMMA LikeWithLaunched ==
  ASSUME NEW m, Callable(m), NEW src \in Pointers(m), NEW other \in Pointers(m),
         NEW d \in {Null} \cup Pointers(m),
         NEW type \in dType \cup {"UNKNOWN"}, NEW kernel, kernel.writes = "range"
  PROVE  Launched(m, LikeWith(m, kernel, src, other, d, type), <<src, other>>, d, kernel,
                  Shape(m, src), Array(m, src).dim)
<1> DEFINE made == create_like(m, src, d, type)
<1>1. \A step : Then([made_1 \in {step} |-> execute(made_1, kernel, <<src, other>>, Ret(made_1))])
                  = execute(step, kernel, <<src, other>>, Ret(step))
  BY ThenIs
<1>2. LikeWith(m, kernel, src, other, d, type) = execute(made, kernel, <<src, other>>, Ret(made))
  BY <1>1 DEF LikeWith
<1>3. Made(m, made, d, Shape(m, src), Array(m, src).dim) /\ Ret(made) = To(m, d)
  BY LikeMade
<1>4. Shape(m, src) \in Shapes /\ Array(m, src).dim \in 1..3 /\ <<src, other>> \in Sources(m)
  BY PointerIs DEF Sources
<1> HIDE DEF made
<1> QED
  BY <1>2, <1>3, <1>4, ExecuteMade

\* Expressions of one image launch.
LEMMA OfImageLaunched ==
  ASSUME NEW m, Callable(m), NEW src \in Pointers(m), NEW d \in {Null} \cup Pointers(m),
         NEW type \in dType \cup {"UNKNOWN"}
  PROVE  Launched(m, OfImage(m, src, d, type), <<src>>, d, Elementwise,
                  Shape(m, src), Array(m, src).dim)
<1>1. OfImage(m, src, d, type) = Like(m, Elementwise, src, d, type)
  BY DEF OfImage, Like, apply_unary_math_operation
<1> QED
  BY <1>1, LikeLaunched DEF Elementwise

\* The range is the source's: it covers what was created like the source.
LEMMA WithScalarLaunched ==
  ASSUME NEW m, Callable(m), NEW src \in Pointers(m), NEW d \in {Null} \cup Pointers(m),
         NEW type \in dType \cup {"UNKNOWN"}
  PROVE  Launched(m, WithScalar(m, src, d, type), <<src>>, d, Elementwise,
                  Shape(m, src), Array(m, src).dim)
<1> DEFINE made == create_like(m, src, d, type)
<1>1. \A step : Then([made_1 \in {step} |-> apply_binary_math_operation(made_1, src, Ret(made_1))])
                  = apply_binary_math_operation(step, src, Ret(step))
  BY ThenIs
<1>2. WithScalar(m, src, d, type) = apply_binary_math_operation(made, src, Ret(made))
  BY <1>1 DEF WithScalar
<1>3. Made(m, made, d, Shape(m, src), Array(m, src).dim) /\ Ret(made) = To(m, d)
  BY LikeMade
<1>4. /\ Shape(m, src) \in Shapes /\ Array(m, src).dim \in 1..3 /\ <<src>> \in Sources(m)
      /\ Shape(m, src) = m.arrays[src].shape
  BY PointerIs DEF Sources
<1> HIDE DEF made
<1>5. /\ Holds(m, made, d, Shape(m, src), Array(m, src).dim) /\ made.thrown = FALSE
      /\ made.arrays[src] = m.arrays[src]
      /\ d = Null => made.arrays[To(m, d)].shape = Shape(m, src)
      /\ d # Null => made.arrays[To(m, d)].shape = m.arrays[d].shape
  <2>1. Holds(m, made, d, Shape(m, src), Array(m, src).dim) /\ made.thrown = FALSE
    BY <1>3 DEF Made, Holds
  <2> QED
    BY <1>4, <2>1, HeldArray
<1>6. Shape(made, src) = Shape(m, src)
  BY <1>4, <1>5 DEF Shape, Array
<1>7. d = Null \/ m.arrays[d].shape = Shape(m, src) =>
        Covers(Elementwise, Shape(m, src), made.arrays[To(m, d)].shape)
  BY <1>4, <1>5, CoversItself DEF Elementwise
<1> QED
  BY <1>2, <1>3, <1>4, <1>6, <1>7, LaunchMade DEF apply_binary_math_operation

-----------------------------------------------------------------------------
(* Expressions of two images *)

\* The extents and the dimension of an expression of two images.
BothShapes(m, src0, src1) == {Shape(m, src0), Shape(m, src1)}
BothDims(m, src0, src1) == {Array(m, src0).dim, Array(m, src1).dim}
CommonShape(m, src0, src1) == infer_broadcast_shape(BothShapes(m, src0, src1))
CommonDim(m, src0, src1) == Max(BothDims(m, src0, src1))

\* When an expression of two images is computed.
Fitting(m, src0, src1, d) ==
  /\ Broadcastable(BothShapes(m, src0, src1))
  /\ d # Null => /\ m.arrays[d].shape = CommonShape(m, src0, src1)
                 /\ m.arrays[d].dim = CommonDim(m, src0, src1)

\* Images that are broadcast have extents and a dimension in common.
LEMMA CommonIs ==
  ASSUME NEW m, Callable(m), NEW src0 \in Pointers(m), NEW src1 \in Pointers(m)
  PROVE  CommonShape(m, src0, src1) \in Shapes /\ CommonDim(m, src0, src1) \in 1..3
<1> DEFINE s == Shape(m, src0)
           t == Shape(m, src1)
<1>1. s \in Shapes /\ t \in Shapes
  BY PointerIs
<1>2. \A i \in 1..3 : {r[i] : r \in BothShapes(m, src0, src1)} = {s[i], t[i]}
  BY DEF BothShapes
<1> HIDE DEF s, t
<1>3. \A i \in 1..3 : s[i] \in Nat \ {0} /\ t[i] \in Nat \ {0} /\ Max({s[i], t[i]}) \in Nat \ {0}
  BY <1>1, MaxOfTwo DEF Shapes
<1>4. CommonShape(m, src0, src1) \in Shapes
  BY <1>2, <1>3 DEF CommonShape, infer_broadcast_shape, Shapes
<1>5. \A a, b \in 1..3 : Max({a, b}) \in 1..3
  BY MaxOfTwo
<1>6. Array(m, src0).dim \in 1..3 /\ Array(m, src1).dim \in 1..3
  BY PointerIs
<1>7. CommonDim(m, src0, src1) \in 1..3
  BY <1>5, <1>6 DEF CommonDim, BothDims
<1> QED
  BY <1>4, <1>7

\* A destination that has been made is held.
LEMMA MadeHolds ==
  ASSUME NEW m, NEW made, NEW d, NEW shape, NEW dim, Made(m, made, d, shape, dim)
  PROVE  /\ Ret(made) = To(m, d) /\ Holds(m, made, d, shape, dim)
         /\ made.thrown = FALSE
<1>1. made.ret = <<To(m, d)>> /\ Holds(m, made, d, shape, dim) /\ made.thrown = FALSE
  BY DEF Made, Holds
<1> QED
  BY <1>1 DEF Ret

\* The sources are still there when the destination is.
LEMMA HeldSource ==
  ASSUME NEW m, Callable(m), NEW d \in {Null} \cup Pointers(m), NEW shape \in Shapes,
         NEW dim \in 1..3, NEW made, Holds(m, made, d, shape, dim), NEW p \in Pointers(m)
  PROVE  Shape(made, p) = Shape(m, p)
<1>1. /\ To(m, d) \in Nat \ {0} /\ Ret(made) = To(m, d)
      /\ made.arrays \in Seq(Handle) /\ To(m, d) \in DOMAIN made.arrays
      /\ Shape(made, To(m, d)) \in Shapes
      /\ Shape(made, To(m, d)) = made.arrays[To(m, d)].shape
      /\ d = Null => made.arrays[To(m, d)].shape = shape
      /\ d # Null => made.arrays[To(m, d)].shape = m.arrays[d].shape
      /\ \A q \in Pointers(m) : made.arrays[q] = m.arrays[q]
  BY HeldArray
<1>2. made.arrays[p] = m.arrays[p]
  BY Zenon, <1>1
<1>3. made.thrown = FALSE /\ m.thrown = FALSE
  BY DEF Holds, Callable
<1> QED
  BY <1>2, <1>3 DEF Shape, Array

\* A machine that has thrown is not changed by what follows.
LEMMA RefusedIs ==
  ASSUME NEW m, Callable(m)
  PROVE  Refused(m, Throw(m))
BY ThrowIs DEF Callable, Refused

\* Nothing is launched once a call has been refused.
LEMMA RefusedStays ==
  ASSUME NEW m, NEW made, Refused(m, made), NEW kernel, NEW srcs, NEW dsts, NEW extents, NEW p
  PROVE  /\ Refused(m, Return(Launch(made, kernel, srcs, dsts, extents), p))
         /\ \A condition : Require(made, condition) = made
<1>1. Launch(made, kernel, srcs, dsts, extents) = made
  BY DEF Refused, Launch
<1>2. IsMachine(made)
  BY DEF Refused
<1>3. Refused(m, Return(made, p))
  BY <1>2, ReturnIs DEF Refused
<1>4. \A condition : Require(made, condition) = made
  BY DEF Refused, Require
<1> QED
  BY <1>1, <1>3, <1>4

\* What is checked before anything is written decides the whole call.
LEMMA BroadcastMade ==
  ASSUME NEW m, Callable(m), NEW src0 \in Pointers(m), NEW src1 \in Pointers(m),
         NEW d \in {Null} \cup Pointers(m), NEW type \in dType
  PROVE  LET made == create_or_check_broadcast_dst(m, src0, src1, d, type)
         IN  /\ Fitting(m, src0, src1, d) =>
                  Made(m, made, d, CommonShape(m, src0, src1), CommonDim(m, src0, src1))
             /\ ~Fitting(m, src0, src1, d) => Refused(m, made)
<1> DEFINE made == create_or_check_broadcast_dst(m, src0, src1, d, type)
           shape == CommonShape(m, src0, src1)
           dim == CommonDim(m, src0, src1)
           fits == Broadcastable(BothShapes(m, src0, src1))
           ready == Require(m, src0 # Null /\ src1 # Null /\ fits)
<1>1. made = Destination(ready, src0, d, shape, dim, dim, TRUE, type)
  BY DEF create_or_check_broadcast_dst, CommonShape, CommonDim, BothShapes, BothDims
<1>2. src0 # Null /\ src1 # Null /\ m.thrown = FALSE
  BY PointerIs DEF Callable
<1>3. TypeOr(m, src0, type) \in dType
  BY DEF TypeOr, dType
<1>4. shape \in Shapes /\ dim \in 1..3 /\ dim # 0
  BY CommonIs
<1>5. CASE fits
  <2>1. ready = m
    BY <1>2, <1>5 DEF Require
  <2>2. Fitting(m, src0, src1, d) <=>
          (d # Null => /\ TRUE => m.arrays[d].shape = shape
                       /\ dim # 0 => m.arrays[d].dim = dim)
    BY <1>4, <1>5 DEF Fitting
  <2> HIDE DEF made, shape, dim, ready, fits
  <2>3. made = Destination(m, src0, d, shape, dim, dim, TRUE, type)
    BY <1>1, <2>1
  <2>4. /\ Fitting(m, src0, src1, d) => Made(m, made, d, shape, dim)
        /\ ~Fitting(m, src0, src1, d) => Refused(m, made)
    BY <1>3, <1>4, <2>2, <2>3, DestinationMade
  <2> QED
    BY <2>4 DEF made, shape, dim
<1>6. CASE ~fits
  <2>1. ready = Throw(m)
    BY <1>2, <1>6 DEF Require
  <2>2. Refused(m, ready)
    BY <2>1, RefusedIs
  <2>3. made = ready
    BY <1>1, <2>2 DEF Destination, Refused
  <2>4. ~Fitting(m, src0, src1, d)
    BY <1>6 DEF Fitting
  <2> QED
    BY <2>2, <2>3, <2>4
<1> QED
  BY <1>5, <1>6

\* One launch over the extents all operands broadcast to, or nothing.
Answered(m, after, src0, src1, d) ==
  /\ Fitting(m, src0, src1, d) =>
       Launched(m, after, <<src0, src1>>, d, Elementwise,
                CommonShape(m, src0, src1), CommonDim(m, src0, src1))
  /\ ~Fitting(m, src0, src1, d) => Refused(m, after)

\* Expressions of two images launch, or refuse what does not fit (tier1 operators).
LEMMA ApplyAnswered ==
  ASSUME NEW m, Callable(m), NEW src0 \in Pointers(m), NEW src1 \in Pointers(m),
         NEW d \in {Null} \cup Pointers(m), NEW type \in dType
  PROVE  Answered(m, apply_images_math_operation(m, src0, src1, d, type), src0, src1, d)
<1> DEFINE made == create_or_check_broadcast_dst(m, src0, src1, d, type)
           shape == CommonShape(m, src0, src1)
           dim == CommonDim(m, src0, src1)
           after == apply_images_math_operation(m, src0, src1, d, type)
<1>1. \A step : Then([made_1 \in {step} |->
                      execute(made_1, Elementwise, <<src0, src1>>, Ret(made_1))])
                  = execute(step, Elementwise, <<src0, src1>>, Ret(step))
  BY ThenIs
<1>2. after = execute(made, Elementwise, <<src0, src1>>, Ret(made))
  BY <1>1 DEF apply_images_math_operation
<1>3. shape \in Shapes /\ dim \in 1..3 /\ <<src0, src1>> \in Sources(m)
  BY CommonIs DEF Sources
<1>4. /\ Fitting(m, src0, src1, d) => Made(m, made, d, shape, dim)
      /\ ~Fitting(m, src0, src1, d) => Refused(m, made)
  BY BroadcastMade
<1> HIDE DEF made, shape, dim, after
<1>5. ASSUME Fitting(m, src0, src1, d)
      PROVE  Launched(m, after, <<src0, src1>>, d, Elementwise, shape, dim)
  <2>1. Made(m, made, d, shape, dim) /\ Ret(made) = To(m, d)
    BY <1>4, <1>5, MadeHolds
  <2> QED
    BY <1>2, <1>3, <2>1, ExecuteMade DEF Elementwise
<1>6. ASSUME ~Fitting(m, src0, src1, d)
      PROVE  Refused(m, after)
  BY <1>2, <1>4, <1>6, RefusedStays DEF execute
<1> QED
  BY <1>5, <1>6 DEF Answered, after, shape, dim

\* The expression is checked once more, and passes.
LEMMA AddAnswered ==
  ASSUME NEW m, Callable(m), NEW src0 \in Pointers(m), NEW src1 \in Pointers(m),
         NEW d \in {Null} \cup Pointers(m), Promoted(m, src0, src1) \in dType
  PROVE  Answered(m, add_images_weighted(m, src0, src1, d), src0, src1, d)
<1> DEFINE made == create_or_check_broadcast_dst(m, src0, src1, d, Promoted(m, src0, src1))
           srcs == <<src0, src1>>
           shape == CommonShape(m, src0, src1)
           dim == CommonDim(m, src0, src1)
           after == add_images_weighted(m, src0, src1, d)
           shapes == {Shape(made, srcs[i]) : i \in DOMAIN srcs}
           checked == Require(made, /\ \A i \in DOMAIN srcs : srcs[i] # Null
                                    /\ Broadcastable(shapes)
                                    /\ Shape(made, Ret(made)) = infer_broadcast_shape(shapes))
<1>1. \A step : Then([made_1 \in {step} |-> evaluate(made_1, <<src0, src1>>, Ret(made_1))])
                  = evaluate(step, <<src0, src1>>, Ret(step))
  BY ThenIs
<1>2. after = evaluate(made, srcs, Ret(made))
  BY <1>1 DEF add_images_weighted
<1>3. after = execute(checked, Elementwise, srcs, Ret(made))
  BY <1>2 DEF evaluate
<1>4. shape \in Shapes /\ dim \in 1..3 /\ srcs \in Sources(m)
  BY CommonIs DEF Sources
<1>5. /\ Fitting(m, src0, src1, d) => Made(m, made, d, shape, dim)
      /\ ~Fitting(m, src0, src1, d) => Refused(m, made)
  BY BroadcastMade
<1>6. shapes = {Shape(made, src0), Shape(made, src1)}
  <2>1. DOMAIN srcs = {1, 2} /\ srcs[1] = src0 /\ srcs[2] = src1
    OBVIOUS
  <2> HIDE DEF made, srcs
  <2> QED
    BY <2>1
<1>7. \A i \in DOMAIN srcs : srcs[i] # Null
  BY PointerIs
<1> HIDE DEF made, shape, dim, after, shapes
<1>8. ASSUME Fitting(m, src0, src1, d)
      PROVE  Launched(m, after, srcs, d, Elementwise, shape, dim)
  <2>1. Made(m, made, d, shape, dim) /\ Ret(made) = To(m, d)
    BY <1>5, <1>8, MadeHolds
  <2>2. Holds(m, made, d, shape, dim) /\ made.thrown = FALSE
    BY <2>1, MadeHolds
  <2>3. /\ Shape(made, To(m, d)) = made.arrays[To(m, d)].shape
        /\ d = Null => made.arrays[To(m, d)].shape = shape
        /\ d # Null => made.arrays[To(m, d)].shape = m.arrays[d].shape
    BY <1>4, <2>2, HeldArray
  <2>4. Shape(made, src0) = Shape(m, src0) /\ Shape(made, src1) = Shape(m, src1)
    BY <1>4, <2>2, HeldSource
  <2>5. shapes = BothShapes(m, src0, src1)
    BY <1>6, <2>4 DEF BothShapes
  <2>6. Shape(made, Ret(made)) = infer_broadcast_shape(shapes) /\ Broadcastable(shapes)
    BY <1>8, <2>1, <2>3, <2>5 DEF Fitting, CommonShape, shape
  <2>7. checked = made
    BY <1>7, <2>6 DEF Require
  <2> HIDE DEF srcs, checked
  <2> QED
    BY <1>3, <1>4, <2>1, <2>7, ExecuteMade DEF Elementwise
<1>9. ASSUME ~Fitting(m, src0, src1, d)
      PROVE  Refused(m, after)
  <2>1. checked = made
    BY <1>5, <1>9, RefusedStays
  <2> HIDE DEF srcs, checked
  <2> QED
    BY <1>3, <1>5, <1>9, <2>1, RefusedStays DEF execute
<1> QED
  BY <1>8, <1>9 DEF Answered, after, shape, dim

-----------------------------------------------------------------------------
(* Sequences *)

\* Cutting the first element off.
LEMMA CutToSize ==
  ASSUME NEW S, NEW s \in Seq(S), NEW n \in Nat, Len(s) = n + 1
  PROVE  SubSeq(s, 2, n + 1) \o <<>> = [k \in 1..n |-> s[k + 1]]
<1> DEFINE cut == SubSeq(s, 2, n + 1)
<1>1. cut \in Seq(S) /\ Len(cut) = n /\ \A k \in 1..n : cut[k] = s[k + 1]
  OBVIOUS
<1> HIDE DEF cut
<1>2. cut \o <<>> = cut /\ cut = [k \in 1..n |-> cut[k]]
  BY <1>1
<1> QED
  BY <1>1, <1>2 DEF cut

\* Cutting the first element off and putting the last one back.
LEMMA CutToMore ==
  ASSUME NEW S, NEW s \in Seq(S), NEW n \in Nat, Len(s) = n + 2
  PROVE  SubSeq(s, 2, n + 1) \o <<s[n + 2]>> = [k \in 1..(n + 1) |-> s[k + 1]]
<1> DEFINE cut == SubSeq(s, 2, n + 1)
           all == cut \o <<s[n + 2]>>
<1>1. cut \in Seq(S) /\ Len(cut) = n /\ \A k \in 1..n : cut[k] = s[k + 1]
  OBVIOUS
<1>2. s[n + 2] \in S
  OBVIOUS
<1> HIDE DEF cut
<1>3. all \in Seq(S) /\ Len(all) = n + 1 /\ \A k \in 1..(n + 1) : all[k] = s[k + 1]
  BY <1>1, <1>2
<1> HIDE DEF all
<1>4. all = [k \in 1..(n + 1) |-> all[k]]
  BY <1>3
<1> QED
  BY <1>3, <1>4 DEF all, cut

\* A sequence cut to its length is the sequence.
LEMMA WholeSequence ==
  ASSUME NEW S, NEW s \in Seq(S)
  PROVE  SubSeq(s, 1, Len(s)) = s
OBVIOUS

\* Cutting off what was appended.
LEMMA WithoutLast ==
  ASSUME NEW S, NEW s \in Seq(S), NEW e \in S
  PROVE  SubSeq(Append(s, e), 1, Len(s)) = s
OBVIOUS

\* Putting an element in front.
LEMMA WithFirst ==
  ASSUME NEW S, NEW s \in Seq(S), NEW e \in S
  PROVE  /\ <<e>> \o s \in Seq(S) /\ Len(<<e>> \o s) = Len(s) + 1
         /\ DOMAIN (<<e>> \o s) = 1..(Len(s) + 1)
         /\ (<<e>> \o s)[1] = e /\ \A k \in 1..Len(s) : (<<e>> \o s)[k + 1] = s[k]
OBVIOUS

\* A part of a sequence has no other elements.
LEMMA PartOf ==
  ASSUME NEW S, NEW s \in Seq(S), NEW own \in Nat
  PROVE  ToSet(SubSeq(s, own + 1, Len(s))) \subseteq ToSet(s)
<1> DEFINE part == SubSeq(s, own + 1, Len(s))
<1>1. \A i \in DOMAIN part : \E k \in DOMAIN s : part[i] = s[k]
  <2> TAKE i \in DOMAIN part
  <2>1. i + own \in DOMAIN s /\ part[i] = s[i + own]
    OBVIOUS
  <2> QED
    BY <2>1
<1> QED
  BY <1>1 DEF ToSet

-----------------------------------------------------------------------------
(* What one launch leaves *)

\* The memories of a caller, as a sequence.
LEMMA MarksAre ==
  ASSUME NEW n \in Nat
  PROVE  /\ [k \in 1..n |-> Mark(k)] \in Seq(Contents)
         /\ Len([k \in 1..n |-> Mark(k)]) = n
<1>1. \A k \in 1..n : Mark(k) \in Contents
  BY DEF Mark, Contents
<1> QED
  BY <1>1

\* The contents of memory that is new and of memory that is blank.
LEMMA ContentsAre ==
  Blank \in Contents /\ Unwritten \in Contents
BY DEF Blank, Unwritten, Contents

\* Each array has a memory of its own, and all but one that was created are as they were.
OneMemoryEach(m, after, d) ==
  /\ Len(m.arrays) \in Nat /\ Len(m.memory) = Len(m.arrays)
  /\ Len(after.arrays) = IF d = Null THEN Len(m.arrays) + 1 ELSE Len(m.arrays)
  /\ after.arrays \in Seq(Handle)
  /\ \A p \in 1..Len(after.arrays) : after.arrays[p].mem = p
  /\ after.memory \in Seq(Contents) /\ Len(after.memory) = Len(after.arrays)
  /\ \A k \in 1..Len(m.arrays) : after.memory[k] = Mark(k)
  /\ d = Null => after.memory[Len(m.arrays) + 1] = Unwritten

\* With the destination at hand every array has a memory of its own.
LEMMA HeldMemory ==
  ASSUME NEW m, Callable(m), NEW d \in {Null} \cup Pointers(m), NEW shape \in Shapes,
         NEW dim \in 1..3, NEW after, Holds(m, after, d, shape, dim)
  PROVE  OneMemoryEach(m, after, d)
<1> SUFFICES /\ Len(m.arrays) \in Nat /\ Len(m.memory) = Len(m.arrays)
             /\ Len(after.arrays) = IF d = Null THEN Len(m.arrays) + 1 ELSE Len(m.arrays)
             /\ after.arrays \in Seq(Handle)
             /\ \A p \in 1..Len(after.arrays) : after.arrays[p].mem = p
             /\ after.memory \in Seq(Contents) /\ Len(after.memory) = Len(after.arrays)
             /\ \A k \in 1..Len(m.arrays) : after.memory[k] = Mark(k)
             /\ d = Null => after.memory[Len(m.arrays) + 1] = Unwritten
  BY Zenon DEF OneMemoryEach
<1>1. /\ m.arrays \in Seq(Handle) /\ Len(m.arrays) \in Nat
      /\ \A p \in 1..Len(m.arrays) : m.arrays[p].mem = p
      /\ m.memory = [k \in 1..Len(m.arrays) |-> Mark(k)]
  <2>1. m.arrays \in Seq(Handle) /\ Len(m.arrays) \in Held..Result
    BY Zenon DEF Callable
  <2>2. Len(m.arrays) \in Nat
    BY Zenon, <2>1, LengthHeld
  <2> QED
    BY Zenon, <2>1, <2>2 DEF Callable
<1>2. /\ m.memory \in Seq(Contents) /\ Len(m.memory) = Len(m.arrays)
      /\ \A k \in 1..Len(m.arrays) : m.memory[k] = Mark(k)
  <2>1. m.memory \in Seq(Contents) /\ Len(m.memory) = Len(m.arrays)
    BY Zenon, <1>1, MarksAre
  <2> QED
    BY <1>1, <2>1
<1>3. CASE d = Null
  <2>1. PICK type \in dType :
          after.arrays = Append(m.arrays, [mem |-> Len(m.memory) + 1, dim |-> dim,
                                           type |-> type, shape |-> shape])
    BY <1>3 DEF Holds
  <2> DEFINE new == [mem |-> Len(m.memory) + 1, dim |-> dim, type |-> type, shape |-> shape]
  <2>2. new \in Handle /\ new.mem = Len(m.arrays) + 1
    BY <1>1, <1>2 DEF Handle
  <2> HIDE DEF new
  <2>3. after.arrays = Append(m.arrays, new)
    BY <2>1 DEF new
  <2>4. /\ after.arrays \in Seq(Handle) /\ Len(after.arrays) = Len(m.arrays) + 1
        /\ after.arrays[Len(m.arrays) + 1] = new
        /\ \A p \in 1..Len(m.arrays) : after.arrays[p] = m.arrays[p]
    BY <1>1, <2>2, <2>3, AppendLast
  <2>5. \A p \in 1..Len(after.arrays) : after.arrays[p].mem = p
    <3> TAKE p \in 1..Len(after.arrays)
    <3>1. p \in 1..Len(m.arrays) \/ p = Len(m.arrays) + 1
      BY <1>1, <2>4
    <3>2. CASE p \in 1..Len(m.arrays)
      BY <1>1, <2>4, <3>2
    <3>3. CASE p = Len(m.arrays) + 1
      BY <2>2, <2>4, <3>3
    <3> QED
      BY <3>1, <3>2, <3>3
  <2>6. after.memory = Append(m.memory, Unwritten)
    BY <1>3 DEF Holds
  <2>7. /\ after.memory \in Seq(Contents) /\ Len(after.memory) = Len(m.memory) + 1
        /\ after.memory[Len(m.memory) + 1] = Unwritten
        /\ \A p \in 1..Len(m.memory) : after.memory[p] = m.memory[p]
    BY <1>2, <2>6, AppendLast, ContentsAre
  <2> QED
    BY <1>1, <1>2, <1>3, <2>4, <2>5, <2>7
<1>4. CASE d # Null
  <2>1. after.arrays = m.arrays /\ after.memory = m.memory
    BY <1>4 DEF Holds
  <2> QED
    BY <1>1, <1>2, <1>4, <2>1
<1> QED
  BY <1>3, <1>4

\* The sources are arrays the caller holds.
LEMMA SourcesAre ==
  ASSUME NEW m, NEW srcs \in Sources(m)
  PROVE  srcs \in Seq(Pointers(m)) /\ ToSet(srcs) \subseteq Pointers(m) /\ ToSet(srcs) # {}
<1>1. CASE \E a \in Pointers(m) : srcs = <<a>>
  BY <1>1 DEF ToSet
<1>2. CASE \E a, b \in Pointers(m) : srcs = <<a, b>>
  BY <1>2 DEF ToSet
<1> QED
  BY <1>1, <1>2 DEF Sources

\* What a launch leaves in the memory it writes: its sources, from hops columns away, and
\* what it has not covered.
Outcome(srcs, hops, rest) ==
  [written |-> TRUE, kept |-> FALSE, from |-> ToSet(srcs) \cup rest, reach |-> hops]

\* What a command leaves of what the memory held and of what it read.
LEMMA WrittenIs ==
  ASSUME NEW srcs, NEW hops \in Nat, ToSet(srcs) # {}, NEW before \in Contents,
         before.reach = 0
  PROVE  Written(before, {Mark(p) : p \in ToSet(srcs)}, hops)
           = [written |-> before.written, kept |-> FALSE,
              from |-> ToSet(srcs) \cup before.from, reach |-> hops]
<1> DEFINE read == {Mark(p) : p \in ToSet(srcs)}
<1>1. \A c \in read : c.reach = 0 /\ \E p \in ToSet(srcs) : c.from = {p}
  BY DEF Mark
<1>2. \A p \in ToSet(srcs) : \E c \in read : c.from = {p}
  <2> TAKE p \in ToSet(srcs)
  <2>1. Mark(p) \in read
    OBVIOUS
  <2>2. Mark(p).from = {p}
    BY DEF Mark
  <2> QED
    BY <2>1, <2>2
<1>3. read # {}
  OBVIOUS
<1> HIDE DEF read
<1>4. {hops + c.reach : c \in read} = {hops}
  BY <1>1, <1>3
<1>5. {before.reach} \cup {hops + c.reach : c \in read} = {0, hops}
  BY <1>4
<1>6. Max({0, hops}) = hops
  BY MaxOfTwo
<1>7. UNION {c.from : c \in read} = ToSet(srcs)
  BY <1>1, <1>2
<1>8. before.from \cup UNION {c.from : c \in read} = ToSet(srcs) \cup before.from
  BY <1>7
<1> QED
  BY <1>5, <1>6, <1>8 DEF Written, read

\* The memories a command reads and writes, by the pointers it was given.
LEMMA MemoriesAre ==
  ASSUME NEW m, NEW ps, ToSet(ps) \subseteq 1..Len(m.arrays), Len(m.arrays) \in Nat,
         \A p \in 1..Len(m.arrays) : m.arrays[p].mem = p
  PROVE  Memories(m, ps) = {p + 1 : p \in ToSet(ps)}
<1>1. \A p \in ToSet(ps) : p # Host /\ m.arrays[p].mem = p
  BY DEF Host
<1>2. \A p \in ToSet(ps) : MemoryOf(m, p) = p + 1
  BY <1>1 DEF MemoryOf
<1> QED
  BY <1>2 DEF Memories

\* What the device leaves of one launch: the contents of the memory it writes, and a race
\* when that is also read.
Executed(m, after, done, srcs, d, hops, shape) ==
  /\ \E rest \in SUBSET {d} :
       /\ d = Null \/ m.arrays[d].shape = shape => rest = {}
       /\ done.memory = [a \in 1..(Len(after.arrays) + 1) |->
                           IF a = To(m, d) + 1 THEN Outcome(srcs, hops, rest)
                           ELSE IF a = 1 THEN Blank ELSE Mark(a - 1)]
  /\ done.faults \subseteq {"race"}
  /\ To(m, d) \notin ToSet(srcs) => done.faults = {}

\* The device carries out the one launch that was queued.
LEMMA Carried ==
  ASSUME NEW m, Callable(m), NEW d \in {Null} \cup Pointers(m), NEW shape \in Shapes,
         NEW dim \in 1..3, NEW srcs \in Sources(m),
         NEW kernel, kernel.hops \in Nat, kernel.own \in Nat,
         NEW after, Launched(m, after, srcs, d, kernel, shape, dim)
  PROVE  Executed(m, after, Finished(after), srcs, d, kernel.hops, shape)
<1>1. Holds(m, after, d, shape, dim) /\ after.faults = {} /\ IsMachine(after)
  BY DEF Launched, Holds
<1>0. /\ Len(m.arrays) \in Nat /\ Len(m.memory) = Len(m.arrays)
      /\ Len(after.arrays) = IF d = Null THEN Len(m.arrays) + 1 ELSE Len(m.arrays)
      /\ after.arrays \in Seq(Handle)
      /\ \A p \in 1..Len(after.arrays) : after.arrays[p].mem = p
      /\ after.memory \in Seq(Contents) /\ Len(after.memory) = Len(after.arrays)
      /\ \A k \in 1..Len(m.arrays) : after.memory[k] = Mark(k)
      /\ d = Null => after.memory[Len(m.arrays) + 1] = Unwritten
  <2>1. Holds(m, after, d, shape, dim)
    BY <1>1
  <2>2. OneMemoryEach(m, after, d)
    BY <2>1, HeldMemory
  <2> QED
    BY Zenon, <2>2 DEF OneMemoryEach
<1> DEFINE n == Len(m.arrays)
           t == To(m, d)
           N == Len(after.arrays)
           full == <<Blank>> \o after.memory
<1>2. PICK extents \in [1..3 -> Int] :
        /\ after.queue = <<[kernel |-> kernel, srcs |-> srcs, dsts |-> <<t>>,
                            range |-> extents]>>
        /\ d = Null \/ m.arrays[d].shape = shape =>
             Covers(kernel, extents, after.arrays[t].shape)
  BY DEF Launched
<1> DEFINE cmd == [kernel |-> kernel, srcs |-> srcs, dsts |-> <<t>>, range |-> extents]
           covers == Covers(kernel, extents, after.arrays[t].shape)
<1>3. cmd.kernel = kernel /\ cmd.srcs = srcs /\ cmd.dsts = <<t>> /\ cmd.range = extents
  OBVIOUS
<1>4. after.queue = <<cmd>>
  BY <1>2
<1> HIDE DEF cmd
<1>5. /\ n \in Nat /\ N = (IF d = Null THEN n + 1 ELSE n)
      /\ \A p \in 1..N : after.arrays[p].mem = p
      /\ after.memory \in Seq(Contents) /\ Len(after.memory) = N
      /\ \A k \in 1..n : after.memory[k] = Mark(k)
      /\ d = Null => after.memory[n + 1] = Unwritten
  BY Zenon, <1>0
<1>6. t \in 1..N /\ (d # Null => t = d /\ t \in 1..n) /\ (d = Null => t = n + 1)
  BY <1>5 DEF To, Pointers
<1>7. srcs \in Seq(Pointers(m)) /\ ToSet(srcs) \subseteq 1..n /\ ToSet(srcs) # {}
  BY SourcesAre DEF Pointers
<1> HIDE DEF n, N, t
<1>8. ToSet(srcs) \subseteq 1..N /\ ToSet(<<t>>) = {t} /\ N \in Nat
  <2>1. ToSet(<<t>>) = {t}
    BY DEF ToSet
  <2> QED
    BY <1>5, <1>7, <2>1
<1>9. /\ full \in Seq(Contents) /\ Len(full) = N + 1 /\ DOMAIN full = 1..(N + 1)
      /\ full[1] = Blank /\ \A k \in 1..N : full[k + 1] = after.memory[k]
  <2>1. after.memory \in Seq(Contents) /\ Blank \in Contents
    BY <1>5, ContentsAre
  <2> DEFINE memory == after.memory
  <2>2. /\ <<Blank>> \o memory \in Seq(Contents) /\ Len(<<Blank>> \o memory) = Len(memory) + 1
        /\ DOMAIN (<<Blank>> \o memory) = 1..(Len(memory) + 1)
        /\ (<<Blank>> \o memory)[1] = Blank
        /\ \A k \in 1..Len(memory) : (<<Blank>> \o memory)[k + 1] = memory[k]
    <3> HIDE DEF memory
    <3>1. \A s \in Seq(Contents), e \in Contents :
            /\ <<e>> \o s \in Seq(Contents) /\ Len(<<e>> \o s) = Len(s) + 1
            /\ DOMAIN (<<e>> \o s) = 1..(Len(s) + 1)
            /\ (<<e>> \o s)[1] = e /\ \A k \in 1..Len(s) : (<<e>> \o s)[k + 1] = s[k]
      BY WithFirst
    <3>2. memory \in Seq(Contents) /\ Blank \in Contents
      BY <2>1 DEF memory
    <3> QED
      BY Zenon, <3>1, <3>2
  <2>3. Len(after.memory) = N
    BY <1>5
  <2> QED
    BY Zenon, <2>2, <2>3
<1> HIDE DEF full
<1> HIDE DEF covers
<1> DEFINE read == Memories(after, srcs)
           written == Memories(after, <<t>>)
           others == Memories(after, SubSeq(srcs, kernel.own + 1, Len(srcs)))
           filled == Filled(after, cmd)
           before == [memory |-> full, faults |-> {}]
           done == Progress(before, kernel, read, others, written, filled)
<1>10. Finished(after) = done
  <2>1. Unfinished(after) = before
    BY <1>1 DEF Unfinished, full
  <2>2. Finished(after) = CarryOut(after, before, cmd)
    BY <1>4, <2>1, FinishedOne
  <2> HIDE DEF before
  <2> QED
    BY <1>3, <2>2 DEF CarryOut
<1>11. read = {p + 1 : p \in ToSet(srcs)} /\ written = {t + 1}
  <2>1. Memories(after, srcs) = {p + 1 : p \in ToSet(srcs)}
    BY <1>5, <1>8, MemoriesAre DEF N
  <2>2. Memories(after, <<t>>) = {p + 1 : p \in ToSet(<<t>>)}
    BY <1>5, <1>6, <1>8, MemoriesAre DEF N
  <2> QED
    BY <1>8, <2>1, <2>2
<1>12. others \subseteq read
  <2>1. ToSet(SubSeq(srcs, kernel.own + 1, Len(srcs))) \subseteq ToSet(srcs)
    BY <1>7, PartOf
  <2> QED
    BY <2>1 DEF Memories
<1>13. filled = IF covers THEN {t + 1} ELSE {}
  <2>1. MemoryOf(after, t) = t + 1 /\ t # Host
    BY <1>5, <1>6, <1>8 DEF MemoryOf, Host
  <2>2. ToSet(cmd.dsts) = {t}
    BY <1>3, <1>8
  <2>3. \A q \in ToSet(cmd.dsts) :
          (q # Host /\ Covers(cmd.kernel, cmd.range, after.arrays[q].shape)) <=> covers
    BY <1>3, <2>1, <2>2 DEF covers
  <2> QED
    BY <2>1, <2>2, <2>3 DEF Filled
<1> HIDE DEF read, written, others, filled
<1>14. \A p \in ToSet(srcs) : p + 1 \in 1..(N + 1) /\ full[p + 1] = Mark(p)
  <2> TAKE p \in ToSet(srcs)
  <2>1. p \in 1..n /\ p \in 1..N /\ p + 1 \in 1..(N + 1)
    BY <1>5, <1>7, <1>8
  <2> QED
    BY <1>5, <1>9, <2>1
<1>15. {full[b] : b \in read} = {Mark(p) : p \in ToSet(srcs)}
  BY <1>11, <1>14
<1>16. \A b \in read : full[b].written = TRUE
  <2>1. \A p \in ToSet(srcs) : full[p + 1].written = TRUE
    <3> TAKE p \in ToSet(srcs)
    <3>1. full[p + 1] = Mark(p)
      BY <1>14
    <3>2. Mark(p).written = TRUE
      BY DEF Mark
    <3> QED
      BY <3>1, <3>2
  <2> QED
    BY <1>11, <2>1
<1>17. done.faults = {f \in {"race"} : others \cap written # {}}
  <2>1. done.faults = {} \cup {f \in {"undefined"} : \E a \in read : ~full[a].written}
                         \cup {f \in {"race"} : others \cap written # {}}
    BY DEF Progress
  <2> QED
    BY <1>16, <2>1
<1>18. done.faults \subseteq {"race"} /\ (t \notin ToSet(srcs) => done.faults = {})
  <2>1. t \notin ToSet(srcs) => others \cap written = {}
    <3> SUFFICES ASSUME t \notin ToSet(srcs), NEW a \in others, a \in written PROVE FALSE
      OBVIOUS
    <3>1. a = t + 1
      BY <1>11
    <3>2. PICK p \in ToSet(srcs) : a = p + 1
      BY <1>11, <1>12
    <3> QED
      BY <1>6, <1>8, <3>1, <3>2
  <2> HIDE DEF done
  <2> QED
    BY <1>17, <2>1
<1>19. done.memory = [a \in 1..(N + 1) |->
                       IF a \in written
                       THEN Written(IF a \in filled THEN Blank ELSE full[a],
                                    {full[b] : b \in read}, kernel.hops)
                       ELSE full[a]]
  BY <1>9 DEF Progress
<1> HIDE DEF done
<1> DEFINE old == IF covers THEN Blank ELSE full[t + 1]
           rest == old.from
<1>20. /\ old \in Contents /\ old.reach = 0 /\ old.written = TRUE /\ rest \in SUBSET {d}
       /\ d = Null \/ m.arrays[d].shape = shape => rest = {}
  <2>1. CASE covers
    <3>1. old = Blank
      BY <2>1
    <3> HIDE DEF old
    <3> QED
      BY <3>1, ContentsAre DEF Blank, Unwritten
  <2>2. CASE ~covers
    <3>1. d # Null /\ m.arrays[d].shape # shape /\ t = d /\ t \in 1..n
      BY <1>2, <1>6, <2>2 DEF covers, t
    <3>2. old = Mark(d)
      BY <1>5, <1>6, <1>9, <2>2, <3>1
    <3>3. Mark(d) \in Contents
      BY <1>5, <3>1 DEF Mark, Contents
    <3> HIDE DEF old
    <3> QED
      BY <3>1, <3>2, <3>3 DEF Mark
  <2> QED
    BY <2>1, <2>2
<1>21. Written(old, {Mark(p) : p \in ToSet(srcs)}, kernel.hops) = Outcome(srcs, kernel.hops, rest)
  <2> HIDE DEF old
  <2> QED
    BY <1>7, <1>20, WrittenIs DEF Outcome
<1>22. \A a \in 1..(N + 1) : done.memory[a] =
         IF a = t + 1 THEN Outcome(srcs, kernel.hops, rest)
         ELSE IF a = 1 THEN Blank ELSE Mark(a - 1)
  <2> TAKE a \in 1..(N + 1)
  <2>1. CASE a = t + 1
    <3>1. a \in written /\ (IF a \in filled THEN Blank ELSE full[a]) = old
      BY <1>11, <1>13, <2>1
    <3> HIDE DEF old
    <3>2. done.memory[a] = Written(old, {Mark(p) : p \in ToSet(srcs)}, kernel.hops)
      BY <1>15, <1>19, <3>1
    <3> QED
      BY <1>21, <2>1, <3>2 DEF old
  <2>2. CASE a # t + 1
    <3>1. done.memory[a] = full[a]
      BY <1>11, <1>19, <2>2
    <3>2. CASE a = 1
      BY <1>9, <2>2, <3>1, <3>2
    <3>3. CASE a # 1
      <4>1. a - 1 \in 1..n /\ a - 1 \in 1..N /\ (a - 1) + 1 = a
        BY <1>5, <1>6, <1>8, <2>2, <3>3
      <4>2. full[a] = Mark(a - 1)
        BY <1>5, <1>9, <4>1
      <4> QED
        BY <2>2, <3>1, <3>3, <4>2
    <3> QED
      BY <3>2, <3>3
  <2> QED
    BY <2>1, <2>2
<1>23. done.memory = [a \in 1..(N + 1) |-> done.memory[a]]
  BY <1>19
<1> HIDE DEF old, rest
<1>24. done.memory = [a \in 1..(N + 1) |->
                        IF a = t + 1 THEN Outcome(srcs, kernel.hops, rest)
                        ELSE IF a = 1 THEN Blank ELSE Mark(a - 1)]
  BY <1>22, <1>23
<1> QED
  BY <1>10, <1>18, <1>20, <1>24 DEF Executed, N, t, rest

-----------------------------------------------------------------------------
(* What the caller finds *)

\* What a call that was accepted leaves for the caller.
Served(m, left, srcs, d, hops, shape, dim) ==
  /\ IsMachine(left) /\ left.thrown = FALSE /\ left.ret = <<To(m, d)>>
  /\ left.queue = <<>>
  /\ left.faults \subseteq {"race"} /\ (To(m, d) \notin ToSet(srcs) => left.faults = {})
  /\ left.passes = 1 /\ left.host = 1
  /\ d # Null => left.arrays = m.arrays
  /\ d = Null =>
       \E type \in dType :
         left.arrays = Append(m.arrays, [mem |-> Len(m.arrays) + 1, dim |-> dim,
                                         type |-> type, shape |-> shape])
  /\ \E rest \in SUBSET {d} :
       /\ d = Null \/ m.arrays[d].shape = shape => rest = {}
       /\ left.memory = [k \in 1..(IF d = Null THEN Len(m.arrays) + 1 ELSE Len(m.arrays)) |->
                           IF k = To(m, d) THEN Outcome(srcs, hops, rest) ELSE Mark(k)]

\* What a call that was refused leaves.
TurnedAway(m, left) ==
  /\ IsMachine(left) /\ left.thrown = TRUE /\ left.ret = <<Null>> /\ left.faults = {}
  /\ left.queue = <<>> /\ left.passes = 1 /\ left.host = 1
  /\ left.arrays = m.arrays /\ left.memory = [k \in 1..Len(m.arrays) |-> Mark(k)]

\* The lesser of two equal numbers.
LEMMA MinOfEqual == \A k \in Nat : Min({k, k}) = k
BY MinOfTwo

\* What Left makes of each field of the state an operation ended with.
PutAway(after, done, arrays, memories, back, left) ==
  LET result == IF back <= arrays THEN 0 ELSE after.arrays[back].mem
  IN  /\ IsMachine(left) /\ left.thrown = after.thrown
      /\ left.arrays = IF back <= arrays THEN SubSeq(after.arrays, 1, arrays)
                       ELSE Append(SubSeq(after.arrays, 1, arrays),
                                   [after.arrays[back] EXCEPT
                                      !.mem = Min({result, memories + 1})])
      /\ left.memory = SubSeq(done.memory, 2, memories + 1)
                       \o IF result <= memories THEN <<>> ELSE <<done.memory[result + 1]>>
      /\ left.ret = <<Min({back, arrays + 1})>> /\ left.faults = done.faults
      /\ left.queue = <<>> /\ left.passes = 1 /\ left.host = 1

\* What Left makes of each field.
LEMMA LeftIs ==
  ASSUME NEW after, IsMachine(after), NEW done, NEW arrays, NEW memories, NEW back
  PROVE  PutAway(after, done, arrays, memories, back,
                 Left(after, done, arrays, memories, back))
<1> DEFINE result == IF back <= arrays THEN 0 ELSE after.arrays[back].mem
           a == IF back <= arrays THEN SubSeq(after.arrays, 1, arrays)
                ELSE Append(SubSeq(after.arrays, 1, arrays),
                            [after.arrays[back] EXCEPT !.mem = Min({result, memories + 1})])
           c == SubSeq(done.memory, 2, memories + 1)
                \o IF result <= memories THEN <<>> ELSE <<done.memory[result + 1]>>
           r == <<Min({back, arrays + 1})>>
           left == [after EXCEPT !.arrays = a, !.memory = c, !.ret = r,
                                 !.faults = done.faults, !.queue = <<>>,
                                 !.passes = 1, !.host = 1]
<1>1. Left(after, done, arrays, memories, back) = left
  BY DEF Left
<1> HIDE DEF a, c, r
<1>2. /\ IsMachine(left) /\ left.thrown = after.thrown /\ left.arrays = a /\ left.memory = c
      /\ left.ret = r /\ left.faults = done.faults
      /\ left.queue = <<>> /\ left.passes = 1 /\ left.host = 1
  BY DEF IsMachine, Fields
<1> HIDE DEF left
<1> QED
  BY <1>1, <1>2 DEF PutAway, a, c, r

\* The memory of the host is left out.
LEMMA WithoutHost ==
  ASSUME NEW n \in Nat, NEW s
  PROVE  /\ s = [a \in 1..(n + 1) |-> s[a]] =>
              SubSeq(s, 2, n + 1) \o <<>> = [k \in 1..n |-> s[k + 1]]
         /\ s = [a \in 1..(n + 2) |-> s[a]] =>
              SubSeq(s, 2, n + 1) \o <<s[n + 2]>> = [k \in 1..(n + 1) |-> s[k + 1]]
<1>1. ASSUME s = [a \in 1..(n + 1) |-> s[a]]
      PROVE  SubSeq(s, 2, n + 1) \o <<>> = [k \in 1..n |-> s[k + 1]]
  <2> DEFINE S == {s[a] : a \in 1..(n + 1)}
  <2>1. \A a \in 1..(n + 1) : s[a] \in S
    OBVIOUS
  <2> HIDE DEF S
  <2>2. [a \in 1..(n + 1) |-> s[a]] \in Seq(S) /\ Len([a \in 1..(n + 1) |-> s[a]]) = n + 1
    BY <2>1
  <2> QED
    BY <1>1, <2>2, CutToSize
<1>2. ASSUME s = [a \in 1..(n + 2) |-> s[a]]
      PROVE  SubSeq(s, 2, n + 1) \o <<s[n + 2]>> = [k \in 1..(n + 1) |-> s[k + 1]]
  <2> DEFINE S == {s[a] : a \in 1..(n + 2)}
  <2>1. \A a \in 1..(n + 2) : s[a] \in S
    OBVIOUS
  <2> HIDE DEF S
  <2>2. [a \in 1..(n + 2) |-> s[a]] \in Seq(S) /\ Len([a \in 1..(n + 2) |-> s[a]]) = n + 2
    BY <2>1
  <2>3. s \in Seq(S) /\ Len(s) = n + 2
    BY Zenon, <1>2, <2>2
  <2> QED
    BY <2>3, CutToMore
<1> QED
  BY <1>1, <1>2

\* The arrays of the caller, and the result, are those the operation ended with.
HandedBack(m, after, done, d, left) ==
  LET n == Len(m.arrays)
  IN  /\ left.arrays = after.arrays /\ left.ret = <<To(m, d)>>
      /\ d # Null => left.memory = SubSeq(done.memory, 2, n + 1) \o <<>>
      /\ d = Null => left.memory = SubSeq(done.memory, 2, n + 1) \o <<done.memory[n + 2]>>

\* The caller gets back its arrays and, when there is one, the array that was created.
LEMMA ArraysLeft ==
  ASSUME NEW m, Callable(m), NEW d \in {Null} \cup Pointers(m), NEW shape \in Shapes,
         NEW dim \in 1..3, NEW after, Holds(m, after, d, shape, dim), NEW done
  PROVE  HandedBack(m, after, done, d,
                    Left(after, done, Len(m.arrays), Len(m.arrays), To(m, d)))
<1> DEFINE n == Len(m.arrays)
           back == To(m, d)
           left == Left(after, done, n, n, back)
           result == IF back <= n THEN 0 ELSE after.arrays[back].mem
<1>1. IsMachine(after)
  BY DEF Holds
<1>2. /\ left.arrays = IF back <= n THEN SubSeq(after.arrays, 1, n)
                       ELSE Append(SubSeq(after.arrays, 1, n),
                                   [after.arrays[back] EXCEPT !.mem = Min({result, n + 1})])
      /\ left.memory = SubSeq(done.memory, 2, n + 1)
                       \o IF result <= n THEN <<>> ELSE <<done.memory[result + 1]>>
      /\ left.ret = <<Min({back, n + 1})>>
  <2>1. PutAway(after, done, n, n, back, left)
    <3> HIDE DEF n, back
    <3> QED
      BY <1>1, LeftIs
  <2> QED
    BY Zenon, <2>1 DEF PutAway
<1>3. OneMemoryEach(m, after, d)
  BY HeldMemory
<1>4. /\ n \in Nat /\ Len(m.memory) = n
      /\ Len(after.arrays) = (IF d = Null THEN n + 1 ELSE n)
      /\ \A p \in 1..Len(after.arrays) : after.arrays[p].mem = p
  BY Zenon, <1>3 DEF OneMemoryEach
<1>5. m.arrays \in Seq(Handle)
  BY Zenon DEF Callable
<1>6. (d # Null => back = d /\ d \in 1..n) /\ (d = Null => back = n + 1)
  BY DEF To, Pointers
<1> HIDE DEF left, back
<1>7. CASE d # Null
  <2>1. after.arrays = m.arrays
    BY <1>7 DEF Holds
  <2>2. SubSeq(after.arrays, 1, n) = after.arrays
    BY Zenon, <1>5, <2>1, WholeSequence
  <2> HIDE DEF n
  <2>3. back <= n /\ back = d /\ result <= n
    BY <1>4, <1>6, <1>7
  <2>4. Min({back, n + 1}) = back
    BY <1>4, <1>6, <1>7, MinOfTwo
  <2> QED
    BY <1>2, <1>7, <2>2, <2>3, <2>4 DEF HandedBack, n, left, back
<1>8. CASE d = Null
  <2>1. PICK type \in dType :
          after.arrays = Append(m.arrays, [mem |-> Len(m.memory) + 1, dim |-> dim,
                                           type |-> type, shape |-> shape])
    BY <1>8 DEF Holds
  <2> DEFINE new == [mem |-> n + 1, dim |-> dim, type |-> type, shape |-> shape]
  <2>2. after.arrays = Append(m.arrays, new)
    BY Zenon, <1>4, <2>1
  <2> HIDE DEF n
  <2>3. new \in Handle /\ new = [new EXCEPT !.mem = n + 1]
    BY <1>4 DEF Handle
  <2> HIDE DEF new
  <2>4. /\ SubSeq(Append(m.arrays, new), 1, n) = m.arrays
        /\ Append(m.arrays, new)[n + 1] = new
    <3>1. /\ SubSeq(Append(m.arrays, new), 1, Len(m.arrays)) = m.arrays
          /\ Append(m.arrays, new)[Len(m.arrays) + 1] = new
      <4>1. \A s \in Seq(Handle), e \in Handle :
              SubSeq(Append(s, e), 1, Len(s)) = s /\ Append(s, e)[Len(s) + 1] = e
        BY WithoutLast, AppendLast
      <4> QED
        BY Zenon, <1>5, <2>3, <4>1
    <3> QED
      BY Zenon, <3>1 DEF n
  <2>5. ~(back <= n) /\ back = n + 1 /\ n + 1 \in 1..(n + 1) /\ n + 1 \in Nat
    BY <1>4, <1>6, <1>8
  <2>6. result = n + 1 /\ ~(result <= n) /\ result + 1 = n + 2
    BY <1>4, <1>8, <2>5
  <2> HIDE DEF result
  <2>7. Min({result, n + 1}) = n + 1 /\ Min({back, n + 1}) = back
    BY <2>5, <2>6, MinOfEqual
  <2>8. left.arrays = Append(SubSeq(after.arrays, 1, n),
                             [after.arrays[back] EXCEPT !.mem = n + 1])
    BY <1>2, <2>5, <2>7
  <2>9. left.arrays = Append(m.arrays, new)
    BY <2>2, <2>3, <2>4, <2>5, <2>8
  <2>10. left.memory = SubSeq(done.memory, 2, n + 1) \o <<done.memory[n + 2]>>
    BY <1>2, <2>6
  <2>11. left.ret = <<back>>
    BY <1>2, <2>7
  <2> QED
    BY <1>8, <2>2, <2>9, <2>10, <2>11 DEF HandedBack, n, left, back
<1> QED
  BY <1>7, <1>8

\* The caller finds the arrays and contents the launch leaves.
LEMMA ServedIs ==
  ASSUME NEW m, Callable(m), NEW d \in {Null} \cup Pointers(m), NEW shape \in Shapes,
         NEW dim \in 1..3, NEW srcs \in Sources(m),
         NEW kernel, kernel.hops \in Nat, kernel.own \in Nat,
         NEW after, Launched(m, after, srcs, d, kernel, shape, dim)
  PROVE  Served(m, Left(after, Finished(after), Len(m.arrays), Len(m.arrays),
                        IF after.thrown THEN Null ELSE Ret(after)),
                srcs, d, kernel.hops, shape, dim)
<1> DEFINE n == Len(m.arrays)
           done == Finished(after)
           back == IF after.thrown THEN Null ELSE Ret(after)
           left == Left(after, done, n, n, back)
<1>1. Holds(m, after, d, shape, dim)
  BY DEF Launched
<1>2. back = To(m, d) /\ IsMachine(after) /\ after.thrown = FALSE
  BY <1>1 DEF Holds, Ret
<1>3. OneMemoryEach(m, after, d)
  BY <1>1, HeldMemory
<1>4. n \in Nat /\ Len(m.memory) = n /\ Len(after.arrays) = (IF d = Null THEN n + 1 ELSE n)
  BY Zenon, <1>3 DEF OneMemoryEach
<1>5. PICK rest \in SUBSET {d} :
        /\ d = Null \/ m.arrays[d].shape = shape => rest = {}
        /\ done.memory = [a \in 1..(Len(after.arrays) + 1) |->
                            IF a = To(m, d) + 1 THEN Outcome(srcs, kernel.hops, rest)
                            ELSE IF a = 1 THEN Blank ELSE Mark(a - 1)]
  <2>1. Executed(m, after, done, srcs, d, kernel.hops, shape)
    BY Carried
  <2> QED
    BY Zenon, <2>1 DEF Executed
<1>6. done.faults \subseteq {"race"} /\ (To(m, d) \notin ToSet(srcs) => done.faults = {})
  <2>1. Executed(m, after, done, srcs, d, kernel.hops, shape)
    BY Carried
  <2> QED
    BY Zenon, <2>1 DEF Executed
<1>7. PutAway(after, done, n, n, back, left)
  <2> HIDE DEF n, back, done
  <2> QED
    BY <1>2, LeftIs
<1>8. /\ IsMachine(left) /\ left.thrown = FALSE /\ left.faults = done.faults
      /\ left.queue = <<>> /\ left.passes = 1 /\ left.host = 1
  BY <1>2, <1>7 DEF PutAway
<1>9. /\ left.arrays = after.arrays /\ left.ret = <<To(m, d)>>
      /\ d # Null => left.memory = SubSeq(done.memory, 2, n + 1) \o <<>>
      /\ d = Null => left.memory = SubSeq(done.memory, 2, n + 1) \o <<done.memory[n + 2]>>
  <2>1. left = Left(after, done, n, n, To(m, d))
    BY <1>2
  <2> HIDE DEF done
  <2>2. HandedBack(m, after, done, d, Left(after, done, n, n, To(m, d)))
    BY <1>1, ArraysLeft
  <2> QED
    BY Zenon, <2>1, <2>2 DEF HandedBack
<1>10. (d # Null => To(m, d) = d /\ d \in 1..n) /\ (d = Null => To(m, d) = n + 1)
  BY DEF To, Pointers
<1> DEFINE to == To(m, d)
           content(k) == IF k = to THEN Outcome(srcs, kernel.hops, rest) ELSE Mark(k)
           memory == [k \in 1..(IF d = Null THEN n + 1 ELSE n) |-> content(k)]
<1> HIDE DEF left, n, done, to
<1>11. left.memory = memory
  <2> DEFINE s == done.memory
             N == IF d = Null THEN n + 1 ELSE n
  <2>0. N \in Nat
    BY <1>4
  <2>1. s = [a \in 1..(N + 1) |-> IF a = to + 1 THEN Outcome(srcs, kernel.hops, rest)
                                  ELSE IF a = 1 THEN Blank ELSE Mark(a - 1)]
    BY <1>4, <1>5 DEF to
  <2> HIDE DEF s, N
  <2>2. s = [a \in 1..(N + 1) |-> s[a]]
    BY <2>1
  <2>3. \A k \in 1..N : s[k + 1] = content(k)
    <3> TAKE k \in 1..N
    <3>1. k + 1 \in 1..(N + 1) /\ (k + 1) - 1 = k /\ k + 1 # 1
      BY <2>0
    <3>2. to \in Nat /\ (k + 1 = to + 1 <=> k = to)
      BY <1>4, <1>10, <2>0 DEF to
    <3> QED
      BY <2>1, <3>1, <3>2
  <2>4. CASE d # Null
    <3>1. N = n /\ N + 1 = n + 1
      BY <2>4 DEF N
    <3>2. left.memory = SubSeq(s, 2, n + 1) \o <<>>
      BY <1>9, <2>4 DEF s
    <3>3. SubSeq(s, 2, n + 1) \o <<>> = [k \in 1..n |-> s[k + 1]]
      BY <1>4, <2>2, <3>1, WithoutHost
    <3>4. [k \in 1..n |-> s[k + 1]] = [k \in 1..n |-> content(k)]
      BY <2>3, <3>1
    <3> QED
      BY <2>4, <3>2, <3>3, <3>4
  <2>5. CASE d = Null
    <3>1. N = n + 1 /\ N + 1 = n + 2
      BY <1>4, <2>5 DEF N
    <3>2. left.memory = SubSeq(s, 2, n + 1) \o <<s[n + 2]>>
      BY <1>9, <2>5 DEF s
    <3>3. SubSeq(s, 2, n + 1) \o <<s[n + 2]>> = [k \in 1..(n + 1) |-> s[k + 1]]
      BY <1>4, <2>2, <3>1, WithoutHost
    <3>4. [k \in 1..(n + 1) |-> s[k + 1]] = [k \in 1..(n + 1) |-> content(k)]
      BY <2>3, <3>1
    <3> QED
      BY <2>5, <3>2, <3>3, <3>4
  <2> QED
    BY <2>4, <2>5
<1>12. d # Null => left.arrays = m.arrays
  BY <1>1, <1>9 DEF Holds
<1>13. d = Null =>
         \E type \in dType :
           left.arrays = Append(m.arrays, [mem |-> Len(m.arrays) + 1, dim |-> dim,
                                           type |-> type, shape |-> shape])
  <2>1. d = Null =>
         \E type \in dType :
           after.arrays = Append(m.arrays, [mem |-> Len(m.memory) + 1, dim |-> dim,
                                            type |-> type, shape |-> shape])
    BY <1>1 DEF Holds
  <2> QED
    BY Zenon, <1>4, <1>9, <2>1 DEF n
<1>14. Served(m, left, srcs, d, kernel.hops, shape, dim)
  BY <1>5, <1>6, <1>8, <1>9, <1>11, <1>12, <1>13 DEF Served, n, to
<1> QED
  BY <1>14 DEF left, n, done

\* Nothing is left of a call that was refused.
LEMMA TurnedAwayIs ==
  ASSUME NEW m, Callable(m), NEW after, Refused(m, after)
  PROVE  TurnedAway(m, Left(after, Finished(after), Len(m.arrays), Len(m.arrays),
                            IF after.thrown THEN Null ELSE Ret(after)))
<1> DEFINE n == Len(m.arrays)
           done == Finished(after)
           back == IF after.thrown THEN Null ELSE Ret(after)
           left == Left(after, done, n, n, back)
           full == <<Blank>> \o after.memory
<1>1. /\ IsMachine(after) /\ after.thrown = TRUE /\ after.faults = {} /\ after.queue = <<>>
      /\ after.arrays = m.arrays /\ after.memory = m.memory /\ back = Null
  BY DEF Refused
<1>2. /\ m.arrays \in Seq(Handle) /\ n \in Nat
      /\ m.memory = [k \in 1..n |-> Mark(k)]
  <2>1. m.arrays \in Seq(Handle) /\ m.memory = [k \in 1..Len(m.arrays) |-> Mark(k)]
        /\ Len(m.arrays) \in Held..Result
    BY Zenon DEF Callable
  <2> QED
    BY Zenon, <2>1, LengthHeld
<1>3. done.memory = full /\ done.faults = {}
  <2>1. done = Unfinished(after)
    BY <1>1, FinishedNone
  <2> HIDE DEF done
  <2> QED
    BY <1>1, <2>1 DEF Unfinished
<1>4. PutAway(after, done, n, n, back, left)
  <2> HIDE DEF n, back, done
  <2> QED
    BY <1>1, LeftIs
<1>5. 0 <= n /\ Min({0, n + 1}) = 0
  <2> HIDE DEF n
  <2>1. 0 <= n /\ n + 1 \in Nat /\ 0 <= n + 1
    BY <1>2
  <2> QED
    BY <2>1, MinOfTwo
<1> HIDE DEF left, n, done
<1>6. /\ IsMachine(left) /\ left.thrown = TRUE /\ left.faults = {}
      /\ left.queue = <<>> /\ left.passes = 1 /\ left.host = 1
      /\ left.ret = <<Null>> /\ left.arrays = SubSeq(m.arrays, 1, n)
      /\ left.memory = SubSeq(full, 2, n + 1) \o <<>>
  BY <1>1, <1>3, <1>4, <1>5 DEF PutAway, Null
<1>7. left.arrays = m.arrays
  BY Zenon, <1>2, <1>6, WholeSequence DEF n
<1>8. left.memory = [k \in 1..n |-> Mark(k)]
  <2> DEFINE memory == [k \in 1..n |-> Mark(k)]
  <2>1. memory \in Seq(Contents) /\ Len(memory) = n /\ \A k \in 1..n : memory[k] = Mark(k)
    BY <1>2, MarksAre
  <2>2. full = <<Blank>> \o memory
    BY <1>1, <1>2
  <2> HIDE DEF memory, full
  <2>3. /\ full \in Seq(Contents) /\ Len(full) = n + 1
        /\ \A k \in 1..n : full[k + 1] = memory[k]
    BY <2>1, <2>2, ContentsAre, WithFirst
  <2>4. SubSeq(full, 2, n + 1) \o <<>> = [k \in 1..n |-> full[k + 1]]
    BY <1>2, <2>3, CutToSize
  <2>5. [k \in 1..n |-> full[k + 1]] = [k \in 1..n |-> Mark(k)]
    BY <2>1, <2>3
  <2> QED
    BY <1>6, <2>4, <2>5
<1> QED
  BY <1>6, <1>7, <1>8 DEF TurnedAway, left, n, done

-----------------------------------------------------------------------------
(* Operations that are one launch *)

\* Expressions of two images that broadcast.
OfTwoImages ==
  {"add_images_weighted", "power_images", "maximum_images", "minimum_images", "modulo_images",
   "multiply_images", "divide_images", "greater", "greater_or_equal", "smaller",
   "smaller_or_equal", "equal", "not_equal", "binary_and", "binary_or", "binary_xor",
   "binary_subtract", "mask", "mask_label", "add_images", "subtract_images"}

\* Operations that compute every pixel from the one at its position, or from pixels of its
\* column.
OfOneImage ==
  {"power", "root", "maximum_image_and_scalar", "minimum_image_and_scalar",
   "add_image_and_scalar", "subtract_scalar_from_image", "subtract_image_from_scalar",
   "divide_image_by_scalar", "divide_scalar_by_image", "multiply_image_and_scalar",
   "greater_constant", "greater_or_equal_constant", "smaller_constant",
   "smaller_or_equal_constant", "equal_constant", "not_equal_constant", "invert", "square",
   "absolute", "cubic_root", "square_root", "exponential", "exponential2", "exponential10",
   "logarithm", "logarithm2", "logarithm10", "reciprocal", "ceil", "floor", "round", "truncate",
   "binary_not", "sin", "cos", "tan", "asin", "acos", "atan", "sinh", "cosh", "tanh",
   "nan_to_num", "undefined_to_zero", "replace_value", "replace_intensity",
   "multiply_image_and_position", "set_nonzero_pixels_to_pixelindex", "flip",
   "gradient_y", "gradient_z", "replace_values", "replace_intensities"}

\* Operations that look one pixel far.
OfNeighbours ==
  {"binary_edge_detection", "detect_label_edges", "gradient_x", "sobel", "laplace_box",
   "laplace_diamond", "laplace", "dilate_box", "dilate_sphere", "erode_box", "erode_sphere",
   "convolve", "local_cross_correlation"}

\* Filters with a neighbourhood that is not taken apart into axes.
OfNeighbourhoods ==
  {"maximum_sphere", "minimum_sphere", "mean_sphere", "median_box", "median_sphere", "mode_box",
   "mode_sphere", "variance_box", "variance_sphere", "binary_dilate", "binary_erode", "median",
   "mode", "variance_filter"}

\* The operations that are one launch.
Elementary ==
  OfTwoImages \cup OfOneImage \cup OfNeighbours \cup OfNeighbourhoods \cup {"kuwahara_filter"}

\* How many columns away an operation reads.
HopsOf(name, asked) ==
  IF name \in OfNeighbours THEN 1
  ELSE IF name \in OfNeighbourhoods THEN asked[1][1]
  ELSE IF name = "kuwahara_filter" THEN 2 * asked[1] + 1
  ELSE 0

\* It reads as far as it was asked to, or takes the window for its half.
AsAsked(name, hops, reach) ==
  reach = Anywhere \/ hops \in reach \/ name = "kuwahara_filter"

\* An operation has launched its kernel, or has been refused.
Performed(m, name, srcs, d, hops, after) ==
  IF name \in OfTwoImages
  THEN Answered(m, after, Source, Operand, d) /\ srcs = <<Source, Operand>> /\ hops = 0
  ELSE \E kernel : /\ kernel.hops = hops /\ kernel.own \in Nat
                   /\ Launched(m, after, srcs, d, kernel, Shape(m, Source), Array(m, Source).dim)

Ready(m, d) ==
  Callable(m) /\ d \in {Null} \cup Pointers(m) /\ Source \in Pointers(m) /\ Operand \in Pointers(m)

\* A call of an operation that is one launch.
OneLaunch(name, srcs, d, asked, reach, after) ==
  /\ name \in Elementary /\ d \in Destinations
  /\ srcs \in {<<Source>>, <<Source, Operand>>}
  /\ Reaching(name, srcs, d, asked, reach, after)
  /\ HopsOf(name, asked) \in Nat /\ AsAsked(name, HopsOf(name, asked), reach)
  /\ Ready(Now, d) => Performed(Now, name, srcs, d, HopsOf(name, asked), after)

Single == \E name, srcs, d, asked, reach, after : OneLaunch(name, srcs, d, asked, reach, after)
Other == call'.name \notin Elementary \cup {"none"}

\* How far the operations of each set read.
LEMMA HopsAre ==
  /\ \A name \in OfOneImage :
       /\ name \in Elementary /\ name \notin OfTwoImages
       /\ \A asked : HopsOf(name, asked) = 0
  /\ \A name \in OfNeighbours :
       /\ name \in Elementary /\ name \notin OfTwoImages
       /\ \A asked : HopsOf(name, asked) = 1
  /\ \A name \in OfNeighbourhoods :
       /\ name \in Elementary /\ name \notin OfTwoImages
       /\ \A asked : HopsOf(name, asked) = asked[1][1]
  /\ "kuwahara_filter" \in Elementary /\ "kuwahara_filter" \notin OfTwoImages
  /\ \A asked : HopsOf("kuwahara_filter", asked) = 2 * asked[1] + 1
  /\ \A name \in OfTwoImages : name \in Elementary /\ \A asked : HopsOf(name, asked) = 0
<1>1. \A name \in OfOneImage :
        name \notin OfTwoImages /\ name \notin OfNeighbours /\ name \notin OfNeighbourhoods
        /\ name # "kuwahara_filter"
  BY DEF OfOneImage, OfTwoImages, OfNeighbours, OfNeighbourhoods
<1>2. \A name \in OfNeighbours : name \notin OfTwoImages
  BY DEF OfTwoImages, OfNeighbours
<1>3. \A name \in OfNeighbourhoods : name \notin OfTwoImages /\ name \notin OfNeighbours
  BY DEF OfTwoImages, OfNeighbours, OfNeighbourhoods
<1>4. /\ "kuwahara_filter" \notin OfTwoImages /\ "kuwahara_filter" \notin OfNeighbours
      /\ "kuwahara_filter" \notin OfNeighbourhoods
  BY DEF OfTwoImages, OfNeighbours, OfNeighbourhoods
<1>5. \A name \in OfTwoImages :
        name \notin OfNeighbours /\ name \notin OfNeighbourhoods /\ name # "kuwahara_filter"
  BY DEF OfTwoImages, OfNeighbours, OfNeighbourhoods
<1> QED
  BY <1>1, <1>2, <1>3, <1>4, <1>5 DEF Elementary, HopsOf

\* A call of an operation of one image that launches is a call of a single launch.
LEMMA SingleIs ==
  ASSUME NEW name \in Elementary, name \notin OfTwoImages, NEW d \in Destinations,
         NEW srcs \in {<<Source>>, <<Source, Operand>>}, NEW asked, NEW reach, NEW after,
         Reaching(name, srcs, d, asked, reach, after),
         NEW kernel, kernel.hops = HopsOf(name, asked), kernel.own \in Nat, kernel.hops \in Nat,
         reach = Anywhere \/ kernel.hops \in reach \/ name = "kuwahara_filter",
         Ready(Now, d) => Launched(Now, after, srcs, d, kernel,
                                   Shape(Now, Source), Array(Now, Source).dim)
  PROVE  Single
<1> QED
  BY DEF Single, OneLaunch, Performed, AsAsked

\* Operations of an image and a number are single launches.
LEMMA WithNumberSingle == WithNumber => Single
<1> SUFFICES ASSUME WithNumber PROVE Single
  OBVIOUS
<1>1. PICK name \in OfOneImage, d \in Destinations, type \in dType \cup {"UNKNOWN"} :
        Call(name, <<Source>>, d, <<>>, WithScalar(Now, Source, d, type))
  BY DEF WithNumber, One, OfOneImage, dType, BOOL, power, root, maximum_image_and_scalar,
         minimum_image_and_scalar, add_image_and_scalar, subtract_scalar_from_image,
         subtract_image_from_scalar, divide_image_by_scalar, divide_scalar_by_image,
         multiply_image_and_scalar, greater_constant, greater_or_equal_constant,
         smaller_constant, smaller_or_equal_constant, equal_constant, not_equal_constant
<1> DEFINE after == WithScalar(Now, Source, d, type)
<1>2. Ready(Now, d) => Launched(Now, after, <<Source>>, d, Elementwise,
                                Shape(Now, Source), Array(Now, Source).dim)
  BY WithScalarLaunched DEF Ready
<1>3. Reaching(name, <<Source>>, d, <<>>, Anywhere, after)
  BY <1>1 DEF Call
<1> HIDE DEF after
<1>4. Elementwise.hops = 0 /\ Elementwise.own \in Nat
  BY DEF Elementwise
<1> QED
  BY <1>2, <1>3, <1>4, HopsAre, SingleIs

\* Operations of pixels are single launches, but for sign.
LEMMA OfPixelsSingle == OfPixels => Single \/ Other
<1> SUFFICES ASSUME OfPixels PROVE Single \/ Other
  OBVIOUS
<1>1. \/ One("sign", sign)
      \/ \E name \in OfOneImage, d \in Destinations, type \in dType \cup {"UNKNOWN"} :
           Call(name, <<Source>>, d, <<>>, Like(Now, Elementwise, Source, d, type))
  <2>1. \A d, type : OfImage(Now, Source, d, type) = Like(Now, Elementwise, Source, d, type)
    BY DEF OfImage, Like, apply_unary_math_operation
  <2>2. \/ One("sign", sign)
        \/ \E name \in OfOneImage, d \in Destinations, type \in dType \cup {"UNKNOWN"} :
             \/ Call(name, <<Source>>, d, <<>>, OfImage(Now, Source, d, type))
             \/ Call(name, <<Source>>, d, <<>>, Like(Now, Elementwise, Source, d, type))
    BY DEF OfPixels, One, OfOneImage, dType, BOOL, INDEX, absolute, cubic_root, square_root,
           exponential, exponential2, exponential10, logarithm, logarithm2, logarithm10,
           reciprocal, ceil, floor, round, truncate, binary_not, apply_trigonometric_op,
           sin, cos, tan, asin, acos, atan, sinh, cosh, tanh, nan_to_num, undefined_to_zero,
           replace_value, replace_intensity, multiply_image_and_position,
           set_nonzero_pixels_to_pixelindex
  <2> QED
    BY <2>1, <2>2
<1>2. ASSUME NEW name \in OfOneImage, NEW d \in Destinations, NEW type \in dType \cup {"UNKNOWN"},
             Call(name, <<Source>>, d, <<>>, Like(Now, Elementwise, Source, d, type))
      PROVE  Single
  <2> DEFINE after == Like(Now, Elementwise, Source, d, type)
  <2>1. Elementwise.hops = 0 /\ Elementwise.own \in Nat /\ Elementwise.writes = "range"
    BY DEF Elementwise
  <2>2. Ready(Now, d) => Launched(Now, after, <<Source>>, d, Elementwise,
                                  Shape(Now, Source), Array(Now, Source).dim)
    BY <2>1, LikeLaunched DEF Ready
  <2>3. Reaching(name, <<Source>>, d, <<>>, Anywhere, after)
    BY <1>2 DEF Call
  <2> HIDE DEF after
  <2> QED
    BY <2>1, <2>2, <2>3, HopsAre, SingleIs
<1>3. ASSUME One("sign", sign) PROVE Other
  BY <1>3 DEF One, Call, Reaching, Other, Elementary, OfTwoImages, OfOneImage, OfNeighbours,
              OfNeighbourhoods
<1> QED
  BY <1>1, <1>2, <1>3

\* The type two operands are promoted to is a type.
LEMMA PromotedIs ==
  ASSUME NEW first \in dType, NEW second \in dType
  PROVE  promoteType(first, second) \in dType
<1>1. {"INT16", "INT32", "FLOAT"} \subseteq dType
  BY DEF dType
<1>2. promoteType(first, second) \in {first, second, "INT16", "INT32", "FLOAT"}
  BY DEF promoteType, Signed, Bytes, dType
<1> QED
  BY <1>1, <1>2

\* The types of two images, promoted or not, are types.
LEMMA TypesAre ==
  ASSUME NEW m, NEW d, Ready(m, d)
  PROVE  Type(m, Source) \in dType /\ Promoted(m, Source, Operand) \in dType
<1>1. Type(m, Source) \in dType /\ Type(m, Operand) \in dType
  BY PointerIs DEF Ready
<1> QED
  BY <1>1, PromotedIs DEF Promoted

\* A call of an operation of two images that answers is a call of a single launch.
LEMMA PairIs ==
  ASSUME NEW name \in OfTwoImages, NEW d \in Destinations, NEW after,
         Call(name, <<Source, Operand>>, d, <<>>, after),
         Ready(Now, d) => Answered(Now, after, Source, Operand, d)
  PROVE  Single
<1>1. /\ name \in Elementary /\ HopsOf(name, <<>>) = 0
      /\ Reaching(name, <<Source, Operand>>, d, <<>>, Anywhere, after)
  BY HopsAre DEF Call
<1> QED
  BY <1>1 DEF Single, OneLaunch, Performed, AsAsked

\* Arithmetic, comparisons and masks are single launches.
LEMMA ArithmeticSingle == Arithmetic => Single
<1> SUFFICES ASSUME Arithmetic PROVE Single
  OBVIOUS
<1> DEFINE types == dType \cup {Type(Now, Source), Promoted(Now, Source, Operand)}
<1>1. PICK name \in OfTwoImages, d \in Destinations, type \in types :
        \/ Call(name, <<Source, Operand>>, d, <<>>,
                apply_images_math_operation(Now, Source, Operand, d, type))
        \/ Call(name, <<Source, Operand>>, d, <<>>, add_images_weighted(Now, Source, Operand, d))
  BY DEF Arithmetic, Two, OfTwoImages, dType, BOOL, power_images, maximum_images,
         minimum_images, modulo_images, multiply_images, divide_images, greater,
         greater_or_equal, smaller, smaller_or_equal, equal, not_equal, binary_and, binary_or,
         binary_xor, binary_subtract, mask, mask_label
<1>2. Ready(Now, d) => type \in dType
  BY TypesAre
<1>3. Ready(Now, d) =>
        /\ Answered(Now, apply_images_math_operation(Now, Source, Operand, d, type),
                    Source, Operand, d)
        /\ Answered(Now, add_images_weighted(Now, Source, Operand, d), Source, Operand, d)
  <2> SUFFICES ASSUME Ready(Now, d)
               PROVE  /\ Answered(Now, apply_images_math_operation(Now, Source, Operand, d, type),
                                  Source, Operand, d)
                      /\ Answered(Now, add_images_weighted(Now, Source, Operand, d),
                                  Source, Operand, d)
    OBVIOUS
  <2>1. Promoted(Now, Source, Operand) \in dType
    BY TypesAre
  <2> QED
    BY <1>2, <2>1, ApplyAnswered, AddAnswered DEF Ready
<1> QED
  BY <1>1, <1>3, PairIs

\* Of the operations made of arithmetic, four are single launches.
LEMMA CombinedSingle == Combined => Single \/ Other
<1> SUFFICES ASSUME Combined PROVE Single \/ Other
  OBVIOUS
<1>1. CASE \/ One("degrees_to_radians", degrees_to_radians)
           \/ One("radians_to_degrees", radians_to_degrees)
           \/ Two("absolute_difference", absolute_difference)
           \/ Two("squared_difference", squared_difference)
           \/ Two("concatenate_along_x", concatenate_along_x)
           \/ Two("concatenate_along_y", concatenate_along_y)
           \/ Two("concatenate_along_z", concatenate_along_z)
           \/ \E d \in Destinations, b \in BOOLEAN :
                Call("clip", <<Source>>, d, <<b>>, clip(Now, Source, d, b))
  BY <1>1 DEF One, Two, Call, Reaching, Other, Elementary, OfTwoImages, OfOneImage,
              OfNeighbours, OfNeighbourhoods
<1>2. CASE One("invert", invert) \/ One("square", square)
  <2>1. PICK name \in OfOneImage, d \in Destinations :
          Call(name, <<Source>>, d, <<>>, WithScalar(Now, Source, d, "FLOAT"))
    BY <1>2 DEF One, OfOneImage, invert, square, multiply_image_and_scalar, power
  <2> DEFINE after == WithScalar(Now, Source, d, "FLOAT")
  <2>2. Ready(Now, d) => Launched(Now, after, <<Source>>, d, Elementwise,
                                  Shape(Now, Source), Array(Now, Source).dim)
    BY WithScalarLaunched DEF Ready, dType
  <2>3. Reaching(name, <<Source>>, d, <<>>, Anywhere, after)
    BY <2>1 DEF Call
  <2> HIDE DEF after
  <2>4. Elementwise.hops = 0 /\ Elementwise.own \in Nat
    BY DEF Elementwise
  <2> QED
    BY <2>2, <2>3, <2>4, HopsAre, SingleIs
<1>3. CASE Two("add_images", add_images) \/ Two("subtract_images", subtract_images)
  <2>1. PICK name \in OfTwoImages, d \in Destinations :
          Call(name, <<Source, Operand>>, d, <<>>, add_images_weighted(Now, Source, Operand, d))
    BY <1>3 DEF Two, OfTwoImages, add_images, subtract_images
  <2>2. Ready(Now, d) =>
          Answered(Now, add_images_weighted(Now, Source, Operand, d), Source, Operand, d)
    BY TypesAre, AddAnswered DEF Ready
  <2> QED
    BY <2>1, <2>2, PairIs
<1> QED
  BY <1>1, <1>2, <1>3 DEF Combined

\* An operation with a destination like its source and one launch over it.
LEMMA LikeSingle ==
  ASSUME NEW name \in Elementary, name \notin OfTwoImages, NEW d \in Destinations,
         NEW asked, NEW reach, NEW kernel, NEW type, NEW after,
         after = Like(Now, kernel, Source, d, type),
         Reaching(name, <<Source>>, d, asked, reach, after),
         kernel.hops = HopsOf(name, asked), kernel.own \in Nat, kernel.hops \in Nat,
         kernel.writes = "range",
         reach = Anywhere \/ kernel.hops \in reach \/ name = "kuwahara_filter",
         Ready(Now, d) => type \in dType \cup {"UNKNOWN"}
  PROVE  Single
<1>1. Ready(Now, d) => Launched(Now, after, <<Source>>, d, kernel,
                                Shape(Now, Source), Array(Now, Source).dim)
  BY LikeLaunched DEF Ready
<1> QED
  BY <1>1, SingleIs

\* The same with a second source.
LEMMA LikeWithSingle ==
  ASSUME NEW name \in Elementary, name \notin OfTwoImages, NEW d \in Destinations,
         NEW kernel, NEW type, NEW after,
         after = LikeWith(Now, kernel, Source, Operand, d, type),
         Call(name, <<Source, Operand>>, d, <<>>, after),
         kernel.hops = HopsOf(name, <<>>), kernel.own \in Nat, kernel.hops \in Nat,
         kernel.writes = "range", Ready(Now, d) => type \in dType \cup {"UNKNOWN"}
  PROVE  Single
<1>1. Ready(Now, d) => Launched(Now, after, <<Source, Operand>>, d, kernel,
                                Shape(Now, Source), Array(Now, Source).dim)
  BY LikeWithLaunched DEF Ready
<1>2. Reaching(name, <<Source, Operand>>, d, <<>>, Anywhere, after)
  BY DEF Call
<1> QED
  BY <1>1, <1>2, SingleIs

\* The kernels that read around a position.
LEMMA AroundIs ==
  ASSUME NEW radius
  PROVE  /\ Around(radius).hops = radius[1] /\ Around(radius).own \in Nat
         /\ Around(radius).writes = "range"
BY DEF Around

\* Of the operations that move pixels, flip and the gradients are single launches.
LEMMA MovedSingle == Moved => Single \/ Other
<1> SUFFICES ASSUME Moved PROVE Single \/ Other
  OBVIOUS
<1>1. CASE One("flip", flip)
  <2>1. PICK d \in Destinations : Call("flip", <<Source>>, d, <<>>, flip(Now, Source, d))
    BY <1>1 DEF One
  <2>2. Reaching("flip", <<Source>>, d, <<>>, Anywhere, flip(Now, Source, d))
    BY <2>1 DEF Call
  <2>3. flip(Now, Source, d) = Like(Now, Gather, Source, d, "UNKNOWN")
    BY DEF flip
  <2>4. Gather.hops = 0 /\ Gather.own \in Nat /\ Gather.writes = "range"
    BY DEF Gather
  <2>5. "flip" \in OfOneImage
    BY DEF OfOneImage
  <2> QED
    BY <2>2, <2>3, <2>4, <2>5, HopsAre, LikeSingle
<1>2. CASE ~One("flip", flip)
  <2>1. Other
    BY <1>2 DEF Moved, One, Resized, Walked, Call, Reaching, Other, Elementary, OfTwoImages,
                OfOneImage, OfNeighbours, OfNeighbourhoods
  <2> QED
    BY <2>1
<1> QED
  BY <1>1, <1>2

\* Replacements by a table are single launches.
LEMMA TablesSingle == Tables => Single \/ Other
<1> SUFFICES ASSUME Tables PROVE Single \/ Other
  OBVIOUS
<1>1. CASE Two("replace_values", replace_values) \/ Two("replace_intensities", replace_intensities)
  <2>1. PICK name \in {"replace_values", "replace_intensities"}, d \in Destinations :
          Call(name, <<Source, Operand>>, d, <<>>,
               LikeWith(Now, Lookup, Source, Operand, d, Promoted(Now, Source, Operand)))
    BY <1>1 DEF Two, replace_values, replace_intensities
  <2>2. Lookup.hops = 0 /\ Lookup.own \in Nat /\ Lookup.writes = "range"
    BY DEF Lookup
  <2>3. name \in OfOneImage
    BY DEF OfOneImage
  <2> QED
    BY <2>1, <2>2, <2>3, HopsAre, TypesAre, LikeWithSingle
<1>2. CASE ~(\/ Two("replace_values", replace_values)
             \/ Two("replace_intensities", replace_intensities))
  <2>1. Other
    BY <1>2 DEF Tables, Two, Measured, Call, Reaching, Other, Elementary, OfTwoImages,
                OfOneImage, OfNeighbours, OfNeighbourhoods
  <2> QED
    BY <2>1
<1> QED
  BY <1>1, <1>2

\* Operations that look one pixel far, and kuwahara_filter, are single launches.
LEMMA NeighbourhoodsSingle == Neighbourhoods => Single \/ Other
<1> SUFFICES ASSUME Neighbourhoods PROVE Single \/ Other
  OBVIOUS
<1> DEFINE next == {"binary_edge_detection", "detect_label_edges", "gradient_x", "sobel",
                    "laplace_box", "laplace_diamond", "dilate_box", "dilate_sphere",
                    "erode_box", "erode_sphere"}
           same == {"gradient_y", "gradient_z"}
           both == {"convolve", "local_cross_correlation"}
           types == {BOOL, "FLOAT", "UNKNOWN", Promoted(Now, Source, Operand)}
           Window(r) == Around(<<2 * r + 1, 2 * r + 1, 2 * r + 1>>)
<1>1. \/ \E name \in next, d \in Destinations, type \in types :
           Reaching(name, <<Source>>, d, <<>>, {1}, Like(Now, Stencil, Source, d, type))
      \/ \E name \in same, d \in Destinations, radius \in {<<0, 1, 0>>, <<0, 0, 1>>} :
           Reaching(name, <<Source>>, d, <<>>, {0}, Like(Now, Around(radius), Source, d, "FLOAT"))
      \/ \E name \in both, d \in Destinations, type \in types :
           Call(name, <<Source, Operand>>, d, <<>>,
                LikeWith(Now, Stencil, Source, Operand, d, type))
      \/ \E d \in Destinations, c \in Boxes :
           Reaching("laplace", <<Source>>, d, <<c>>, {1}, Like(Now, Stencil, Source, d, "FLOAT"))
      \/ \E d \in Destinations, r \in Radii :
           Reaching("kuwahara_filter", <<Source>>, d, <<r>>, {r},
                    Like(Now, Window(r), Source, d, Type(Now, Source)))
      \/ Near("binary_supinf", binary_supinf, {1})
      \/ Near("binary_infsup", binary_infsup, {1})
      \/ Two("dilation", dilation)
      \/ Two("erosion", erosion)
  BY DEF Neighbourhoods, Near, Two, binary_edge_detection, detect_label_edges, gradient_x,
         gradient_y, gradient_z, sobel, laplace, laplace_box, laplace_diamond, binary_dilate,
         binary_erode, dilate_box, dilate_sphere, erode_box, erode_sphere, convolve,
         local_cross_correlation, kuwahara_filter, Stencil
<1>2. Stencil.hops = 1 /\ Stencil.own \in Nat /\ Stencil.writes = "range"
  BY AroundIs DEF Stencil
<1>3. \A d : Ready(Now, d) => types \cup {Type(Now, Source)} \subseteq dType \cup {"UNKNOWN"}
  BY TypesAre DEF dType, BOOL
<1> HIDE DEF types
<1>4. ASSUME NEW name \in next, NEW d \in Destinations, NEW type \in types,
             Reaching(name, <<Source>>, d, <<>>, {1}, Like(Now, Stencil, Source, d, type))
      PROVE  Single
  <2>1. name \in OfNeighbours
    BY DEF OfNeighbours
  <2> QED
    BY <1>2, <1>3, <1>4, <2>1, HopsAre, LikeSingle
<1>5. ASSUME NEW name \in same, NEW d \in Destinations,
             NEW radius \in {<<0, 1, 0>>, <<0, 0, 1>>},
             Reaching(name, <<Source>>, d, <<>>, {0}, Like(Now, Around(radius), Source, d, "FLOAT"))
      PROVE  Single
  <2>1. name \in OfOneImage
    BY DEF OfOneImage
  <2>2. "FLOAT" \in dType
    BY DEF dType
  <2>3. radius[1] = 0
    OBVIOUS
  <2>4. Around(radius).hops = 0 /\ Around(radius).own \in Nat /\ Around(radius).writes = "range"
    BY <2>3, AroundIs
  <2> QED
    BY <1>5, <2>1, <2>2, <2>4, HopsAre, LikeSingle
<1>6. ASSUME NEW name \in both, NEW d \in Destinations, NEW type \in types,
             Call(name, <<Source, Operand>>, d, <<>>,
                  LikeWith(Now, Stencil, Source, Operand, d, type))
      PROVE  Single
  <2>1. name \in OfNeighbours
    BY DEF OfNeighbours
  <2> QED
    BY <1>2, <1>3, <1>6, <2>1, HopsAre, LikeWithSingle
<1>7. ASSUME NEW d \in Destinations, NEW c \in Boxes,
             Reaching("laplace", <<Source>>, d, <<c>>, {1}, Like(Now, Stencil, Source, d, "FLOAT"))
      PROVE  Single
  <2>1. "laplace" \in OfNeighbours /\ "FLOAT" \in dType
    BY DEF OfNeighbours, dType
  <2> QED
    BY <1>2, <1>7, <2>1, HopsAre, LikeSingle
<1>8. ASSUME NEW d \in Destinations, NEW r \in Radii,
             Reaching("kuwahara_filter", <<Source>>, d, <<r>>, {r},
                      Like(Now, Window(r), Source, d, Type(Now, Source)))
      PROVE  Single
  <2> DEFINE kernel == Window(r)
  <2>1. /\ kernel.hops = 2 * r + 1 /\ kernel.own \in Nat /\ kernel.writes = "range"
        /\ kernel.hops \in Nat /\ <<r>>[1] = r
    BY AroundIs, ImageOperationsAssumption
  <2> HIDE DEF kernel
  <2> QED
    BY <1>3, <1>8, <2>1, HopsAre, LikeSingle DEF kernel
<1>9. CASE Near("binary_supinf", binary_supinf, {1}) \/ Near("binary_infsup", binary_infsup, {1})
           \/ Two("dilation", dilation) \/ Two("erosion", erosion)
  BY <1>9 DEF Near, Two, Call, Reaching, Other, Elementary, OfTwoImages, OfOneImage,
              OfNeighbours, OfNeighbourhoods
<1> QED
  BY <1>1, <1>4, <1>5, <1>6, <1>7, <1>8, <1>9

\* Filters whose neighbourhood is not taken apart into axes are single launches.
LEMMA FiltersSingle == Filters => Single \/ Other
<1> SUFFICES ASSUME Filters PROVE Single \/ Other
  OBVIOUS
<1> DEFINE types == {"FLOAT", "UNKNOWN", "UINT8"}
<1>1. \/ \E name \in OfNeighbourhoods, d \in Destinations, r \in Triples, type \in types :
           Reaching(name, <<Source>>, d, <<r>>, {r[1]}, Like(Now, Around(r), Source, d, type))
      \/ \E name \in OfNeighbourhoods, d \in Destinations, r \in Triples, c \in Boxes,
             type \in types :
           Reaching(name, <<Source>>, d, <<r, c>>, {r[1]}, Like(Now, Around(r), Source, d, type))
      \/ Radial("maximum_box", maximum_box, Once)
      \/ Radial("minimum_box", minimum_box, Once)
      \/ Radial("mean_box", mean_box, Once)
      \/ Radial("gaussian_blur", gaussian_blur, Once)
      \/ Radial("gaussian_derivative", gaussian_derivative, Once)
      \/ Shaped("maximum_filter", maximum_filter, Once)
      \/ Shaped("minimum_filter", minimum_filter, Once)
      \/ Shaped("mean_filter", mean_filter, Once)
      \/ Shaped("grayscale_dilate", grayscale_dilate, Once)
      \/ Shaped("grayscale_erode", grayscale_erode, Once)
  <2>1. \A m, d, r : Filter(m, Source, d, r, "sphere") = Like(m, Around(r), Source, d, "UNKNOWN")
    BY DEF Filter, Like
  <2> QED
    BY <2>1 DEF Filters, Radial, Shaped, Once, OfNeighbourhoods, maximum_sphere, minimum_sphere,
                mean_sphere, maximum_filter, minimum_filter, mean_filter, median_box,
                median_sphere, median, mode_box, mode_sphere, mode, variance_box,
                variance_sphere, variance_filter, binary_dilate, binary_erode
<1>2. types \subseteq dType \cup {"UNKNOWN"}
  BY DEF dType
<1>3. \A r \in Triples :
        /\ r[1] \in Nat /\ Around(r).hops = r[1] /\ Around(r).own \in Nat
        /\ Around(r).writes = "range"
  BY AroundIs, ImageOperationsAssumption DEF Triples
<1> HIDE DEF types
<1>4. ASSUME NEW name \in OfNeighbourhoods, NEW d \in Destinations, NEW r \in Triples,
             NEW type \in types,
             Reaching(name, <<Source>>, d, <<r>>, {r[1]}, Like(Now, Around(r), Source, d, type))
      PROVE  Single
  <2> DEFINE asked == <<r>>
  <2>1. asked[1] = r
    OBVIOUS
  <2> HIDE DEF asked
  <2>2. HopsOf(name, asked) = r[1] /\ name \in Elementary /\ name \notin OfTwoImages
    BY <2>1, HopsAre
  <2>3. Reaching(name, <<Source>>, d, asked, {r[1]}, Like(Now, Around(r), Source, d, type))
    BY <1>4 DEF asked
  <2> QED
    BY <1>2, <1>3, <2>2, <2>3, LikeSingle
<1>5. ASSUME NEW name \in OfNeighbourhoods, NEW d \in Destinations, NEW r \in Triples,
             NEW c \in Boxes, NEW type \in types,
             Reaching(name, <<Source>>, d, <<r, c>>, {r[1]}, Like(Now, Around(r), Source, d, type))
      PROVE  Single
  <2> DEFINE asked == <<r, c>>
  <2>1. asked[1] = r
    OBVIOUS
  <2> HIDE DEF asked
  <2>2. HopsOf(name, asked) = r[1] /\ name \in Elementary /\ name \notin OfTwoImages
    BY <2>1, HopsAre
  <2>3. Reaching(name, <<Source>>, d, asked, {r[1]}, Like(Now, Around(r), Source, d, type))
    BY <1>5 DEF asked
  <2> QED
    BY <1>2, <1>3, <2>2, <2>3, LikeSingle
<1>6. CASE \/ Radial("maximum_box", maximum_box, Once)
           \/ Radial("minimum_box", minimum_box, Once)
           \/ Radial("mean_box", mean_box, Once)
           \/ Radial("gaussian_blur", gaussian_blur, Once)
           \/ Radial("gaussian_derivative", gaussian_derivative, Once)
           \/ Shaped("maximum_filter", maximum_filter, Once)
           \/ Shaped("minimum_filter", minimum_filter, Once)
           \/ Shaped("mean_filter", mean_filter, Once)
           \/ Shaped("grayscale_dilate", grayscale_dilate, Once)
           \/ Shaped("grayscale_erode", grayscale_erode, Once)
  BY <1>6 DEF Radial, Shaped, Reaching, Other, Elementary, OfTwoImages, OfOneImage,
              OfNeighbours, OfNeighbourhoods
<1> QED
  BY <1>1, <1>4, <1>5, <1>6

-----------------------------------------------------------------------------
(* The other operations *)

\* The name of a call.
LEMMA NameIs ==
  \A name, srcs, dst, asked, reach, after :
    Reaching(name, srcs, dst, asked, reach, after) => call'.name = name
BY DEF Reaching

\* No other operation has the name of one that is a single launch.
LEMMA OthersAre ==
  ASSUME \/ Projections
         \/ Accumulated
         \/ Waves
         \/ OfMatrices
         \/ SetInPlace
         \/ Numbers
         \/ Morphology
         \/ Stacks
         \/ Spots
         \/ NeighborMatrices
         \/ MadeUp
         \/ Positions
         \/ LabelMatrices
         \/ RemovedLabels
         \/ LabelStatistics
         \/ Thresholds
         \/ SelectedByMap
         \/ Relabelled
         \/ Maps
         \/ NeighborMaps
         \/ Labelings
         \/ Outlines
         \/ NeighborMeasures
         \/ LabelShapes
         \/ Transforms
         \/ Fourier
  PROVE  Other
<1>1. CASE Projections
  <2> DEFINE names ==
                {"std_x_projection", "std_y_projection", "std_z_projection",
                 "variance_x_projection",
                 "variance_y_projection", "variance_z_projection", "maximum_x_projection",
                 "maximum_y_projection", "maximum_z_projection", "minimum_x_projection",
                 "minimum_y_projection", "minimum_z_projection", "mean_x_projection",
                 "mean_y_projection", "mean_z_projection", "sum_x_projection", "sum_y_projection",
                 "sum_z_projection", "product_x_projection", "product_y_projection",
                 "product_z_projection", "x_position_of_maximum_x_projection",
                 "x_position_of_minimum_x_projection", "y_position_of_maximum_y_projection",
                 "y_position_of_minimum_y_projection", "z_position_of_maximum_z_projection",
                 "z_position_of_minimum_z_projection", "z_position_projection",
                 "minimum_of_masked_pixels_reduction"}
  <2>1. call'.name \in names
    BY <1>1, NameIs DEF Projections, Two, Projected, Call
  <2>2. names \cap (Elementary \cup {"none"}) = {}
    BY DEF Elementary, OfTwoImages, OfOneImage, OfNeighbours, OfNeighbourhoods
  <2> HIDE DEF names
  <2> QED
    BY <2>1, <2>2 DEF Other
<1>2. CASE Accumulated
  <2> DEFINE names ==
                {"cumulative_sum", "cumulative_min", "cumulative_max", "cumulative_product",
                 "sum_reduction_x", "block_enumerate"}
  <2>1. call'.name \in names
    BY <1>2, NameIs DEF Accumulated, Call
  <2>2. names \cap (Elementary \cup {"none"}) = {}
    BY DEF Elementary, OfTwoImages, OfOneImage, OfNeighbours, OfNeighbourhoods
  <2> HIDE DEF names
  <2> QED
    BY <2>1, <2>2 DEF Other
<1>3. CASE Waves
  <2> DEFINE names ==
                {"nonzero_maximum_box", "nonzero_maximum_diamond", "nonzero_minimum_box",
                 "nonzero_minimum_diamond", "onlyzero_overwrite_maximum_box",
                 "onlyzero_overwrite_maximum_diamond", "nonzero_maximum", "nonzero_minimum",
                 "onlyzero_overwrite_maximum"}
  <2>1. call'.name \in names
    BY <1>3, NameIs DEF Waves, Call
  <2>2. names \cap (Elementary \cup {"none"}) = {}
    BY DEF Elementary, OfTwoImages, OfOneImage, OfNeighbours, OfNeighbourhoods
  <2> HIDE DEF names
  <2> QED
    BY <2>1, <2>2 DEF Other
<1>4. CASE OfMatrices
  <2> DEFINE names ==
                {"minimum_distance_touching_neighbors", "maximum_distance_touching_neighbors",
                 "mean_distance_touching_neighbors", "average_distance_touching_neighbors",
                 "mean_distance_n_nearest_neighbors", "maximum_distance_n_nearest_neighbors",
                 "mean_distance_n_farthest_neighbors", "average_distance_of_n_nearest_distances",
                 "maximum_distance_of_n_shortest_distances",
                 "average_distance_of_n_far_off_distances", "mean_of_touching_neighbors",
                 "median_of_touching_neighbors", "minimum_of_touching_neighbors",
                 "maximum_of_touching_neighbors", "standard_deviation_of_touching_neighbors",
                 "mode_of_touching_neighbors"}
  <2>1. call'.name \in names
    BY <1>4, NameIs DEF OfMatrices, One, Two, Turned, Call
  <2>2. names \cap (Elementary \cup {"none"}) = {}
    BY DEF Elementary, OfTwoImages, OfOneImage, OfNeighbours, OfNeighbourhoods
  <2> HIDE DEF names
  <2> QED
    BY <2>1, <2>2 DEF Other
<1>5. CASE SetInPlace
  <2> DEFINE names ==
                {"set", "set_ramp_x", "set_ramp_y", "set_ramp_z", "set_row", "set_column",
                 "set_plane", "set_image_borders", "set_where_x_equals_y",
                 "set_where_x_greater_than_y", "set_where_x_smaller_than_y"}
  <2>1. call'.name \in names
    BY <1>5, NameIs DEF SetInPlace, InPlace, Call
  <2>2. names \cap (Elementary \cup {"none"}) = {}
    BY DEF Elementary, OfTwoImages, OfOneImage, OfNeighbours, OfNeighbourhoods
  <2> HIDE DEF names
  <2> QED
    BY <2>1, <2>2 DEF Other
<1>6. CASE Numbers
  <2> DEFINE names ==
                {"maximum_of_all_pixels", "minimum_of_all_pixels", "sum_of_all_pixels",
                 "product_of_all_pixels", "minimum_of_masked_pixels"}
  <2>1. call'.name \in names
    BY <1>6, NameIs DEF Numbers, Number, NumberOfTwo, Call
  <2>2. names \cap (Elementary \cup {"none"}) = {}
    BY DEF Elementary, OfTwoImages, OfOneImage, OfNeighbours, OfNeighbourhoods
  <2> HIDE DEF names
  <2> QED
    BY <2>1, <2>2 DEF Other
<1>7. CASE Morphology
  <2> DEFINE names ==
                {"closing", "opening", "binary_closing", "grayscale_closing", "binary_opening",
                 "grayscale_opening", "top_hat", "bottom_hat", "closing_box", "closing_sphere",
                 "opening_box", "opening_sphere", "top_hat_box", "top_hat_sphere", "bottom_hat_box",
                 "bottom_hat_sphere", "standard_deviation", "standard_deviation_box",
                 "standard_deviation_sphere", "divide_by_gaussian_background",
                 "subtract_gaussian_background", "detect_maxima", "detect_minima",
                 "detect_maxima_box", "detect_minima_box", "large_hessian_eigenvalue",
                 "small_hessian_eigenvalue", "reduce_labels_to_label_edges",
                 "difference_of_gaussian", "hessian_eigenvalues", "hessian_gaussian_eigenvalues"}
  <2>1. call'.name \in names
    BY <1>7, NameIs DEF Morphology, Two, Near, Radial, Shaped, Call
  <2>2. names \cap (Elementary \cup {"none"}) = {}
    BY DEF Elementary, OfTwoImages, OfOneImage, OfNeighbours, OfNeighbourhoods
  <2> HIDE DEF names
  <2> QED
    BY <2>1, <2>2 DEF Other
<1>8. CASE Stacks
  <2> DEFINE names ==
                {"crop_border", "sub_stack", "reduce_stack",
                 "extended_depth_of_focus_variance_projection",
                 "extended_depth_of_focus_sobel_projection"}
  <2>1. call'.name \in names
    BY <1>8, NameIs DEF Stacks, Call
  <2>2. names \cap (Elementary \cup {"none"}) = {}
    BY DEF Elementary, OfTwoImages, OfOneImage, OfNeighbours, OfNeighbourhoods
  <2> HIDE DEF names
  <2> QED
    BY <2>1, <2>2 DEF Other
<1>9. CASE Spots
  <2> DEFINE names ==
                {"extend_labeling_via_voronoi", "label_spots", "pointlist_to_labelled_spots"}
  <2>1. call'.name \in names
    BY <1>9, NameIs DEF Spots, Measured, Call
  <2>2. names \cap (Elementary \cup {"none"}) = {}
    BY DEF Elementary, OfTwoImages, OfOneImage, OfNeighbours, OfNeighbourhoods
  <2> HIDE DEF names
  <2> QED
    BY <2>1, <2>2 DEF Other
<1>10. CASE NeighborMatrices
  <2> DEFINE names ==
                {"generate_proximal_neighbors_matrix", "symmetric_maximum_matrix",
                 "symmetric_minimum_matrix", "symmetric_mean_matrix",
                 "generate_partial_touching_area_matrix_within_range",
                 "generate_touch_portion_within_range_neighbors_matrix", "count_touching_neighbors"}
  <2>1. call'.name \in names
    BY <1>10, NameIs DEF NeighborMatrices, One, Call
  <2>2. names \cap (Elementary \cup {"none"}) = {}
    BY DEF Elementary, OfTwoImages, OfOneImage, OfNeighbours, OfNeighbourhoods
  <2> HIDE DEF names
  <2> QED
    BY <2>1, <2>2 DEF Other
<1>11. CASE MadeUp
  <2> DEFINE names ==
                {"artificial_tissue", "clahe", "sato_filter", "tubeness", "morphological_chan_vese",
                 "gamma_correction"}
  <2>1. call'.name \in names
    BY <1>11, NameIs DEF MadeUp, One, Call
  <2>2. names \cap (Elementary \cup {"none"}) = {}
    BY DEF Elementary, OfTwoImages, OfOneImage, OfNeighbours, OfNeighbourhoods
  <2> HIDE DEF names
  <2> QED
    BY <2>1, <2>2 DEF Other
<1>12. CASE Positions
  <2> DEFINE names ==
                {"bounding_box", "center_of_mass", "mean_of_all_pixels", "maximum_position",
                 "minimum_position", "jaccard_index", "histogram"}
  <2>1. call'.name \in names
    BY <1>12, NameIs DEF Positions, Number, NumberOfTwo, Call
  <2>2. names \cap (Elementary \cup {"none"}) = {}
    BY DEF Elementary, OfTwoImages, OfOneImage, OfNeighbours, OfNeighbourhoods
  <2> HIDE DEF names
  <2> QED
    BY <2>1, <2>2 DEF Other
<1>13. CASE LabelMatrices
  <2> DEFINE names ==
                {"generate_touch_matrix", "generate_touching_area_matrix",
                 "generate_touch_count_matrix", "flag_existing_labels",
                 "labelled_spots_to_pointlist", "generate_binary_overlap_matrix", "read_map_values",
                 "read_intensities_from_map"}
  <2>1. call'.name \in names
    BY <1>13, NameIs DEF LabelMatrices, Measured, MeasuredTwo, Call
  <2>2. names \cap (Elementary \cup {"none"}) = {}
    BY DEF Elementary, OfTwoImages, OfOneImage, OfNeighbours, OfNeighbourhoods
  <2> HIDE DEF names
  <2> QED
    BY <2>1, <2>2 DEF Other
<1>14. CASE RemovedLabels
  <2> DEFINE names ==
                {"remove_labels", "exclude_labels", "remove_labels_on_edges",
                 "exclude_labels_on_edges"}
  <2>1. call'.name \in names
    BY <1>14, NameIs DEF RemovedLabels, Two, Call
  <2>2. names \cap (Elementary \cup {"none"}) = {}
    BY DEF Elementary, OfTwoImages, OfOneImage, OfNeighbours, OfNeighbourhoods
  <2> HIDE DEF names
  <2> QED
    BY <2>1, <2>2 DEF Other
<1>15. CASE LabelStatistics
  <2> DEFINE names ==
                {"labels_statistics", "statistics_of_labelled_pixels",
                 "statistics_of_background_and_labelled_pixels"}
  <2>1. call'.name \in names
    BY <1>15, NameIs DEF LabelStatistics, Call
  <2>2. names \cap (Elementary \cup {"none"}) = {}
    BY DEF Elementary, OfTwoImages, OfOneImage, OfNeighbours, OfNeighbourhoods
  <2> HIDE DEF names
  <2> QED
    BY <2>1, <2>2 DEF Other
<1>16. CASE Thresholds
  <2> DEFINE names ==
                {"label_bounding_box", "variance_of_all_pixels", "standard_deviation_of_all_pixels",
                 "percentile", "mean_squared_error", "threshold_mean", "threshold_otsu",
                 "threshold_yen", "threshold_triangle", "threshold_isodata", "threshold_li"}
  <2>1. call'.name \in names
    BY <1>16, NameIs DEF Thresholds, One, Number, NumberOfTwo, Call
  <2>2. names \cap (Elementary \cup {"none"}) = {}
    BY DEF Elementary, OfTwoImages, OfOneImage, OfNeighbours, OfNeighbourhoods
  <2> HIDE DEF names
  <2> QED
    BY <2>1, <2>2 DEF Other
<1>17. CASE SelectedByMap
  <2> DEFINE names ==
                {"remove_labels_with_map_values_out_of_range",
                 "remove_labels_with_map_values_within_range",
                 "exclude_labels_with_map_values_out_of_range",
                 "exclude_labels_with_map_values_within_range"}
  <2>1. call'.name \in names
    BY <1>17, NameIs DEF SelectedByMap, Two, Turned, Call
  <2>2. names \cap (Elementary \cup {"none"}) = {}
    BY DEF Elementary, OfTwoImages, OfOneImage, OfNeighbours, OfNeighbourhoods
  <2> HIDE DEF names
  <2> QED
    BY <2>1, <2>2 DEF Other
<1>18. CASE Relabelled
  <2> DEFINE names ==
                {"centroids_of_labels", "relabel_sequential", "spots_to_pointlist",
                 "generate_partial_touching_area_matrix", "generate_touch_portion_matrix"}
  <2>1. call'.name \in names
    <3>1. ASSUME NEW name \in names, NEW srcs, NEW dst, NEW asked, NEW after,
                 Call(name, srcs, dst, asked, after)
          PROVE  call'.name \in names
      BY <3>1, NameIs DEF Call
    <3>2. \/ \E d, v, b : Call("centroids_of_labels", <<Source>>, d, <<v, b>>,
                              centroids_of_labels(Found(1, v), Source, d, b))
          \/ \E d, v, b : Call("relabel_sequential", <<Source>>, d, <<v, b>>,
                              relabel_sequential(Found(1, v), Source, d, b))
          \/ Measured("spots_to_pointlist", spots_to_pointlist)
          \/ Measured("generate_partial_touching_area_matrix",
                      generate_partial_touching_area_matrix)
          \/ Measured("generate_touch_portion_matrix", generate_touch_portion_matrix)
      BY <1>18 DEF Relabelled
    <3> QED
      BY <3>1, <3>2 DEF Measured
  <2>2. names \cap (Elementary \cup {"none"}) = {}
    BY DEF Elementary, OfTwoImages, OfOneImage, OfNeighbours, OfNeighbourhoods
  <2> HIDE DEF names
  <2> QED
    BY <2>1, <2>2 DEF Other
<1>19. CASE Maps
  <2> DEFINE names ==
                {"parametric_map", "pixel_count_map", "label_pixel_count_map",
                 "extension_ratio_map",
                 "mean_extension_map", "maximum_extension_map", "touching_neighbor_count_map",
                 "mean_intensity_map", "label_mean_intensity_map", "minimum_intensity_map",
                 "maximum_intensity_map", "standard_deviation_intensity_map"}
  <2>1. call'.name \in names
    BY <1>19, NameIs DEF Maps, Measured, MeasuredTwo, Call
  <2>2. names \cap (Elementary \cup {"none"}) = {}
    BY DEF Elementary, OfTwoImages, OfOneImage, OfNeighbours, OfNeighbourhoods
  <2> HIDE DEF names
  <2> QED
    BY <2>1, <2>2 DEF Other
<1>20. CASE NeighborMaps
  <2> DEFINE names ==
                {"mean_of_touching_neighbors_map", "minimum_of_touching_neighbors_map",
                 "maximum_of_touching_neighbors_map",
                 "standard_deviation_of_touching_neighbors_map",
                 "mode_of_touching_neighbors_map", "median_of_touching_neighbors_map"}
  <2>1. call'.name \in names
    BY <1>20, NameIs DEF NeighborMaps, OfNeighborhood, Call
  <2>2. names \cap (Elementary \cup {"none"}) = {}
    BY DEF Elementary, OfTwoImages, OfOneImage, OfNeighbours, OfNeighbourhoods
  <2> HIDE DEF names
  <2> QED
    BY <2>1, <2>2 DEF Other
<1>21. CASE Labelings
  <2> DEFINE names ==
                {"array_equal", "combine_labels", "connected_component_labeling",
                 "connected_components_labeling", "filter_label_by_size",
                 "exclude_labels_outside_size_range", "merge_touching_labels",
                 "proximal_neighbor_count", "reduce_labels_to_centroids",
                 "standard_deviation_partial_touching_area_matrix",
                 "standard_deviation_touch_portion", "normalize"}
  <2>1. call'.name \in names
    BY <1>21, NameIs DEF Labelings, NumberOfTwo, Measured, MeasuredTwo, Call
  <2>2. names \cap (Elementary \cup {"none"}) = {}
    BY DEF Elementary, OfTwoImages, OfOneImage, OfNeighbours, OfNeighbourhoods
  <2> HIDE DEF names
  <2> QED
    BY <2>1, <2>2 DEF Other
<1>22. CASE Outlines
  <2> DEFINE names ==
                {"voronoi_labeling", "proximal_neighbor_count_map", "remove_small_labels",
                 "remove_large_labels", "exclude_small_labels", "exclude_large_labels",
                 "masked_voronoi_labeling", "dilate_labels", "gauss_otsu_labeling", "erode_labels"}
  <2>1. call'.name \in names
    BY <1>22, NameIs DEF Outlines, Measured, MeasuredTwo, Grown, Call
  <2>2. names \cap (Elementary \cup {"none"}) = {}
    BY DEF Elementary, OfTwoImages, OfOneImage, OfNeighbours, OfNeighbourhoods
  <2> HIDE DEF names
  <2> QED
    BY <2>1, <2>2 DEF Other
<1>23. CASE NeighborMeasures
  <2> DEFINE names ==
                {"labels_neighbors_statistics", "statistics_of_labelled_neighbors"}
  <2>1. call'.name \in names
    BY <1>23, NameIs DEF NeighborMeasures, Call
  <2>2. names \cap (Elementary \cup {"none"}) = {}
    BY DEF Elementary, OfTwoImages, OfOneImage, OfNeighbours, OfNeighbourhoods
  <2> HIDE DEF names
  <2> QED
    BY <2>1, <2>2 DEF Other
<1>24. CASE LabelShapes
  <2> DEFINE names ==
                {"opening_labels", "closing_labels", "erode_connected_labels", "smooth_labels",
                 "smooth_connected_labels", "eroded_otsu_labeling", "voronoi_otsu_labeling"}
  <2>1. call'.name \in names
    BY <1>24, NameIs DEF LabelShapes, Grown, Call
  <2>2. names \cap (Elementary \cup {"none"}) = {}
    BY DEF Elementary, OfTwoImages, OfOneImage, OfNeighbours, OfNeighbourhoods
  <2> HIDE DEF names
  <2> QED
    BY <2>1, <2>2 DEF Other
<1>25. CASE Transforms
  <2> DEFINE names ==
                {"transform_affine", "affine_transform", "rigid_transform", "rotate", "scale",
                 "make_isotropic", "make_anisotropic", "translate", "affine_transform_deskew_3d",
                 "deskew_x", "deskew_y"}
  <2>1. call'.name \in names
    BY <1>25, NameIs DEF Transforms, Call
  <2>2. names \cap (Elementary \cup {"none"}) = {}
    BY DEF Elementary, OfTwoImages, OfOneImage, OfNeighbours, OfNeighbourhoods
  <2> HIDE DEF names
  <2> QED
    BY <2>1, <2>2 DEF Other
<1>26. CASE Fourier
  <2> DEFINE names ==
                {"fft", "ifft", "convolve_fft", "deconvolve"}
  <2>1. call'.name \in names
    BY <1>26, NameIs DEF Fourier, One, Call
  <2>2. names \cap (Elementary \cup {"none"}) = {}
    BY DEF Elementary, OfTwoImages, OfOneImage, OfNeighbours, OfNeighbourhoods
  <2> HIDE DEF names
  <2> QED
    BY <2>1, <2>2 DEF Other
<1> QED
  BY <1>1, <1>2, <1>3, <1>4, <1>5, <1>6, <1>7, <1>8, <1>9, <1>10, <1>11, <1>12, <1>13,
     <1>14, <1>15, <1>16, <1>17, <1>18, <1>19, <1>20, <1>21, <1>22, <1>23, <1>24, <1>25, <1>26

-----------------------------------------------------------------------------
(* The inductive invariant *)

\* A step calls an operation that is a single launch, or another.
LEMMA NextIs == Next => Single \/ Other
<1> SUFFICES ASSUME Next PROVE Single \/ Other
  OBVIOUS
<1> QED
  BY ArithmeticSingle, WithNumberSingle, OfPixelsSingle, MovedSingle, NeighbourhoodsSingle,
     FiltersSingle, TablesSingle, CombinedSingle, OthersAre DEF Next

\* The extents and the dimension an operation asks its destination to have.
AskedShape(m, name) ==
  IF name \in OfTwoImages THEN CommonShape(m, Source, Operand) ELSE Shape(m, Source)
AskedDim(m, name) ==
  IF name \in OfTwoImages THEN CommonDim(m, Source, Operand) ELSE Array(m, Source).dim

\* An operation of one image takes every destination, one of two images those that fit.
Fits(m, name, d) == name \in OfTwoImages => Fitting(m, Source, Operand, d)

\* What an operation that was called when the machine was before leaves.
Settled(before, name, srcs, d, hops, left) ==
  IF Fits(before, name, d)
  THEN Served(before, left, srcs, d, hops, AskedShape(before, name), AskedDim(before, name))
  ELSE TurnedAway(before, left)

\* An operation that launches or refuses settles the call.
LEMMA PerformedSettles ==
  ASSUME NEW m, NEW d, Ready(m, d), NEW name, NEW srcs \in {<<Source>>, <<Source, Operand>>},
         NEW hops \in Nat, NEW after, Performed(m, name, srcs, d, hops, after)
  PROVE  Settled(m, name, srcs, d, hops,
                 Left(after, Finished(after), Len(m.arrays), Len(m.arrays),
                      IF after.thrown THEN Null ELSE Ret(after)))
<1>1. /\ Callable(m) /\ d \in {Null} \cup Pointers(m)
      /\ Source \in Pointers(m) /\ Operand \in Pointers(m)
  BY DEF Ready
<1>2. srcs \in Sources(m)
  BY <1>1 DEF Sources
<1>3. CASE name \in OfTwoImages
  <2> DEFINE shape == CommonShape(m, Source, Operand)
             dim == CommonDim(m, Source, Operand)
  <2>1. shape \in Shapes /\ dim \in 1..3
    BY <1>1, CommonIs
  <2>2. Answered(m, after, Source, Operand, d) /\ srcs = <<Source, Operand>> /\ hops = 0
    BY <1>3 DEF Performed
  <2>3. Elementwise.hops = 0 /\ Elementwise.own \in Nat
    BY DEF Elementwise
  <2> HIDE DEF shape, dim
  <2>4. CASE Fitting(m, Source, Operand, d)
    <3>1. Launched(m, after, srcs, d, Elementwise, shape, dim)
      BY <2>2, <2>4 DEF Answered, shape, dim
    <3>2. Served(m, Left(after, Finished(after), Len(m.arrays), Len(m.arrays),
                         IF after.thrown THEN Null ELSE Ret(after)), srcs, d, hops, shape, dim)
      BY <1>1, <1>2, <2>1, <2>2, <2>3, <3>1, ServedIs
    <3> QED
      BY <1>3, <2>4, <3>2 DEF Settled, Fits, AskedShape, AskedDim, shape, dim
  <2>5. CASE ~Fitting(m, Source, Operand, d)
    <3>1. Refused(m, after)
      BY <2>2, <2>5 DEF Answered
    <3>2. TurnedAway(m, Left(after, Finished(after), Len(m.arrays), Len(m.arrays),
                             IF after.thrown THEN Null ELSE Ret(after)))
      BY <1>1, <3>1, TurnedAwayIs
    <3> QED
      BY <1>3, <2>5, <3>2 DEF Settled, Fits
  <2> QED
    BY <2>4, <2>5
<1>4. CASE name \notin OfTwoImages
  <2> DEFINE shape == Shape(m, Source)
             dim == Array(m, Source).dim
  <2>1. shape \in Shapes /\ dim \in 1..3
    BY <1>1, PointerIs
  <2> HIDE DEF shape, dim
  <2>2. PICK kernel : /\ kernel.hops = hops /\ kernel.own \in Nat
                      /\ Launched(m, after, srcs, d, kernel, shape, dim)
    BY <1>4 DEF Performed, shape, dim
  <2>3. Served(m, Left(after, Finished(after), Len(m.arrays), Len(m.arrays),
                       IF after.thrown THEN Null ELSE Ret(after)), srcs, d, hops, shape, dim)
    BY <1>1, <1>2, <2>1, <2>2, ServedIs
  <2> QED
    BY <1>4, <2>3 DEF Settled, Fits, AskedShape, AskedDim, shape, dim
<1> QED
  BY <1>3, <1>4

\* Between two calls the caller's arrays have a memory each.
Owning(m) ==
  /\ IsMachine(m) /\ m.thrown = FALSE /\ m.queue = <<>>
  /\ m.arrays \in Seq(Handle) /\ Len(m.arrays) \in Held..Result
  /\ \A p \in 1..Len(m.arrays) : m.arrays[p].mem = p
  /\ Len(m.memory) = Len(m.arrays)

\* No call yet.
Untouched(m) ==
  /\ Owning(m) /\ Len(m.arrays) = Held /\ m.memory = [k \in 1..Held |-> Mark(k)]
  /\ m.ret = <<Null>> /\ m.faults = {} /\ m.passes = 1 /\ m.host = 1

\* The last call, of an operation that is a single launch, left the machine as it is.  A
\* result that is handed over has the extents and the dimension that are asked for.
LeftBy(before, c, m) ==
  /\ Ready(before, c.dst)
  /\ IF c.dst = Result THEN Len(before.arrays) = Result ELSE Len(before.arrays) = Held
  /\ c.dst = Result => /\ Fits(before, c.name, Result)
                       /\ before.arrays[Result].shape = AskedShape(before, c.name)
  /\ c.srcs \in {<<Source>>, <<Source, Operand>>} /\ HopsOf(c.name, c.asked) \in Nat
  /\ AsAsked(c.name, HopsOf(c.name, c.asked), c.reach)
  /\ Settled(before, c.name, c.srcs, c.dst, HopsOf(c.name, c.asked), m)

IInv ==
  /\ call.name = "none" => call = NotCalled /\ Untouched(machine)
  /\ call.name \in Elementary => \E before : LeftBy(before, call, machine)

\* A function from the first numbers is a sequence.
LEMMA FunctionIs ==
  ASSUME NEW S, NEW n \in Nat, NEW s \in [1..n -> S]
  PROVE  s \in Seq(S) /\ Len(s) = n
OBVIOUS

\* The memories before a call, one by one.
LEMMA LabelledIs ==
  /\ Labelled = [k \in 1..3 |-> Mark(k)] /\ Len(Labelled) = 3
  /\ Append(Labelled, Mark(4)) = [k \in 1..4 |-> Mark(k)]
<1> DEFINE marks == {Mark(k) : k \in 1..4}
<1>1. Labelled = [k \in 1..3 |-> Mark(k)]
  BY DEF Labelled
<1>2. \A k \in 1..4 : Mark(k) \in marks
  OBVIOUS
<1> HIDE DEF marks
<1>3. Labelled \in Seq(marks) /\ Len(Labelled) = 3
  <2>1. 3 \in Nat /\ [k \in 1..3 |-> Mark(k)] \in [1..3 -> marks]
    BY <1>2
  <2> QED
    BY <1>1, <2>1, FunctionIs
<1> DEFINE all == Append(Labelled, Mark(4))
<1>4. /\ all \in Seq(marks) /\ Len(all) = 4 /\ all[4] = Mark(4)
      /\ \A k \in 1..3 : all[k] = Mark(k)
  <2>1. Mark(4) \in marks
    BY <1>2
  <2>2. /\ all \in Seq(marks) /\ Len(all) = Len(Labelled) + 1
        /\ all[Len(Labelled) + 1] = Mark(4)
        /\ \A p \in 1..Len(Labelled) : all[p] = Labelled[p]
    <3>1. \A s \in Seq(marks), e \in marks :
            /\ Append(s, e) \in Seq(marks) /\ Len(Append(s, e)) = Len(s) + 1
            /\ Append(s, e)[Len(s) + 1] = e
            /\ \A p \in 1..Len(s) : Append(s, e)[p] = s[p]
      BY AppendLast
    <3> QED
      BY Zenon, <1>3, <2>1, <3>1
  <2>3. \A k \in 1..3 : Labelled[k] = Mark(k)
    BY <1>1
  <2> HIDE DEF all
  <2>4. Len(Labelled) = 3
    BY <1>3
  <2> DEFINE n == Len(Labelled)
  <2>5. /\ all \in Seq(marks) /\ Len(all) = n + 1 /\ all[n + 1] = Mark(4) /\ n = 3
        /\ \A p \in 1..n : all[p] = Labelled[p]
    BY <2>2, <2>4
  <2> HIDE DEF n
  <2> QED
    BY <2>3, <2>5
<1> HIDE DEF all
<1>5. \A s \in Seq(marks) : s = [p \in 1..Len(s) |-> s[p]]
  OBVIOUS
<1>6. all = [k \in 1..4 |-> all[k]] /\ \A k \in 1..4 : all[k] = Mark(k)
  BY <1>4, <1>5
<1>7. all = [k \in 1..4 |-> Mark(k)]
  BY <1>6
<1> QED
  BY <1>1, <1>3, <1>7 DEF all

\* The machine a call finds.
LEMMA NowIs ==
  ASSUME Owning(machine)
  PROVE  Callable(Now) /\ Now.arrays = machine.arrays
<1> DEFINE n == Len(machine.arrays)
           memory == IF Len(machine.memory) = Held THEN Labelled
                     ELSE Append(Labelled, Mark(Result))
<1>1. /\ IsMachine(Now) /\ Now.thrown = FALSE /\ Now.faults = {} /\ Now.queue = <<>>
      /\ Now.arrays = machine.arrays /\ Now.memory = memory
  BY DEF Owning, Now, Found, IsMachine, Fields
<1>2. /\ machine.arrays \in Seq(Handle) /\ n \in Held..Result
      /\ \A p \in 1..n : machine.arrays[p].mem = p
      /\ Len(machine.memory) = n
  BY Zenon DEF Owning
<1> HIDE DEF n
<1>3. memory = [k \in 1..n |-> Mark(k)]
  <2>1. n = 3 \/ n = 4
    BY <1>2 DEF Held, Result
  <2>2. CASE n = 3
    <3>1. memory = Labelled
      BY <1>2, <2>2 DEF Held
    <3> QED
      BY <2>2, <3>1, LabelledIs
  <2>3. CASE n = 4
    <3>1. memory = Append(Labelled, Mark(4))
      BY <1>2, <2>3 DEF Held, Result
    <3>2. Append(Labelled, Mark(4)) = [k \in 1..4 |-> Mark(k)]
      BY LabelledIs
    <3> QED
      BY <2>3, <3>1, <3>2
  <2> QED
    BY <2>1, <2>2, <2>3
<1>4. Len(Now.arrays) = n
  BY <1>1 DEF n
<1> HIDE DEF memory
<1> QED
  BY Zenon, <1>1, <1>2, <1>3, <1>4 DEF Callable

\* At the start no call has been made.
LEMMA InitUntouched == Init => IInv
<1> SUFFICES ASSUME Init PROVE IInv
  OBVIOUS
<1>1. PICK client \in Clients :
        machine = [arrays |-> [i \in 1..Held |-> [mem |-> i, shape |-> client[i].shape,
                                                  dim |-> client[i].dim, type |-> client[i].type]],
                   memory |-> Labelled, ret |-> <<Null>>, thrown |-> FALSE,
                   faults |-> {}, passes |-> 1, host |-> 1, queue |-> <<>>]
  BY DEF Init
<1> DEFINE arrays == [i \in 1..3 |-> [mem |-> i, shape |-> client[i].shape,
                                      dim |-> client[i].dim, type |-> client[i].type]]
<1>2. \A i \in 1..3 : arrays[i] \in Handle /\ arrays[i].mem = i
  BY ImageOperationsAssumption DEF Handle, Shapes
<1>3. arrays \in Seq(Handle) /\ Len(arrays) = 3
  <2>1. arrays \in [1..3 -> Handle] /\ 3 \in Nat
    BY <1>2
  <2> HIDE DEF arrays
  <2> QED
    BY <2>1, FunctionIs
<1>4. Labelled = [k \in 1..3 |-> Mark(k)] /\ Len(Labelled) = 3
  BY LabelledIs
<1>5. /\ IsMachine(machine) /\ machine.arrays = arrays /\ machine.memory = Labelled
      /\ machine.ret = <<Null>> /\ machine.thrown = FALSE /\ machine.faults = {}
      /\ machine.passes = 1 /\ machine.host = 1 /\ machine.queue = <<>>
  BY <1>1 DEF IsMachine, Fields, Held
<1> HIDE DEF arrays
<1>6. 3 \in Held..Result /\ Held = 3
  BY DEF Held, Result
<1>7. Untouched(machine)
  BY <1>2, <1>3, <1>4, <1>5, <1>6 DEF Untouched, Owning
<1>8. call = NotCalled /\ NotCalled.name = "none"
  BY DEF Init, NotCalled
<1>9. "none" \notin Elementary
  BY DEF Elementary, OfTwoImages, OfOneImage, OfNeighbours, OfNeighbourhoods
<1> QED
  BY <1>7, <1>8, <1>9 DEF IInv

\* The same operation asks machines whose first arrays are the same for the same.
LEMMA AskedSame ==
  ASSUME NEW m, NEW n, Callable(m), Callable(n),
         Source \in Pointers(m) \cap Pointers(n), Operand \in Pointers(m) \cap Pointers(n),
         m.arrays[Source] = n.arrays[Source], m.arrays[Operand] = n.arrays[Operand], NEW name
  PROVE  /\ AskedShape(m, name) = AskedShape(n, name) /\ AskedDim(m, name) = AskedDim(n, name)
         /\ BothShapes(m, Source, Operand) = BothShapes(n, Source, Operand)
<1>1. Array(m, Source) = Array(n, Source) /\ Array(m, Operand) = Array(n, Operand)
  BY PointerIs
<1> QED
  BY <1>1 DEF AskedShape, AskedDim, CommonShape, CommonDim, BothShapes, BothDims, Shape

\* A first call that was accepted and had no destination: its result can be handed over.
Returning(before, name, m) ==
  /\ Owning(m) /\ Len(m.arrays) = Result
  /\ m.arrays[Result].shape = AskedShape(before, name)
  /\ m.arrays[Result].dim = AskedDim(before, name)
  /\ m.arrays[Source] = before.arrays[Source] /\ m.arrays[Operand] = before.arrays[Operand]
  /\ name \in OfTwoImages => Broadcastable(BothShapes(before, Source, Operand))

\* What is asked of a destination are extents and a dimension.
LEMMA AskedIs ==
  ASSUME NEW m, NEW d, Ready(m, d), NEW name
  PROVE  AskedShape(m, name) \in Shapes /\ AskedDim(m, name) \in 1..3
<1>1. /\ Callable(m) /\ Source \in Pointers(m) /\ Operand \in Pointers(m)
  BY DEF Ready
<1> QED
  BY <1>1, CommonIs, PointerIs DEF AskedShape, AskedDim

\* The result of a first call has the extents and the dimension the call asked for.
LEMMA ReturningIs ==
  ASSUME NEW before, NEW c, NEW m, LeftBy(before, c, m), c.dst = Null, m.ret = <<Result>>
  PROVE  Returning(before, c.name, m)
<1> DEFINE shape == AskedShape(before, c.name)
           dim == AskedDim(before, c.name)
           hops == HopsOf(c.name, c.asked)
<1>1. Ready(before, Null) /\ Settled(before, c.name, c.srcs, Null, hops, m)
  BY DEF LeftBy
<1>2. Len(before.arrays) = Held
  BY DEF LeftBy, Null, Result, Held
<1>3. Fits(before, c.name, Null) /\ Served(before, m, c.srcs, Null, hops, shape, dim)
  <2>1. <<Result>> # <<Null>>
    BY DEF Result, Held, Null
  <2>2. ~TurnedAway(before, m)
    BY <2>1 DEF TurnedAway
  <2> QED
    BY <1>1, <2>2 DEF Settled
<1>4. shape \in Shapes /\ dim \in 1..3
  BY <1>1, AskedIs
<1> HIDE DEF shape, dim, hops
<1>5. PICK type \in dType :
        m.arrays = Append(before.arrays, [mem |-> Len(before.arrays) + 1, dim |-> dim,
                                          type |-> type, shape |-> shape])
  BY <1>3 DEF Served
<1> DEFINE new == [mem |-> 4, dim |-> dim, type |-> type, shape |-> shape]
<1>6. m.arrays = Append(before.arrays, new)
  <2>1. Len(before.arrays) + 1 = 4
    BY <1>2 DEF Held
  <2> QED
    BY Zenon, <1>5, <2>1
<1>7. new \in Handle /\ new.mem = 4 /\ new.shape = shape /\ new.dim = dim
  BY <1>4 DEF Handle
<1> HIDE DEF new
<1>8. before.arrays \in Seq(Handle) /\ \A p \in 1..3 : before.arrays[p].mem = p
  <2>1. /\ before.arrays \in Seq(Handle)
        /\ \A p \in 1..Len(before.arrays) : before.arrays[p].mem = p
    BY Zenon, <1>1 DEF Ready, Callable
  <2>2. Len(before.arrays) = 3
    BY <1>2 DEF Held
  <2> QED
    BY Zenon, <2>1, <2>2
<1>9. /\ m.arrays \in Seq(Handle) /\ Len(m.arrays) = 4 /\ m.arrays[4] = new
      /\ \A p \in 1..3 : m.arrays[p] = before.arrays[p]
  <2>1. \A s \in Seq(Handle), e \in Handle :
          Len(s) = 3 => /\ Append(s, e) \in Seq(Handle) /\ Len(Append(s, e)) = 4
                        /\ Append(s, e)[4] = e
                        /\ \A p \in 1..3 : Append(s, e)[p] = s[p]
    BY AppendLast
  <2>2. Len(before.arrays) = 3
    BY <1>2 DEF Held
  <2> DEFINE arrays == Append(before.arrays, new)
  <2>3. /\ arrays \in Seq(Handle) /\ Len(arrays) = 4 /\ arrays[4] = new
        /\ \A p \in 1..3 : arrays[p] = before.arrays[p]
    BY Zenon, <1>7, <1>8, <2>1, <2>2
  <2>4. m.arrays = arrays
    BY Zenon, <1>6
  <2> HIDE DEF arrays
  <2> QED
    BY Zenon, <2>3, <2>4
<1>10. \A p \in 1..4 : m.arrays[p].mem = p
  BY <1>7, <1>8, <1>9
<1>11. Len(m.memory) = 4
  <2>1. PICK rest \in SUBSET {Null} :
          m.memory = [k \in 1..(Len(before.arrays) + 1) |->
                        IF k = To(before, Null) THEN Outcome(c.srcs, hops, rest) ELSE Mark(k)]
    BY <1>3 DEF Served
  <2>2. Len(before.arrays) + 1 = 4
    BY <1>2 DEF Held
  <2>3. m.memory = [k \in 1..4 |-> IF k = To(before, Null) THEN Outcome(c.srcs, hops, rest)
                                   ELSE Mark(k)]
    BY Zenon, <2>1, <2>2
  <2> DEFINE memory(k) == IF k = To(before, Null) THEN Outcome(c.srcs, hops, rest) ELSE Mark(k)
             all == {memory(k) : k \in 1..4}
  <2>4. [k \in 1..4 |-> memory(k)] \in [1..4 -> all] /\ 4 \in Nat
    OBVIOUS
  <2>5. m.memory = [k \in 1..4 |-> memory(k)]
    BY <2>3
  <2> HIDE DEF memory, all
  <2> QED
    BY <2>4, <2>5, FunctionIs
<1>12. Owning(m)
  <2>1. IsMachine(m) /\ m.thrown = FALSE /\ m.queue = <<>>
    BY <1>3 DEF Served
  <2>2. 4 \in Held..Result
    BY DEF Held, Result
  <2>3. Len(m.arrays) = 4 /\ m.arrays \in Seq(Handle)
    BY <1>9
  <2> QED
    BY Zenon, <1>10, <1>11, <2>1, <2>2, <2>3 DEF Owning
<1>13. c.name \in OfTwoImages => Broadcastable(BothShapes(before, Source, Operand))
  BY <1>3 DEF Fits, Fitting
<1>14. Result = 4 /\ Source \in 1..3 /\ Operand \in 1..3
  BY DEF Result, Held, Source, Operand
<1> QED
  BY <1>7, <1>9, <1>12, <1>13, <1>14 DEF Returning, shape, dim

\* A destination of the next call is an array there is, and the result of a call is one
\* that the same call accepts.
NextFinds(d) ==
  /\ Ready(Now, d)
  /\ IF d = Result THEN Len(Now.arrays) = Result ELSE Len(Now.arrays) = Held
  /\ d = Result => /\ call # NotCalled /\ Fits(Now, call.name, Result)
                   /\ Now.arrays[Result].shape = AskedShape(Now, call.name)
  /\ Len(machine.arrays) = Len(Now.arrays) /\ Len(machine.memory) = Len(Now.arrays)

\* The invariant says that the next call finds its destination.
LEMMA NowReady ==
  ASSUME IInv, NEW d \in Destinations, call.name \in Elementary \cup {"none"}
  PROVE  NextFinds(d)
<1>1. "none" \notin Elementary /\ NotCalled.name = "none"
  BY DEF Elementary, OfTwoImages, OfOneImage, OfNeighbours, OfNeighbourhoods, NotCalled
<1>2. CASE call.name = "none"
  <2>1. call = NotCalled /\ Untouched(machine)
    BY <1>2 DEF IInv
  <2>2. d \in {Null, Source, Own} /\ d # Result /\ d \in {0, 1, 3}
    BY <2>1 DEF Destinations, Null, Source, Own, Result, Held
  <2>3. Owning(machine) /\ Len(machine.arrays) = 3 /\ Held = 3
    BY <2>1 DEF Untouched, Held
  <2>4. Callable(Now) /\ Now.arrays = machine.arrays
    BY <2>3, NowIs
  <2>5. Len(Now.arrays) = 3 /\ Pointers(Now) = 1..3
    BY <2>3, <2>4 DEF Pointers
  <2>6. Ready(Now, d)
    BY <2>2, <2>4, <2>5 DEF Ready, Source, Operand, Null
  <2>7. Len(machine.memory) = Len(machine.arrays)
    BY <2>3 DEF Owning
  <2> QED
    BY <2>2, <2>3, <2>4, <2>5, <2>6, <2>7 DEF NextFinds
<1>3. CASE call.name \in Elementary
  <2>1. call # NotCalled
    BY <1>1, <1>3
  <2>2. d = Result /\ machine.ret = <<Result>> /\ call.dst = Null
    BY <2>1 DEF Destinations, HasResult
  <2>3. PICK before : LeftBy(before, call, machine)
    BY <1>3 DEF IInv
  <2>4. Returning(before, call.name, machine)
    BY <2>2, <2>3, ReturningIs
  <2>5. Owning(machine) /\ Len(machine.arrays) = 4 /\ Result = 4
    BY <2>4 DEF Returning, Result, Held
  <2>6. Callable(Now) /\ Now.arrays = machine.arrays
    BY <2>5, NowIs
  <2>7. Len(Now.arrays) = 4 /\ Pointers(Now) = 1..4
    BY <2>5, <2>6 DEF Pointers
  <2>8. Ready(Now, d)
    BY <2>2, <2>5, <2>6, <2>7 DEF Ready, Source, Operand, Null
  <2>9. Len(machine.memory) = Len(machine.arrays)
    BY <2>5 DEF Owning
  <2>10. /\ Callable(before) /\ Source \in Pointers(before) /\ Operand \in Pointers(before)
    BY <2>3 DEF LeftBy, Ready
  <2>11. /\ AskedShape(Now, call.name) = AskedShape(before, call.name)
         /\ AskedDim(Now, call.name) = AskedDim(before, call.name)
         /\ BothShapes(Now, Source, Operand) = BothShapes(before, Source, Operand)
    <3>1. /\ Source \in Pointers(Now) \cap Pointers(before)
          /\ Operand \in Pointers(Now) \cap Pointers(before)
      BY <2>7, <2>10 DEF Source, Operand
    <3>2. /\ Now.arrays[Source] = before.arrays[Source]
          /\ Now.arrays[Operand] = before.arrays[Operand]
      BY <2>4, <2>6 DEF Returning
    <3> QED
      BY <2>6, <2>10, <3>1, <3>2, AskedSame
  <2>12. /\ Now.arrays[Result].shape = AskedShape(Now, call.name)
         /\ Now.arrays[Result].dim = AskedDim(Now, call.name)
    BY <2>4, <2>6, <2>11 DEF Returning
  <2>13. Fits(Now, call.name, Result)
    BY <2>4, <2>11, <2>12 DEF Returning, Fits, Fitting, AskedShape, AskedDim
  <2> QED
    BY <2>1, <2>2, <2>5, <2>6, <2>7, <2>8, <2>9, <2>12, <2>13 DEF NextFinds
<1> QED
  BY <1>2, <1>3

\* A call of a single launch leaves what LeftBy says, of the machine as it found it.
LEMMA SingleStep ==
  ASSUME IInv, Single
  PROVE  /\ LeftBy(Now, call', machine') /\ call'.name \in Elementary
         /\ call.name \in Elementary \cup {"none"} /\ call'.dst \in Destinations
         /\ call # NotCalled => /\ call'.name = call.name /\ call'.srcs = call.srcs
                                /\ call'.asked = call.asked
<1>1. PICK name, srcs, d, asked, reach, after : OneLaunch(name, srcs, d, asked, reach, after)
  BY DEF Single
<1> DEFINE hops == HopsOf(name, asked)
<1>2. /\ name \in Elementary /\ d \in Destinations /\ srcs \in {<<Source>>, <<Source, Operand>>}
      /\ hops \in Nat /\ AsAsked(name, hops, reach)
      /\ Ready(Now, d) => Performed(Now, name, srcs, d, hops, after)
      /\ call # NotCalled => name = call.name /\ srcs = call.srcs /\ asked = call.asked
      /\ machine' = Left(after, Finished(after), Len(machine.arrays), Len(machine.memory),
                         IF after.thrown THEN Null ELSE Ret(after))
      /\ call' = [name |-> name, srcs |-> srcs, dst |-> d, asked |-> asked, reach |-> reach]
  BY <1>1 DEF OneLaunch, Reaching
<1>3. /\ call'.name = name /\ call'.srcs = srcs /\ call'.dst = d /\ call'.asked = asked
      /\ call'.reach = reach
  BY <1>2
<1>4. call.name \in Elementary \cup {"none"}
  BY <1>2 DEF NotCalled
<1>5. NextFinds(d)
  BY <1>2, <1>4, NowReady
<1>6. Settled(Now, name, srcs, d, hops, machine')
  <2>1. machine' = Left(after, Finished(after), Len(Now.arrays), Len(Now.arrays),
                        IF after.thrown THEN Null ELSE Ret(after))
    BY <1>2, <1>5 DEF NextFinds
  <2>2. Ready(Now, d) /\ Performed(Now, name, srcs, d, hops, after)
    BY <1>2, <1>5 DEF NextFinds
  <2> HIDE DEF hops
  <2> QED
    BY <1>2, <2>1, <2>2, PerformedSettles
<1>7. d = Result => call.name = name
  BY <1>2, <1>5 DEF NextFinds
<1>8. LeftBy(Now, call', machine')
  BY <1>2, <1>3, <1>5, <1>6, <1>7 DEF LeftBy, NextFinds
<1> QED
  BY <1>2, <1>3, <1>4, <1>8

\* Every step keeps the invariant.
LEMMA IInvKept == IInv /\ [Next]_vars => IInv'
<1> SUFFICES ASSUME IInv, [Next]_vars PROVE IInv'
  OBVIOUS
<1>1. CASE Single
  <2>1. LeftBy(Now, call', machine') /\ call'.name \in Elementary
    BY <1>1, SingleStep
  <2>2. "none" \notin Elementary
    BY DEF Elementary, OfTwoImages, OfOneImage, OfNeighbours, OfNeighbourhoods
  <2> QED
    BY <2>1, <2>2 DEF IInv
<1>2. CASE Other
  BY <1>2 DEF Other, IInv
<1>3. CASE UNCHANGED vars
  BY <1>3 DEF vars, IInv
<1> QED
  BY <1>1, <1>2, <1>3, NextIs

\* In every state the machine is as the caller handed it over or as the one launch of the
\* last call left it, when that was the call of an operation that is a single launch (tiers
\* 1 to 3).
THEOREM AlwaysLeftByACall == Spec => []IInv
<1>1. Init => IInv
  BY InitUntouched
<1>2. IInv /\ [Next]_vars => IInv'
  BY IInvKept
<1> QED
  BY <1>1, <1>2, PTL DEF Spec

-----------------------------------------------------------------------------
(* What the invariant says of the machine *)

\* The pointers of the caller's arrays when a call has returned, and the one of the result.
CountAfter(c) == IF c.dst \in {Null, Result} THEN Result ELSE Held
WrittenBy(c) == IF c.dst = Null THEN Result ELSE c.dst

\* n arrays, each with a memory of its own, and nothing pending.
Resting(m, n) ==
  /\ DOMAIN m.arrays = 1..n /\ \A p \in 1..n : m.arrays[p] \in Handle /\ m.arrays[p].mem = p
  /\ m.queue = <<>> /\ m.passes = 1 /\ m.host = 1

\* What the caller finds after a call that was accepted, and after one that was refused.
Accepted(c, m) ==
  /\ Resting(m, CountAfter(c)) /\ WrittenBy(c) \in 1..CountAfter(c)
  /\ m.thrown = FALSE /\ m.ret = <<WrittenBy(c)>>
  /\ m.faults \subseteq {"race"} /\ (WrittenBy(c) \notin ToSet(c.srcs) => m.faults = {})
  /\ \E rest \in SUBSET {c.dst} :
       /\ c.dst \in {Null, Result} => rest = {}
       /\ m.memory = [k \in 1..CountAfter(c) |->
                        IF k = WrittenBy(c) THEN Outcome(c.srcs, HopsOf(c.name, c.asked), rest)
                        ELSE Mark(k)]

Rejected(c, m) ==
  /\ Resting(m, Held) /\ c.dst # Result
  /\ m.thrown = TRUE /\ m.ret = <<Null>> /\ m.faults = {}
  /\ m.memory = [k \in 1..Held |-> Mark(k)]

Answers(c, m) ==
  /\ c.srcs \in {<<Source>>, <<Source, Operand>>} /\ HopsOf(c.name, c.asked) \in Nat
  /\ AsAsked(c.name, HopsOf(c.name, c.asked), c.reach)
  /\ c.dst \in {Null} \cup 1..Result
  /\ Accepted(c, m) \/ Rejected(c, m)

\* Arrays with a memory each, and one more.
LEMMA ArraysOf ==
  ASSUME NEW s \in Seq(Handle), \A p \in 1..Len(s) : s[p].mem = p, NEW e \in Handle,
         e.mem = Len(s) + 1
  PROVE  /\ DOMAIN s = 1..Len(s) /\ \A p \in 1..Len(s) : s[p] \in Handle /\ s[p].mem = p
         /\ DOMAIN Append(s, e) = 1..(Len(s) + 1)
         /\ \A p \in 1..(Len(s) + 1) : Append(s, e)[p] \in Handle /\ Append(s, e)[p].mem = p
<1>1. /\ DOMAIN Append(s, e) = 1..(Len(s) + 1) /\ Append(s, e)[Len(s) + 1] = e
      /\ \A p \in 1..Len(s) : Append(s, e)[p] = s[p]
  BY AppendLast
<1>2. DOMAIN s = 1..Len(s) /\ Len(s) \in Nat /\ \A p \in 1..Len(s) : s[p] \in Handle
  BY SequenceIs
<1> DEFINE all == Append(s, e)
<1> HIDE DEF all
<1>3. \A p \in 1..(Len(s) + 1) : p \in 1..Len(s) \/ p = Len(s) + 1
  BY <1>2
<1> QED
  BY <1>1, <1>2, <1>3 DEF all

\* What LeftBy says of the machine, without the machine before.
LEMMA AnswersIs ==
  ASSUME NEW before, NEW c, NEW m, LeftBy(before, c, m)
  PROVE  Answers(c, m)
<1> DEFINE d == c.dst
           n == Len(before.arrays)
           to == To(before, d)
           shape == AskedShape(before, c.name)
           dim == AskedDim(before, c.name)
           hops == HopsOf(c.name, c.asked)
<1>1. /\ Ready(before, d)
      /\ IF d = Result THEN n = Result ELSE n = Held
      /\ d = Result => Fits(before, c.name, Result) /\ before.arrays[Result].shape = shape
      /\ c.srcs \in {<<Source>>, <<Source, Operand>>} /\ hops \in Nat
      /\ AsAsked(c.name, hops, c.reach)
      /\ Settled(before, c.name, c.srcs, d, hops, m)
  BY DEF LeftBy
<1>2. shape \in Shapes /\ dim \in 1..3
  BY <1>1, AskedIs
<1>3. d \in {Null} \cup Pointers(before) /\ Callable(before)
  BY <1>1 DEF Ready
<1>4. /\ before.arrays \in Seq(Handle) /\ n \in Nat
      /\ \A p \in 1..n : before.arrays[p].mem = p
  <2>1. /\ before.arrays \in Seq(Handle)
        /\ \A p \in 1..Len(before.arrays) : before.arrays[p].mem = p
    BY Zenon, <1>3 DEF Callable
  <2>2. n \in Nat
    BY <1>1 DEF Held, Result
  <2> QED
    BY <2>1, <2>2
<1>5. d \in {Null} \cup 1..n
  BY <1>3 DEF Pointers
<1> HIDE DEF n, d, shape, dim, hops
<1>6. ASSUME NEW type \in dType
      PROVE  LET new == [mem |-> n + 1, dim |-> dim, type |-> type, shape |-> shape]
             IN  /\ DOMAIN Append(before.arrays, new) = 1..(n + 1)
                 /\ \A p \in 1..(n + 1) : /\ Append(before.arrays, new)[p] \in Handle
                                          /\ Append(before.arrays, new)[p].mem = p
                 /\ DOMAIN before.arrays = 1..n
                 /\ \A p \in 1..n : before.arrays[p] \in Handle /\ before.arrays[p].mem = p
  <2> DEFINE new == [mem |-> n + 1, dim |-> dim, type |-> type, shape |-> shape]
  <2>1. new \in Handle /\ new.mem = n + 1
    BY <1>2, <1>4 DEF Handle
  <2> HIDE DEF new
  <2>2. Len(before.arrays) = n
    BY DEF n
  <2>3. ASSUME NEW s \in Seq(Handle), Len(s) = n, \A p \in 1..n : s[p].mem = p
        PROVE  /\ DOMAIN Append(s, new) = 1..(n + 1)
               /\ \A p \in 1..(n + 1) : Append(s, new)[p] \in Handle /\ Append(s, new)[p].mem = p
               /\ DOMAIN s = 1..n
               /\ \A p \in 1..n : s[p] \in Handle /\ s[p].mem = p
    BY <2>1, <2>3, ArraysOf
  <2> QED
    BY Zenon, <1>4, <2>2, <2>3 DEF new
<1>7. "FLOAT" \in dType
  BY DEF dType
<1>8. CASE Fits(before, c.name, d)
  <2>1. Served(before, m, c.srcs, d, hops, shape, dim)
    BY <1>1, <1>8 DEF Settled, d, shape, dim, hops
  <2>2. /\ m.thrown = FALSE /\ m.ret = <<to>>
        /\ m.queue = <<>> /\ m.passes = 1 /\ m.host = 1
        /\ m.faults \subseteq {"race"} /\ (to \notin ToSet(c.srcs) => m.faults = {})
    BY <2>1 DEF Served, d
  <2>3. PICK rest \in SUBSET {d} :
          /\ d = Null \/ before.arrays[d].shape = shape => rest = {}
          /\ m.memory = [k \in 1..(IF d = Null THEN n + 1 ELSE n) |->
                           IF k = to THEN Outcome(c.srcs, hops, rest) ELSE Mark(k)]
    BY <2>1 DEF Served, n, d
  <2>4. d \in {Null, Result} => rest = {}
    BY <1>1, <2>3
  <2>5. CountAfter(c) = (IF d = Null THEN n + 1 ELSE n) /\ WrittenBy(c) = to
    <3>1. to = IF d = Null THEN n + 1 ELSE d
      BY Zenon DEF To, n
    <3>2. /\ CountAfter(c) = IF d \in {Null, Result} THEN Result ELSE Held
          /\ WrittenBy(c) = IF d = Null THEN Result ELSE d
      BY DEF CountAfter, WrittenBy, d
    <3>3. IF d = Result THEN n = 4 ELSE n = 3
      BY <1>1 DEF Result, Held
    <3> HIDE DEF to
    <3> QED
      BY <3>1, <3>2, <3>3 DEF Null, Result, Held
  <2>6. to \in 1..CountAfter(c)
    <3>1. to = IF d = Null THEN n + 1 ELSE d
      BY Zenon DEF To, n
    <3> HIDE DEF to
    <3> QED
      BY <1>4, <1>5, <2>5, <3>1
  <2> HIDE DEF to
  <2>7. Resting(m, CountAfter(c))
    <3>1. CASE d # Null
      <4>1. m.arrays = before.arrays /\ CountAfter(c) = n
        BY <2>1, <2>5, <3>1 DEF Served
      <4>2. DOMAIN m.arrays = 1..n /\ \A p \in 1..n : m.arrays[p] \in Handle /\ m.arrays[p].mem = p
        BY <1>6, <1>7, <4>1
      <4> QED
        BY <2>2, <4>1, <4>2 DEF Resting
    <3>2. CASE d = Null
      <4>1. PICK type \in dType :
              m.arrays = Append(before.arrays, [mem |-> n + 1, dim |-> dim, type |-> type,
                                                shape |-> shape])
        BY <2>1, <3>2 DEF Served, n
      <4> DEFINE arrays == Append(before.arrays, [mem |-> n + 1, dim |-> dim, type |-> type,
                                                  shape |-> shape])
      <4>2. DOMAIN arrays = 1..(n + 1)
            /\ \A p \in 1..(n + 1) : arrays[p] \in Handle /\ arrays[p].mem = p
        BY Zenon, <1>6
      <4>3. m.arrays = arrays
        BY <4>1
      <4> HIDE DEF arrays
      <4> QED
        BY <2>2, <2>5, <3>2, <4>2, <4>3 DEF Resting
    <3> QED
      BY <3>1, <3>2
  <2>8. Accepted(c, m)
    BY <2>2, <2>3, <2>4, <2>5, <2>6, <2>7 DEF Accepted, d, hops
  <2> QED
    BY <1>1, <1>5, <2>8 DEF Answers, d, hops, Held, Result, Null
<1>9. CASE ~Fits(before, c.name, d)
  <2>1. TurnedAway(before, m)
    BY <1>1, <1>9 DEF Settled, d
  <2>2. d # Result /\ n = Held
    BY <1>1, <1>9
  <2>3. /\ m.thrown = TRUE /\ m.ret = <<Null>> /\ m.faults = {}
        /\ m.queue = <<>> /\ m.passes = 1 /\ m.host = 1
        /\ m.arrays = before.arrays /\ m.memory = [k \in 1..n |-> Mark(k)]
    BY <2>1 DEF TurnedAway, n
  <2>4. DOMAIN m.arrays = 1..n /\ \A p \in 1..n : m.arrays[p] \in Handle /\ m.arrays[p].mem = p
    BY <1>6, <1>7, <2>3
  <2>5. Rejected(c, m)
    BY <2>2, <2>3, <2>4 DEF Rejected, Resting, d
  <2> QED
    BY <1>1, <1>5, <2>2, <2>5 DEF Answers, d, hops, Held, Result, Null
<1> QED
  BY <1>8, <1>9

\* The sources are arrays the caller held before the first call.
LEMMA SourcesHeld ==
  ASSUME NEW c, NEW m, Answers(c, m)
  PROVE  ToSet(c.srcs) \subseteq 1..2
<1>1. ToSet(<<1>>) = {1} /\ ToSet(<<1, 2>>) = {1, 2}
  BY DEF ToSet
<1> QED
  BY <1>1 DEF Answers, Source, Operand

\* What is given to the caller, and the memories of the destination and of the operands.
GivenBy(c, m) ==
  /\ m.arrays[Ret(m)].mem = WrittenBy(c)
  /\ \A p \in {c.dst} \cup ToSet(c.srcs) : p # Null => m.arrays[p].mem = p
  /\ \E rest \in SUBSET {c.dst} :
       /\ c.dst \in {Null, Result} => rest = {}
       /\ m.memory[m.arrays[Ret(m)].mem] = Outcome(c.srcs, HopsOf(c.name, c.asked), rest)
  /\ m.faults \subseteq {"race"} /\ (WrittenBy(c) \notin ToSet(c.srcs) => m.faults = {})

\* A call that was accepted gives what was computed, in the memory of its destination.
LEMMA GivenIs ==
  ASSUME NEW c, NEW m, Answers(c, m), ~m.thrown
  PROVE  GivenBy(c, m)
<1>1. Accepted(c, m)
  BY DEF Answers, Rejected
<1> DEFINE n == CountAfter(c)
           to == WrittenBy(c)
<1>2. Ret(m) = to /\ to \in 1..n /\ \A p \in 1..n : m.arrays[p].mem = p
  BY <1>1 DEF Accepted, Resting, Ret
<1>3. ToSet(c.srcs) \subseteq 1..2
  BY SourcesHeld
<1>4. n \in {3, 4} /\ (c.dst # Null => to = c.dst)
  BY DEF CountAfter, WrittenBy, Result, Held
<1>5. PICK rest \in SUBSET {c.dst} :
        /\ c.dst \in {Null, Result} => rest = {}
        /\ m.memory = [k \in 1..n |->
                         IF k = to THEN Outcome(c.srcs, HopsOf(c.name, c.asked), rest) ELSE Mark(k)]
  BY <1>1 DEF Accepted
<1>6. m.faults \subseteq {"race"} /\ (to \notin ToSet(c.srcs) => m.faults = {})
  BY <1>1 DEF Accepted
<1> HIDE DEF n, to
<1>7. \A p \in {c.dst} \cup ToSet(c.srcs) : p # Null => m.arrays[p].mem = p
  BY <1>2, <1>3, <1>4
<1>8. m.memory[to] = Outcome(c.srcs, HopsOf(c.name, c.asked), rest)
  BY <1>2, <1>5
<1> QED
  BY <1>2, <1>5, <1>6, <1>7, <1>8 DEF GivenBy, to

\* Whatever the call: nothing but a race goes wrong, and what the caller held before is as
\* it was, unless it is the destination of a call that was accepted.
LEMMA OthersKept ==
  ASSUME NEW c, NEW m, Answers(c, m)
  PROVE  /\ m.faults \subseteq {"race"}
         /\ \A k \in 1..Held : m.memory[k].kept \/ (k = c.dst /\ ~m.thrown)
<1>1. CASE Rejected(c, m)
  BY <1>1 DEF Rejected, Mark
<1>2. CASE Accepted(c, m)
  <2> DEFINE n == CountAfter(c)
             to == WrittenBy(c)
  <2>1. PICK rest \in SUBSET {c.dst} :
          m.memory = [k \in 1..n |->
                        IF k = to THEN Outcome(c.srcs, HopsOf(c.name, c.asked), rest) ELSE Mark(k)]
    BY <1>2 DEF Accepted
  <2>2. n \in {3, 4} /\ (to = c.dst \/ to = 4) /\ Held = 3
    BY DEF CountAfter, WrittenBy, Result, Held
  <2>3. m.thrown = FALSE /\ m.faults \subseteq {"race"}
    BY <1>2 DEF Accepted
  <2> HIDE DEF n, to
  <2> SUFFICES ASSUME NEW k \in 1..3, k # c.dst PROVE m.memory[k].kept
    BY <2>2, <2>3
  <2>4. m.memory[k] = Mark(k)
    BY <2>1, <2>2
  <2> QED
    BY <2>4 DEF Mark
<1> QED
  BY <1>1, <1>2 DEF Answers

\* After a single launch the machine is well typed.
LEMMA WellTyped == Answers(call, machine) => TypeOK
<1> SUFFICES ASSUME Answers(call, machine) PROVE TypeOK
  OBVIOUS
<1> DEFINE outcome(rest) == Outcome(call.srcs, HopsOf(call.name, call.asked), rest)
<1>1. PICK n \in {3, 4} : Resting(machine, n) /\ DOMAIN machine.memory = 1..n
                          /\ machine.thrown \in BOOLEAN
                          /\ (machine.ret = <<Null>> \/ \E to \in 1..n : machine.ret = <<to>>)
  <2>1. CASE Accepted(call, machine)
    <3>1. PICK n \in {3, 4} : n = CountAfter(call)
      BY DEF CountAfter, Held, Result
    <3>2. Resting(machine, n) /\ machine.thrown \in BOOLEAN
          /\ \E to \in 1..n : machine.ret = <<to>>
      BY <2>1, <3>1 DEF Accepted
    <3>3. DOMAIN machine.memory = 1..n
      BY <2>1, <3>1 DEF Accepted
    <3> QED
      BY <3>2, <3>3
  <2>2. CASE Rejected(call, machine)
    <3>1. Resting(machine, 3) /\ machine.thrown \in BOOLEAN /\ machine.ret = <<Null>>
      BY <2>2 DEF Rejected, Held
    <3>2. DOMAIN machine.memory = 1..3
      BY <2>2 DEF Rejected, Held
    <3> QED
      BY <3>1, <3>2
  <2> QED
    BY <2>1, <2>2 DEF Answers
<1>2. \A k \in DOMAIN machine.memory : machine.memory[k] \in Contents
  <2>1. \A k \in 1..4 : Mark(k) \in Contents
    BY DEF Mark, Contents
  <2>2. \A rest \in SUBSET {call.dst} : outcome(rest) \in Contents
    <3>1. ToSet(call.srcs) \subseteq Nat
      BY SourcesHeld
    <3>2. call.dst \in Nat /\ HopsOf(call.name, call.asked) \in Nat
      BY DEF Answers, Null, Result, Held
    <3> QED
      BY <3>1, <3>2 DEF Outcome, Contents
  <2>3. CASE Accepted(call, machine)
    <3>1. PICK rest \in SUBSET {call.dst} :
            machine.memory = [k \in 1..CountAfter(call) |->
                                IF k = WrittenBy(call) THEN outcome(rest) ELSE Mark(k)]
      BY <2>3 DEF Accepted
    <3>2. CountAfter(call) \in {3, 4}
      BY DEF CountAfter, Held, Result
    <3> HIDE DEF outcome
    <3> QED
      BY <2>1, <2>2, <3>1, <3>2
  <2>4. CASE Rejected(call, machine)
    BY <2>1, <2>4 DEF Rejected, Held
  <2> QED
    BY <2>3, <2>4 DEF Answers
<1>3. machine.faults \subseteq Faults
  BY OthersKept DEF Faults
<1>4. \A p \in DOMAIN machine.arrays :
        /\ machine.arrays[p].mem \in DOMAIN machine.memory
        /\ machine.arrays[p].type \in dType
        /\ machine.arrays[p].dim \in 1..3
  BY <1>1 DEF Resting, Handle
<1>5. Len(machine.ret) = 1 /\ Ret(machine) \in {Null} \cup DOMAIN machine.arrays
  <2>1. \A p : Len(<<p>>) = 1 /\ <<p>>[1] = p
    OBVIOUS
  <2>2. PICK p \in {Null} \cup 1..n : machine.ret = <<p>>
    BY <1>1
  <2>3. DOMAIN machine.arrays = 1..n
    BY <1>1 DEF Resting
  <2> QED
    BY Zenon, <2>1, <2>2, <2>3 DEF Ret
<1> QED
  BY <1>1, <1>2, <1>3, <1>4, <1>5 DEF TypeOK, Resting

\* What is given depends on the operands, from the distance that was asked for, and on
\* nothing that was in a result handed over.
LEMMA ResultsHold ==
  Answers(call, machine) =>
    /\ ResultIsComplete /\ NothingShowsThrough /\ DependsOnItsOperands /\ ReachesAsFarAsAsked
    /\ ResultIsTheDestination
<1> SUFFICES ASSUME Answers(call, machine), ~machine.thrown
             PROVE  /\ ResultIsComplete /\ NothingShowsThrough /\ DependsOnItsOperands
                    /\ ReachesAsFarAsAsked /\ ResultIsTheDestination
  BY DEF ResultIsComplete, NothingShowsThrough, DependsOnItsOperands, ReachesAsFarAsAsked,
         ResultIsTheDestination, HasImage, Returned
<1> DEFINE srcs == ToSet(call.srcs)
           hops == HopsOf(call.name, call.asked)
<1>1. GivenBy(call, machine)
  BY GivenIs
<1>2. PICK rest \in SUBSET {call.dst} :
        /\ call.dst \in {Null, Result} => rest = {}
        /\ Given = Outcome(call.srcs, hops, rest)
  BY <1>1 DEF GivenBy, Given
<1>3. /\ Given.written = TRUE /\ Given.from = srcs \cup rest /\ Given.reach = hops
  BY <1>2 DEF Outcome
<1>4. srcs \subseteq 1..2
  BY SourcesHeld
<1>5. Operands = srcs
  BY <1>1, <1>4 DEF GivenBy, Operands, MemoriesOf, Null
<1>6. call.dst # Null => Supplied = {call.dst} /\ WrittenBy(call) = call.dst
  BY <1>1 DEF GivenBy, Supplied, MemoriesOf, WrittenBy
<1>7. ResultIsComplete /\ DependsOnItsOperands
  BY <1>3, <1>5 DEF ResultIsComplete, DependsOnItsOperands
<1>8. NothingShowsThrough
  <2> SUFFICES ASSUME call.dst = Result PROVE Supplied \cap Given.from = {}
    BY DEF NothingShowsThrough
  <2>1. rest = {} /\ Supplied = {4}
    BY <1>2, <1>6 DEF Result, Held, Null
  <2> QED
    BY <1>3, <1>4, <2>1
<1>9. ReachesAsFarAsAsked
  <2>1. call.name = "kuwahara_filter" => hops = 2 * call.asked[1] + 1
    BY HopsAre
  <2>2. AsAsked(call.name, hops, call.reach)
    BY DEF Answers
  <2> QED
    BY <1>3, <2>1, <2>2 DEF ReachesAsFarAsAsked, TakesTheWindowForItsHalf, AsAsked
<1>10. ResultIsTheDestination
  BY <1>1, <1>6 DEF ResultIsTheDestination, GivenBy
<1> QED
  BY <1>7, <1>8, <1>9, <1>10

\* What the caller held stays, and nothing goes wrong that does not throw.
LEMMA NothingElseHappens ==
  Answers(call, machine) =>
    /\ NothingUnwrittenIsRead /\ NothingRaces
    /\ OnlyTheDestinationIsWritten /\ RefusedCallWritesNothing
<1> SUFFICES ASSUME Answers(call, machine)
             PROVE  /\ NothingUnwrittenIsRead /\ NothingRaces
                    /\ OnlyTheDestinationIsWritten /\ RefusedCallWritesNothing
  OBVIOUS
<1>1. /\ machine.faults \subseteq {"race"}
      /\ \A k \in 1..Held : machine.memory[k].kept \/ (k = call.dst /\ ~machine.thrown)
  BY OthersKept
<1>2. NothingUnwrittenIsRead
  BY <1>1 DEF NothingUnwrittenIsRead
<1>3. RefusedCallWritesNothing
  BY <1>1 DEF RefusedCallWritesNothing
<1>4. OnlyTheDestinationIsWritten
  <2> SUFFICES ASSUME NEW k \in 1..Held, k = call.dst, ~machine.thrown PROVE k \in Supplied
    BY <1>1 DEF OnlyTheDestinationIsWritten
  <2>1. GivenBy(call, machine) /\ call.dst # Null
    BY GivenIs DEF Held, Null
  <2> QED
    BY <2>1 DEF GivenBy, Supplied, MemoriesOf
<1>5. NothingRaces
  <2>1. CASE machine.thrown
    <3>1. machine.faults = {}
      BY <2>1 DEF Answers, Accepted, Rejected
    <3> QED
      BY <3>1 DEF NothingRaces
  <2>2. CASE ~machine.thrown
    <3>1. GivenBy(call, machine)
      BY <2>2, GivenIs
    <3>2. Apart => WrittenBy(call) = 4
      BY DEF Apart, WrittenBy, Result, Held
    <3>3. ToSet(call.srcs) \subseteq 1..2
      BY SourcesHeld
    <3> QED
      BY <3>1, <3>2, <3>3 DEF GivenBy, NothingRaces
  <2> QED
    BY <2>1, <2>2
<1> QED
  BY <1>2, <1>3, <1>4, <1>5

-----------------------------------------------------------------------------
(* Theorems *)

\* No call yet, or one of an operation that is a single launch.
Launching == call.name \in Elementary \cup {"none"}

\* In every state no call has been made or the last one has been answered.
LEMMA InvariantAnswers ==
  IInv /\ Launching => (call = NotCalled /\ Untouched(machine)) \/ Answers(call, machine)
BY AnswersIs DEF IInv, Launching

\* Before the first call the machine is well typed.
LEMMA UntouchedTyped == Untouched(machine) => TypeOK
<1> SUFFICES ASSUME Untouched(machine) PROVE TypeOK
  OBVIOUS
<1>1. /\ machine.arrays \in Seq(Handle) /\ Len(machine.arrays) = 3
      /\ \A p \in 1..Len(machine.arrays) : machine.arrays[p].mem = p
  BY Zenon DEF Untouched, Owning, Held
<1>2. DOMAIN machine.arrays = 1..3
      /\ \A p \in 1..3 : machine.arrays[p] \in Handle /\ machine.arrays[p].mem = p
  <2>1. \A s \in Seq(Handle) :
          Len(s) = 3 => DOMAIN s = 1..3 /\ \A p \in 1..3 : s[p] \in Handle
    BY SequenceIs
  <2> QED
    BY Zenon, <1>1, <2>1
<1>3. /\ machine.memory = [k \in 1..3 |-> Mark(k)] /\ machine.ret = <<Null>>
      /\ machine.faults = {} /\ machine.passes = 1 /\ machine.host = 1
      /\ machine.thrown = FALSE /\ machine.queue = <<>>
  BY DEF Untouched, Owning, Held
<1>4. \A k \in 1..3 : Mark(k) \in Contents
  BY DEF Mark, Contents
<1>5. Len(machine.ret) = 1 /\ Ret(machine) = Null
  BY <1>3 DEF Ret
<1> QED
  BY <1>2, <1>3, <1>4, <1>5 DEF TypeOK, Handle

\* No promise is broken before the first call.
LEMMA UncalledKeepsAll ==
  call = NotCalled =>
    /\ NothingUnwrittenIsRead /\ ResultIsComplete /\ NothingShowsThrough
    /\ DependsOnItsOperands /\ ReachesAsFarAsAsked /\ OnlyTheDestinationIsWritten
    /\ RefusedCallWritesNothing /\ NothingRaces /\ ResultIsTheDestination
BY DEF NothingUnwrittenIsRead, ResultIsComplete, NothingShowsThrough, DependsOnItsOperands,
       ReachesAsFarAsAsked, OnlyTheDestinationIsWritten, RefusedCallWritesNothing,
       NothingRaces, ResultIsTheDestination, HasImage, Returned, Called

\* All promises to the caller of an operation that is a single launch.
LEMMA AllPromises ==
  IInv /\ Launching =>
    /\ TypeOK /\ NothingUnwrittenIsRead /\ ResultIsComplete /\ NothingShowsThrough
    /\ DependsOnItsOperands /\ ReachesAsFarAsAsked /\ OnlyTheDestinationIsWritten
    /\ RefusedCallWritesNothing /\ NothingRaces /\ ResultIsTheDestination
BY InvariantAnswers, UntouchedTyped, UncalledKeepsAll, WellTyped, ResultsHold,
   NothingElseHappens

\* Arrays stay handles of the memories there are, and nothing is left pending (array.hpp,
\* tier0.cpp).
THEOREM TypesOfLaunches == Spec => [](Launching => TypeOK)
BY AlwaysLeftByACall, AllPromises, PTL

\* The kernel of a single launch looks at no memory that nothing has written: memory that
\* Array::create leaves uncleared is only written.
THEOREM LaunchesReadWhatIsWritten == Spec => [](Launching => NothingUnwrittenIsRead)
BY AlwaysLeftByACall, AllPromises, PTL

\* A single launch writes every element of an image it returns: its range covers what
\* create_like and create_or_check_broadcast_dst make.
THEOREM LaunchesCoverTheResult == Spec => [](Launching => ResultIsComplete)
BY AlwaysLeftByACall, AllPromises, PTL

\* Nothing a result held shows in the result computed into it.
THEOREM LaunchesShowNothingThrough == Spec => [](Launching => NothingShowsThrough)
BY AlwaysLeftByACall, AllPromises, PTL

\* The result depends on every operand that was handed over.
THEOREM LaunchesReadEveryOperand == Spec => [](Launching => DependsOnItsOperands)
BY AlwaysLeftByACall, AllPromises, PTL

\* Along x the result depends on values as far away as the radius asks, and on none farther;
\* that of kuwahara_filter on values 2 * radius + 1 columns away, the window its kernel takes
\* for a radius (kuwahara.cpp:118-120).
THEOREM LaunchesReachAsAsked == Spec => [](Launching => ReachesAsFarAsAsked)
BY AlwaysLeftByACall, AllPromises, PTL

\* Of what the caller holds only the destination is written.
THEOREM LaunchesWriteTheDestination == Spec => [](Launching => OnlyTheDestinationIsWritten)
BY AlwaysLeftByACall, AllPromises, PTL

\* An expression of images that do not broadcast, or do not fit the destination, throws
\* before anything is written (tier0.cpp create_or_check_broadcast_dst).
THEOREM RefusedLaunchesWriteNothing == Spec => [](Launching => RefusedCallWritesNothing)
BY AlwaysLeftByACall, AllPromises, PTL

\* Into an array of its own no launch reads beyond its position what it writes.
THEOREM LaunchesDoNotRace == Spec => [](Launching => NothingRaces)
BY AlwaysLeftByACall, AllPromises, PTL

\* The array that is returned has the memory of the destination supplied.
THEOREM LaunchesReturnTheDestination == Spec => [](Launching => ResultIsTheDestination)
BY AlwaysLeftByACall, AllPromises, PTL

\* A result that is handed over is accepted: it has the extents and the dimension the
\* operation asks for.
LEMMA ResultAccepted ==
  ASSUME IInv, Single, call'.dst = Result
  PROVE  ~machine'.thrown
<1>1. LeftBy(Now, call', machine')
  BY SingleStep
<1>2. Answers(call', machine') /\ ~Rejected(call', machine')
  <2>1. Answers(call', machine')
    BY <1>1, AnswersIs
  <2> QED
    BY <2>1 DEF Rejected
<1> QED
  BY <1>2 DEF Answers, Accepted

\* Computed into the result of the first call, the second call leaves the same contents.
LEMMA ResultTheSame ==
  ASSUME IInv, Single, call'.dst = Result
  PROVE  LET k == machine.arrays[Result].mem
         IN machine'.memory[k] = [machine.memory[k] EXCEPT !.kept = FALSE]
<1>1. /\ LeftBy(Now, call', machine') /\ call'.dst \in Destinations
      /\ call.name \in Elementary \cup {"none"}
      /\ call # NotCalled => /\ call'.name = call.name /\ call'.srcs = call.srcs
                             /\ call'.asked = call.asked
  BY SingleStep
<1>2. call # NotCalled /\ machine.ret = <<Result>> /\ call.dst = Null
  BY <1>1 DEF Destinations, HasResult, Result, Held, Source, Own, Null
<1>3. call.name \in Elementary
  BY <1>1, <1>2 DEF IInv
<1>4. Answers(call, machine) /\ ~machine.thrown
  <2>1. Answers(call, machine)
    BY <1>3, AnswersIs DEF IInv
  <2>2. <<Result>> # <<Null>>
    BY DEF Result, Held, Null
  <2> QED
    BY <1>2, <2>1, <2>2 DEF Answers, Accepted, Rejected
<1>5. Answers(call', machine') /\ ~machine'.thrown
  BY <1>1, AnswersIs, ResultAccepted
<1> DEFINE outcome == Outcome(call.srcs, HopsOf(call.name, call.asked), {})
<1>6. machine.memory[4] = outcome /\ machine.arrays[4].mem = 4
  <2>1. GivenBy(call, machine)
    BY <1>4, GivenIs
  <2>2. WrittenBy(call) = 4 /\ Ret(machine) = 4
    BY <1>2 DEF WrittenBy, Result, Held, Ret
  <2> QED
    BY <1>2, <2>1, <2>2 DEF GivenBy
<1>7. machine'.memory[4] = outcome
  <2>1. GivenBy(call', machine')
    BY <1>5, GivenIs
  <2>2. WrittenBy(call') = 4
    BY DEF WrittenBy, Result, Held, Null
  <2> QED
    BY <1>1, <1>2, <2>1, <2>2 DEF GivenBy
<1>8. outcome = [outcome EXCEPT !.kept = FALSE]
  <2>1. PICK written, kept, from, reach :
          /\ outcome = [written |-> written, kept |-> kept, from |-> from, reach |-> reach]
          /\ kept = FALSE
    BY Zenon DEF Outcome
  <2> HIDE DEF outcome
  <2>2. outcome = [outcome EXCEPT !.kept = kept]
    BY <2>1
  <2> QED
    BY Zenon, <2>1, <2>2
<1>9. machine.arrays[Result].mem = 4
  BY <1>6 DEF Result, Held
<1> HIDE DEF outcome
<1> QED
  BY <1>6, <1>7, <1>8, <1>9

\* While only single launches are called, a result is accepted as destination of the same
\* call (tier0.cpp: what is created and what is checked agree).
THEOREM LaunchesAcceptTheirResult == Spec /\ []Launching => OwnResultIsAccepted
<1>1. IInv /\ Launching' /\ [Next]_vars
        => [call'.dst = Result => ~machine'.thrown \/ RefusesItsOwn]_vars
  BY NextIs, ResultAccepted DEF Launching, Other
<1> QED
  BY <1>1, AlwaysLeftByACall, PTL DEF Spec, OwnResultIsAccepted

\* While only single launches are called, a call computes into the result of the call before
\* what it computes into an array it creates.
THEOREM LaunchesIgnoreTheirResult == Spec /\ []Launching => DestinationMakesNoDifference
<1>1. IInv /\ Launching' /\ [Next]_vars
        => [(call'.dst = Result /\ ~machine'.thrown
             /\ call'.name \notin ReadsItsDestination \cup CutOut)
            => LET k == machine.arrays[Result].mem
               IN machine'.memory[k] = [machine.memory[k] EXCEPT !.kept = FALSE]]_vars
  BY NextIs, ResultTheSame DEF Launching, Other
<1> QED
  BY <1>1, AlwaysLeftByACall, PTL DEF Spec, DestinationMakesNoDifference

=============================================================================
