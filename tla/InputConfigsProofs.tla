------------------------- MODULE InputConfigsProofs -------------------------
(***************************************************************************)
(* Proofs about InputConfigs, for all documents, drivers and lines and     *)
(* every capacity of all_inputs_.                                          *)
(*                                                                         *)
(* The callbacks are applied one by one, and none looks back. The          *)
(* invariant (IInv) therefore says, for every place in the document, that  *)
(* all that was read so far is valid (Where), and that the inputs are      *)
(* those that were read, the last of them with the settings of the members *)
(* that were read of it (Holds). At the end of the root that is the whole  *)
(* document. AddInput goes along a list to its end: that it gets there,    *)
(* and where, follows from the links leading forward, by the greatest      *)
(* input for which it would not.                                           *)
(***************************************************************************)
EXTENDS InputConfigs, WellFoundedInduction, FiniteSetTheorems, TLAPS

-----------------------------------------------------------------------------
(* AddInput and the lists of the drivers *)

\* A set of numbers that is not empty has a least one. (Facts about recursive
\* functions are proved from it: a least counterexample is none.)
LEMMA LeastElement ==
  ASSUME NEW T, T \subseteq Nat, T # {}
  PROVE  \E x \in T : \A y \in T : x <= y
<1> DEFINE R == OpToRel(<, Nat)
<1>1. IsWellFoundedOn(R, Nat)
  BY NatLessThanWellFounded
<1>2. \A x, y \in Nat : x < y => <<x, y>> \in R
  BY DEF OpToRel
<1> HIDE DEF R
<1>3. PICK x \in T : \A y \in T : ~(<<y, x>> \in R)
  BY <1>1, WFMin
<1>4. ASSUME NEW y \in T PROVE x <= y
  <2>1. x \in Nat /\ y \in Nat /\ ~(y < x)
    BY <1>2, <1>3
  <2> QED BY <2>1
<1> QED BY <1>3, <1>4

\* A set of numbers up to n that is not empty has a greatest one.
LEMMA GreatestElement ==
  ASSUME NEW n \in Nat, NEW T, T \subseteq 0..n, T # {}
  PROVE  \E x \in T : \A y \in T : y <= x
<1> DEFINE U == {n - y : y \in T}
<1>0. \A y \in T : y \in 0..n
  OBVIOUS
<1>1. U \subseteq Nat /\ U # {}
  <2>1. \A y \in T : n - y \in Nat
    BY <1>0
  <2> QED BY <2>1
<1>2. PICK u \in U : \A w \in U : u <= w
  BY <1>1, LeastElement
<1>3. PICK x \in T : u = n - x
  BY <1>2
<1>4. ASSUME NEW y \in T PROVE y <= x
  <2>1. n - x <= n - y
    BY <1>2, <1>3
  <2> QED BY <1>0, <2>1
<1> QED BY <1>4

\* Every link leads to a later input or to none, as AddInput sets them
Linked(ins, n) ==
  DOMAIN ins = 1..n /\ \A j \in 1..n : ins[j].next = Null \/ ins[j].next \in (j + 1)..n

\* f is the function that LastFrom defines, on the inputs D
Follows(f, ins, D) == f = [j \in D |-> IF ins[j].next = Null THEN j ELSE f[ins[j].next]]

\* The loop of AddInput, while (current->next_for_driver_ != nullptr), ends from
\* every input: the links lead forward.
LEMMA LastFromExists ==
  ASSUME NEW n \in Nat, NEW ins, Linked(ins, n)
  PROVE  Follows(LastFrom(ins), ins, 1..n)
<1> DEFINE T == {k \in 0..n : \E f : Follows(f, ins, (n - k + 1)..n)}
<1>1. 0 \in T
  <2>1. Follows(<<>>, ins, (n - 0 + 1)..n)
    BY DEF Follows
  <2> QED BY <2>1
<1>2. PICK k \in T : \A y \in T : y <= k
  <2> HIDE DEF T
  <2>1. T \subseteq 0..n
    BY DEF T
  <2> QED BY <1>1, <2>1, GreatestElement
<1>3. k = n
  <2> SUFFICES ASSUME k # n PROVE FALSE
    OBVIOUS
  <2>1. PICK f : Follows(f, ins, (n - k + 1)..n)
    BY <1>2
  <2> DEFINE c == n - k
             g == [j \in c..n |-> IF j = c THEN IF ins[j].next = Null THEN j ELSE f[ins[j].next]
                                  ELSE f[j]]
  <2>2. c \in 1..n /\ k + 1 \in 0..n /\ n - (k + 1) + 1 = c /\ n - k + 1 = c + 1
    BY <1>2
  <2>3. \A j \in c..n : g[j] = IF ins[j].next = Null THEN j ELSE g[ins[j].next]
    <3> TAKE j \in c..n
    <3>1. ins[j].next = Null \/ (ins[j].next \in (c + 1)..n /\ ins[j].next \in c..n /\ ins[j].next # c)
      BY <2>2 DEF Linked
    <3>2. CASE j = c
      BY <3>1, <3>2
    <3>3. CASE j # c
      <4>1. j \in (c + 1)..n
        BY <3>3, <2>2
      <4>2. f[j] = IF ins[j].next = Null THEN j ELSE f[ins[j].next]
        BY <2>1, <2>2, <4>1 DEF Follows
      <4> QED BY <3>1, <3>3, <4>2
    <3> QED BY <3>2, <3>3
  <2>4. Follows(g, ins, c..n)
    <3> HIDE DEF g
    <3>1. g = [j \in c..n |-> g[j]]
      BY DEF g
    <3> QED BY <2>3, <3>1 DEF Follows
  <2>5. k + 1 \in T
    BY <2>2, <2>4
  <2> QED BY <1>2, <2>2, <2>5
<1>4. \E f : Follows(f, ins, 1..n)
  <2>1. n - n + 1 = 1
    OBVIOUS
  <2> QED BY <1>2, <1>3, <2>1
<1>5. LastFrom(ins) = CHOOSE f : Follows(f, ins, 1..n)
  BY DEF LastFrom, Follows, Linked
<1> QED BY <1>4, <1>5

\* The inputs S are linked in a list that ends at last
IsList(ins, n, S, last) ==
  /\ Linked(ins, n) /\ S \subseteq 1..n /\ last \in S /\ ins[last].next = Null
  /\ \A j \in S : j # last => ins[j].next \in S

\* From every input of a list the loop of AddInput ends at the last one.
LEMMA LastFromIsLast ==
  ASSUME NEW n \in Nat, NEW ins, NEW S, NEW last, IsList(ins, n, S, last)
  PROVE  \A j \in S : LastFrom(ins)[j] = last
<1> USE DEF IsList
<1> DEFINE f == LastFrom(ins)
           T == {j \in S : f[j] # last}
<1>1. \A j \in 1..n : f[j] = IF ins[j].next = Null THEN j ELSE f[ins[j].next]
  BY LastFromExists DEF Follows
<1> HIDE DEF f
<1>2. SUFFICES ASSUME T # {} PROVE FALSE
  BY DEF f
<1>3. PICK j \in T : \A y \in T : y <= j
  <2>1. T \subseteq 0..n
    <3>1. 1..n \subseteq 0..n
      OBVIOUS
    <3> QED BY <3>1, Zenon
  <2> HIDE DEF T
  <2> QED BY <1>2, <2>1, GreatestElement
<1>4. j # last
  BY <1>1
<1>5. ins[j].next \in S /\ ins[j].next > j /\ ins[j].next # Null
  BY <1>4 DEF Linked, Null
<1>6. ins[j].next \notin T
  <2> HIDE DEF T
  <2>1. j \in Int /\ ins[j].next \in Int
    <3>1. j \in S
      BY <1>3 DEF T
    <3>2. 1..n \subseteq Int
      OBVIOUS
    <3> QED BY <1>5, <3>1, <3>2, Zenon
  <2>2. \A x \in T : x <= j
    BY <1>3
  <2>3. ~(ins[j].next <= j)
    BY <1>5, <2>1
  <2> QED BY <2>2, <2>3
<1> QED BY <1>1, <1>3, <1>5, <1>6

\* The inputs of driver d
Mine(ins, d) == {i \in DOMAIN ins : ins[i].of = d}

\* The list of driver d with the head h is exactly the inputs of d, in their order
ExactFor(ins, h, d) ==
  /\ PointsToFirst(h, Mine(ins, d))
  /\ \A i \in Mine(ins, d) : PointsToFirst(ins[i].next, {j \in Mine(ins, d) : j > i})

\* ListsAreExact, said of a configuration
Exact(c) == \A d \in Drivers : ExactFor(c.inputs, c.head[d], d)

\* The configurations that a callback may find, and what TypeOK says of one
Configs ==
  [inputs : Seq(InputType), head : [Drivers -> 0..MaxInputs],
   driver : Drivers \cup {NoDriver}, current : Nat]

Typed(c) == c \in Configs /\ Len(c.inputs) <= MaxInputs /\ c.current \in 0..Len(c.inputs)

\* Two inputs differ at most in their link
SameSettings(x, y) ==
  /\ x.of = y.of /\ x.from = y.from
  /\ x.invert = y.invert /\ x.reason = y.reason /\ x.delay = y.delay /\ x.line = y.line

\* A sequence of inputs that got one more
Longer(ins, out, n) ==
  /\ DOMAIN ins = 1..n /\ DOMAIN out = 1..(n + 1)
  /\ \A j \in 1..n : out[j].of = ins[j].of

\* AddInput leaves the lists of the other drivers as they are.
LEMMA OtherListKept ==
  ASSUME NEW n \in Nat, NEW ins, NEW out, Longer(ins, out, n), NEW e, NEW h,
         out[n + 1].of # e, \A j \in 1..n : ins[j].of = e => out[j].next = ins[j].next,
         ExactFor(ins, h, e)
  PROVE  ExactFor(out, h, e)
<1>1. Mine(out, e) = Mine(ins, e)
  <2>1. ASSUME NEW j PROVE j \in 1..(n + 1) <=> j \in 1..n \/ j = n + 1
    OBVIOUS
  <2> QED BY <2>1 DEF Mine, Longer
<1>2. \A i \in Mine(ins, e) : out[i].next = ins[i].next
  BY DEF Mine, Longer
<1> QED BY <1>1, <1>2 DEF ExactFor

\* AddInput to an empty list: the head points to the new input.
LEMMA FirstOfList ==
  ASSUME NEW n \in Nat, NEW ins, NEW out, Longer(ins, out, n), NEW d,
         out[n + 1].of = d, out[n + 1].next = Null, Mine(ins, d) = {}
  PROVE  ExactFor(out, n + 1, d)
<1>1. Mine(out, d) = {n + 1}
  <2>1. ASSUME NEW j PROVE j \in 1..(n + 1) <=> j \in 1..n \/ j = n + 1
    OBVIOUS
  <2> QED BY <2>1 DEF Mine, Longer
<1>2. {j \in {n + 1} : j > n + 1} = {}
  OBVIOUS
<1> QED BY <1>1, <1>2 DEF ExactFor, PointsToFirst

\* AddInput to a list: the input that was the last points to the new one.
LEMMA LaterOfList ==
  ASSUME NEW n \in Nat, NEW ins, NEW out, Longer(ins, out, n), NEW d, NEW h,
         out[n + 1].of = d, out[n + 1].next = Null,
         NEW last \in Mine(ins, d), \A y \in Mine(ins, d) : y <= last,
         out[last].next = n + 1, \A j \in 1..n : j # last => out[j].next = ins[j].next,
         ExactFor(ins, h, d)
  PROVE  ExactFor(out, h, d)
<1> DEFINE S == Mine(ins, d)
<1>1. \A j \in S : j \in 1..n
  BY DEF Mine, Longer
<1>2. Mine(out, d) = S \cup {n + 1}
  <2>1. ASSUME NEW j PROVE j \in 1..(n + 1) <=> j \in 1..n \/ j = n + 1
    OBVIOUS
  <2> QED BY <2>1 DEF Mine, Longer
<1> HIDE DEF S
<1>3. last \in S /\ \A y \in S : y <= last
  BY DEF S
<1>4. PointsToFirst(h, S) /\ \A i \in S : PointsToFirst(ins[i].next, {j \in S : j > i})
  BY DEF S, ExactFor
<1>5. PointsToFirst(h, S \cup {n + 1})
  BY <1>1, <1>3, <1>4 DEF PointsToFirst
<1>6. ASSUME NEW i \in S \cup {n + 1}
      PROVE  PointsToFirst(out[i].next, {j \in S \cup {n + 1} : j > i})
  <2>1. CASE i = n + 1
    <3>1. ASSUME NEW j \in S \cup {n + 1} PROVE ~(j > i)
      <4>1. j \in 1..n \/ j = n + 1
        BY <1>1
      <4> QED BY <2>1, <4>1
    <3>2. {j \in S \cup {n + 1} : j > i} = {}
      BY <3>1
    <3> QED BY <2>1, <3>2 DEF PointsToFirst
  <2>2. CASE i = last
    <3>1. {j \in S \cup {n + 1} : j > i} = {n + 1}
      BY <1>1, <1>3, <2>2
    <3> QED BY <2>2, <3>1 DEF PointsToFirst
  <2>3. CASE i # n + 1 /\ i # last
    <3>1. i \in S /\ i \in 1..n /\ last \in 1..n /\ last > i
      BY <1>1, <1>3, <2>3
    <3>2. out[i].next = ins[i].next
      BY <2>3, <3>1
    <3>3. /\ ins[i].next \in S /\ ins[i].next > i
          /\ \A j \in S : j > i => ins[i].next <= j
      BY <1>3, <1>4, <3>1 DEF PointsToFirst
    <3>4. ins[i].next \in 1..n
      BY <1>1, <3>3
    <3> QED BY <3>2, <3>3, <3>4 DEF PointsToFirst
  <2> QED BY <2>1, <2>2, <2>3
<1> QED BY <1>2, <1>5, <1>6 DEF ExactFor

\* In lists that are exact every link leads to a later input.
LEMMA ExactIsLinked ==
  ASSUME NEW c, Typed(c), Exact(c)
  PROVE  Linked(c.inputs, Len(c.inputs))
<1>0. DOMAIN c.inputs = 1..Len(c.inputs)
  BY DEF Typed, Configs
<1> SUFFICES ASSUME NEW j \in DOMAIN c.inputs
             PROVE  c.inputs[j].next = Null \/ c.inputs[j].next \in (j + 1)..Len(c.inputs)
  BY <1>0 DEF Linked
<1>1. c.inputs[j].of \in Drivers /\ DOMAIN c.inputs = 1..Len(c.inputs) /\ Len(c.inputs) \in Nat
  <2>1. c.inputs \in Seq(InputType)
    BY DEF Typed, Configs
  <2>2. c.inputs[j] \in InputType
    BY <2>1
  <2>3. c.inputs[j].of \in Drivers
    BY <2>2 DEF InputType
  <2> QED BY <2>1, <2>3
<1>2. j \in Mine(c.inputs, c.inputs[j].of)
  BY <1>1 DEF Mine
<1>3. PointsToFirst(c.inputs[j].next, {i \in Mine(c.inputs, c.inputs[j].of) : i > j})
  BY <1>1, <1>2 DEF Exact, ExactFor
<1> QED BY <1>1, <1>3 DEF PointsToFirst, Mine

\* emplace_back adds an input behind the others, which stay as they are.
LEMMA Appended ==
  ASSUME NEW c, Typed(c), HasRoom(c), c.driver \in Drivers, NEW p \in Nat \X Nat
  PROVE  LET ins == Append(c.inputs, NewInput(c.driver, p))
         IN /\ ins \in Seq(InputType) /\ Len(ins) = Len(c.inputs) + 1 /\ Len(ins) <= MaxInputs
            /\ DOMAIN ins = 1..(Len(c.inputs) + 1)
            /\ ins[Len(c.inputs) + 1] = NewInput(c.driver, p)
            /\ \A j \in 1..Len(c.inputs) : ins[j] = c.inputs[j] /\ c.inputs[j] \in InputType
<1>1. NewInput(c.driver, p) \in InputType
  BY MaxInputsAssumption DEF NewInput, InputType, MaxDelay, Null
<1> QED BY <1>1, MaxInputsAssumption DEF Typed, Configs, HasRoom

\* What StartInput makes of the configuration c with n inputs, member by member:
\* the new input is the last one, and the head of the list or the last input of
\* the list points to it
Started(c, p, n, r) ==
  /\ Longer(c.inputs, r.inputs, n) /\ Len(r.inputs) = n + 1
  /\ r.driver = c.driver /\ r.current = n + 1
  /\ SameSettings(r.inputs[n + 1], NewInput(c.driver, p))
  /\ r.inputs[n + 1].next = Null
  /\ \A j \in 1..n : SameSettings(r.inputs[j], c.inputs[j])

\* The list was empty, or it was not
LinksFirst(c, n, r) ==
  /\ c.head[c.driver] = Null
  /\ r.head = [c.head EXCEPT ![c.driver] = n + 1]
  /\ \A j \in 1..n : r.inputs[j].next = c.inputs[j].next

LinksLater(c, n, r) ==
  /\ c.head[c.driver] # Null /\ r.head = c.head
  /\ \E last \in Mine(c.inputs, c.driver) :
       /\ \A y \in Mine(c.inputs, c.driver) : y <= last
       /\ r.inputs[last].next = n + 1
       /\ \A j \in 1..n : j # last => r.inputs[j].next = c.inputs[j].next

\* The inputs more are the n inputs ins and one that is not linked to any
OneMore(ins, more, n) ==
  /\ DOMAIN more = 1..(n + 1) /\ more[n + 1].next = Null
  /\ \A j \in 1..n : more[j] = ins[j]

\* AddInput finds the last input of the driver.
LEMMA LastOfDriver ==
  ASSUME NEW ins, NEW n \in Nat, Linked(ins, n), NEW d, NEW h, h # Null, ExactFor(ins, h, d),
         NEW more, OneMore(ins, more, n)
  PROVE  \E last \in Mine(ins, d) : /\ \A y \in Mine(ins, d) : y <= last
                                    /\ LastFrom(more)[h] = last
<1> USE DEF OneMore
<1> DEFINE S == Mine(ins, d)
<1>1. h \in S /\ \A i \in S : PointsToFirst(ins[i].next, {j \in S : j > i})
  BY DEF ExactFor, PointsToFirst
<1>2. \A j \in S : j \in 1..n /\ j \in 0..n /\ j \in 1..(n + 1) /\ j \in Int
  BY DEF Mine, Linked
<1> HIDE DEF S
<1>3. PICK last \in S : \A y \in S : y <= last
  <2>1. S \subseteq 0..n /\ S # {}
    BY <1>1, <1>2
  <2> QED BY <2>1, GreatestElement
<1>4. more[last].next = Null
  <2>1. {j \in S : j > last} = {}
    BY <1>2, <1>3
  <2>2. ins[last].next = Null
    BY <1>1, <1>3, <2>1 DEF PointsToFirst
  <2> QED BY <1>2, <1>3, <2>2
<1>5. ASSUME NEW j \in S, j # last PROVE more[j].next \in S
  <2>1. last > j
    BY <1>2, <1>3, <1>5
  <2>2. ins[j].next \in S
    BY <1>1, <1>3, <2>1 DEF PointsToFirst
  <2> QED BY <1>2, <2>2
<1>6. Linked(more, n + 1)
  <2>1. ASSUME NEW j \in 1..(n + 1)
        PROVE  more[j].next = Null \/ more[j].next \in (j + 1)..(n + 1)
    <3>1. CASE j = n + 1
      BY <3>1
    <3>2. CASE j \in 1..n
      BY <3>2 DEF Linked
    <3> QED BY <3>1, <3>2
  <2> QED BY <2>1 DEF Linked
<1>7. PICK k \in Nat : k = n + 1 /\ S \subseteq 1..k /\ Linked(more, k)
  BY <1>2, <1>6
<1>8. \A j \in S : j # last => more[j].next \in S
  BY <1>5
<1>9. LastFrom(more)[h] = last
  <2>1. \A j \in S : LastFrom(more)[j] = last
    <3>1. IsList(more, k, S, last)
      BY <1>3, <1>4, <1>7, <1>8 DEF IsList
    <3> QED BY <3>1, LastFromIsLast
  <2> QED BY <1>1, <2>1
<1> QED BY <1>3, <1>9 DEF S

\* Replacing the inputs of a configuration keeps its type and the other fields.
LEMMA ConfigWithInputs ==
  ASSUME NEW c \in Configs, NEW x \in Seq(InputType)
  PROVE  LET r == [c EXCEPT !.inputs = x]
         IN r \in Configs /\ r.inputs = x /\ r.head = c.head /\ r.driver = c.driver /\ r.current = c.current
BY DEF Configs

\* Replacing the heads of the lists keeps the type and the other fields.
LEMMA ConfigWithHead ==
  ASSUME NEW c \in Configs, NEW x \in [Drivers -> 0..MaxInputs]
  PROVE  LET r == [c EXCEPT !.head = x]
         IN r \in Configs /\ r.inputs = c.inputs /\ r.head = x /\ r.driver = c.driver /\ r.current = c.current
BY DEF Configs

\* What the callback does at the begin of an input, field by field.
LEMMA StartInputUnfolded ==
  ASSUME NEW c, Typed(c), Exact(c), HasRoom(c), c.driver \in Drivers, NEW p \in Nat \X Nat,
         NEW n, n = Len(c.inputs), NEW r, r = StartInput(c, p)
  PROVE  n \in Nat /\ Typed(r) /\ Started(c, p, n, r) /\ (LinksFirst(c, n, r) \/ LinksLater(c, n, r))
<1> DEFINE d == c.driver
           new == NewInput(d, p)
           ins == Append(c.inputs, new)
           c1 == [c EXCEPT !.inputs = ins, !.current = n + 1]
<1>1. n \in Nat /\ n < MaxInputs /\ DOMAIN c.inputs = 1..n /\ n + 1 \in 0..MaxInputs
  BY MaxInputsAssumption DEF Typed, Configs, HasRoom
<1>2. /\ ins \in Seq(InputType) /\ Len(ins) = n + 1
      /\ DOMAIN ins = 1..(n + 1) /\ ins[n + 1] = new
      /\ \A j \in 1..n : ins[j] = c.inputs[j] /\ c.inputs[j] \in InputType
  BY Appended
<1>3. /\ c1 \in Configs
      /\ c1.inputs = ins /\ c1.head = c.head /\ c1.driver = d /\ c1.current = n + 1
  <2> HIDE DEF ins
  <2>1. c \in Configs /\ ins \in Seq(InputType) /\ n + 1 \in Nat
    BY <1>1, <1>2 DEF Typed
  <2> QED BY <2>1 DEF Configs
<1>5. c.head \in [Drivers -> 0..MaxInputs] /\ \A e \in Drivers : ExactFor(c.inputs, c.head[e], e)
  BY DEF Typed, Configs, Exact
<1>6. r = AddInput(c1, d, n + 1)
  BY DEF StartInput
<1>7. new.of = d /\ new.next = Null /\ new \in InputType
  BY MaxInputsAssumption DEF NewInput, InputType, MaxDelay, Null
<1> HIDE DEF new, ins, c1
<1>8. CASE c.head[d] = Null
  <2> DEFINE h == [c.head EXCEPT ![d] = n + 1]
  <2>2. h \in [Drivers -> 0..MaxInputs]
    BY <1>1, <1>5
  <2>1. r \in Configs /\ r.inputs = ins /\ r.head = h /\ r.driver = d /\ r.current = n + 1
    <3>1. r = [c1 EXCEPT !.head = h]
      BY <1>3, <1>6, <1>8 DEF AddInput
    <3> HIDE DEF h
    <3> QED BY <1>3, <2>2, <3>1, ConfigWithHead
  <2>3. Typed(r)
    BY <1>1, <1>2, <2>1 DEF Typed
  <2>4. r.inputs[n + 1] = new /\ \A j \in 1..n : r.inputs[j] = c.inputs[j]
    BY <1>2, <2>1
  <2>5. Started(c, p, n, r)
    BY <1>1, <1>2, <1>7, <2>1, <2>4 DEF Started, Longer, SameSettings, new
  <2>6. LinksFirst(c, n, r)
    BY <1>8, <2>1, <2>4 DEF LinksFirst
  <2> QED BY <1>1, <2>3, <2>5, <2>6
<1>9. CASE c.head[d] # Null
  <2>1. Linked(c.inputs, n)
    BY ExactIsLinked
  <2>2. PICK last \in Mine(c.inputs, d) : /\ \A y \in Mine(c.inputs, d) : y <= last
                                          /\ LastFrom(ins)[c.head[d]] = last
    <3>1. OneMore(c.inputs, ins, n)
      BY <1>2, <1>7 DEF OneMore
    <3>2. ExactFor(c.inputs, c.head[d], d)
      BY <1>5
    <3> QED BY <1>1, <1>9, <2>1, <3>1, <3>2, LastOfDriver
  <2>3. last \in 1..n /\ last \in 1..(n + 1) /\ last # n + 1
    BY <1>1 DEF Mine
  <2> DEFINE changed == [ins[last] EXCEPT !.next = n + 1]
             out == [ins EXCEPT ![last] = changed]
  <2>4. r = [c1 EXCEPT !.inputs = out]
    BY <1>3, <1>6, <1>9, <2>2 DEF AddInput
  <2>5. /\ changed \in InputType /\ changed.next = n + 1
        /\ SameSettings(changed, c.inputs[last])
    <3>1. ins[last] \in InputType /\ ins[last] = c.inputs[last] /\ n + 1 \in 0..MaxInputs
      BY <1>1, <1>2, <2>3
    <3> QED BY <3>1 DEF InputType, SameSettings
  <2> HIDE DEF changed
  <2>6. out \in Seq(InputType) /\ Len(out) = n + 1
    BY <1>1, <1>2, <2>3, <2>5
  <2>7. DOMAIN out = 1..(n + 1) /\ out[last] = changed /\ \A j \in 1..(n + 1) : j # last => out[j] = ins[j]
    BY <1>2, <2>3
  <2> HIDE DEF out
  <2>15. r \in Configs /\ r.inputs = out /\ r.head = c.head /\ r.driver = d /\ r.current = n + 1
    BY <1>3, <2>4, <2>6, ConfigWithInputs
  <2>8. Typed(r)
    BY <1>1, <2>6, <2>15 DEF Typed
  <2>9. r.inputs[n + 1] = new
    BY <1>1, <1>2, <2>3, <2>15, <2>7
  <2>10. \A j \in 1..n : j # last => r.inputs[j] = c.inputs[j]
    BY <1>1, <1>2, <2>15, <2>7
  <2>11. r.inputs[last] = changed
    BY <2>15, <2>7
  <2>12. \A j \in 1..n : SameSettings(r.inputs[j], c.inputs[j])
    BY <2>5, <2>10, <2>11 DEF SameSettings
  <2>13. Started(c, p, n, r)
    BY <1>1, <1>7, <2>15, <2>6, <2>7, <2>9, <2>12 DEF Started, Longer, SameSettings, new
  <2>14. LinksLater(c, n, r)
    BY <1>9, <2>2, <2>15, <2>5, <2>10, <2>11 DEF LinksLater
  <2> QED BY <1>1, <2>8, <2>13, <2>14
<1> QED BY <1>8, <1>9

\* The begin of an input leaves every list of a driver exact.
LEMMA StartInputLinks ==
  ASSUME NEW c, Typed(c), Exact(c), HasRoom(c), c.driver \in Drivers, NEW p \in Nat \X Nat,
         NEW n, n = Len(c.inputs), NEW r, r = StartInput(c, p)
  PROVE  Exact(r)
<1> DEFINE d == c.driver
           ins == c.inputs
           out == r.inputs
<1>1. /\ n \in Nat /\ Longer(ins, out, n) /\ out[n + 1].of = d /\ out[n + 1].next = Null
      /\ c.head \in [Drivers -> 0..MaxInputs]
  <2>1. n \in Nat /\ Started(c, p, n, r)
    BY StartInputUnfolded
  <2>2. c.head \in [Drivers -> 0..MaxInputs]
    BY DEF Typed, Configs
  <2> QED BY <2>1, <2>2 DEF Started, SameSettings, NewInput
<1>2. \A e \in Drivers : ExactFor(ins, c.head[e], e)
  BY DEF Exact
<1>3. CASE LinksFirst(c, n, r)
  <2>1. Mine(ins, d) = {}
    <3>1. PointsToFirst(Null, Mine(ins, d))
      BY <1>2, <1>3 DEF ExactFor, LinksFirst
    <3>2. Null \notin Mine(ins, d)
      BY <1>1 DEF Mine, Longer, Null
    <3> QED BY <3>1, <3>2 DEF PointsToFirst
  <2>2. ExactFor(out, n + 1, d)
    BY <1>1, <2>1, FirstOfList
  <2>3. ASSUME NEW e \in Drivers, e # d PROVE ExactFor(out, c.head[e], e)
    <3>1. \A j \in 1..n : ins[j].of = e => out[j].next = ins[j].next
      BY <1>3 DEF LinksFirst
    <3> QED BY <1>1, <1>2, <2>3, <3>1, OtherListKept
  <2> QED BY <1>1, <1>3, <2>2, <2>3 DEF Exact, LinksFirst
<1>4. CASE LinksLater(c, n, r)
  <2>1. PICK last \in Mine(ins, d) : /\ \A y \in Mine(ins, d) : y <= last
                                     /\ out[last].next = n + 1
                                     /\ \A j \in 1..n : j # last => out[j].next = ins[j].next
    BY <1>4 DEF LinksLater
  <2>2. ExactFor(out, c.head[d], d)
    BY <1>1, <1>2, <2>1, LaterOfList
  <2>3. ASSUME NEW e \in Drivers, e # d PROVE ExactFor(out, c.head[e], e)
    <3>1. \A j \in 1..n : ins[j].of = e => out[j].next = ins[j].next
      BY <2>1, <2>3 DEF Mine
    <3> QED BY <1>1, <1>2, <2>3, <3>1, OtherListKept
  <2> QED BY <1>4, <2>2, <2>3 DEF Exact, LinksLater
<1> QED BY <1>3, <1>4, StartInputUnfolded

-----------------------------------------------------------------------------
(* What one more member of an input or of "emergency" means *)

\* w is v with the member a more, n + 1 in all
Grown(v, w, n, a) ==
  /\ DOMAIN v.members = 1..n /\ DOMAIN w.members = 1..(n + 1)
  /\ \A j \in 1..n : w.members[j] = v.members[j]
  /\ w.members[n + 1] = a

\* A key is among the members if it was before or is the new one.
LEMMA HasGrown ==
  ASSUME NEW v, NEW w, NEW n \in Nat, NEW a, Grown(v, w, n, a), NEW key
  PROVE  Has(w, key) <=> Has(v, key) \/ a.key = key
<1>1. \A j : j \in 1..(n + 1) <=> j \in 1..n \/ j = n + 1
  OBVIOUS
<1> QED BY <1>1 DEF Grown, Has

\* A new member decides if its key counts; if not, the one that decided does.
LEMMA DecidesGrown ==
  ASSUME NEW v, NEW w, NEW n \in Nat, NEW a, Grown(v, w, n, a), NEW keys
  PROVE  /\ Decides(w, keys, n + 1) <=> a.key \in keys
         /\ \A j \in 1..n : Decides(w, keys, j) <=> a.key \notin keys /\ Decides(v, keys, j)
<1>1. \A j : j \in 1..(n + 1) <=> j \in 1..n \/ j = n + 1
  OBVIOUS
<1>2. \A j \in 1..n : n + 1 > j /\ ~(j > n + 1)
  OBVIOUS
<1>3. Decides(w, keys, n + 1) <=> a.key \in keys
  BY <1>1, <1>2 DEF Grown, Decides
<1>4. ASSUME NEW j \in 1..n
      PROVE  Decides(w, keys, j) <=> a.key \notin keys /\ Decides(v, keys, j)
  BY <1>1, <1>2 DEF Grown, Decides
<1> QED BY <1>3, <1>4

\* What "invert" and "active" mean when a member is added.
LEMMA PolarityGrown ==
  ASSUME NEW v, NEW w, NEW n \in Nat, NEW a, Grown(v, w, n, a)
  PROVE  MeantPolarity(w) <=> \/ a.key = "invert" /\ a.type = "TRUE"
                              \/ a.key = "active" /\ a.str = "low"
                              \/ a.key \notin {"invert", "active"} /\ MeantPolarity(v)
<1>1. \A j : j \in 1..(n + 1) <=> j \in 1..n \/ j = n + 1
  OBVIOUS
<1> DEFINE keys == {"invert", "active"}
<1>2. /\ Decides(w, keys, n + 1) <=> a.key \in keys
      /\ \A j \in 1..n : Decides(w, keys, j) <=> a.key \notin keys /\ Decides(v, keys, j)
  BY DecidesGrown
<1> QED BY <1>1, <1>2 DEF MeantPolarity, Grown

\* What "line" means when a member is added.
LEMMA LineGrown ==
  ASSUME NEW v, NEW w, NEW n \in Nat, NEW a, Grown(v, w, n, a), NEW line, MeansLine(line, v)
  PROVE  MeansLine(IF a.key = "line" THEN a.str ELSE line, w)
<1>1. \A j : j \in 1..(n + 1) <=> j \in 1..n \/ j = n + 1
  OBVIOUS
<1> DEFINE keys == {"line"}
<1>2. /\ Decides(w, keys, n + 1) <=> a.key \in keys
      /\ \A j \in 1..n : Decides(w, keys, j) <=> a.key \notin keys /\ Decides(v, keys, j)
  BY DecidesGrown
<1>3. Has(w, "line") <=> Has(v, "line") \/ a.key = "line"
  BY HasGrown
<1> QED BY <1>1, <1>2, <1>3 DEF MeansLine, Grown

\* What "emergency" means for the reason when a member is added, itself still empty.
LEMMA ReasonGrown ==
  ASSUME NEW v, NEW w, NEW n \in Nat, NEW a, Grown(v, w, n, a), NEW reason, MeansReason(reason, v),
         DOMAIN a.members = {}
  PROVE  MeansReason(IF a.key = "emergency" THEN {Latch} ELSE reason, w)
<1>1. \A j : j \in 1..(n + 1) <=> j \in 1..n \/ j = n + 1
  OBVIOUS
<1> DEFINE keys == {"emergency"}
<1>2. /\ Decides(w, keys, n + 1) <=> a.key \in keys
      /\ \A j \in 1..n : Decides(w, keys, j) <=> a.key \notin keys /\ Decides(v, keys, j)
  BY DecidesGrown
<1>3. Has(w, "emergency") <=> Has(v, "emergency") \/ a.key = "emergency"
  BY HasGrown
<1>4. ReasonOf(a) = {Latch}
  BY DEF ReasonOf
<1> QED BY <1>1, <1>2, <1>3, <1>4 DEF MeansReason, Grown

\* An "emergency" without values leaves the delay as it is.
LEMMA DelayGrown ==
  ASSUME NEW v, NEW w, NEW n \in Nat, NEW a, Grown(v, w, n, a), NEW delay, MeansDelay(delay, v),
         DOMAIN a.members = {}
  PROVE  MeansDelay(delay, w)
<1>1. \A j : j \in 1..(n + 1) <=> j \in 1..n \/ j = n + 1
  OBVIOUS
<1>2. ~HasDelay(a)
  BY DEF HasDelay, Has
<1>3. /\ DOMAIN v.members = 1..n /\ DOMAIN w.members = 1..(n + 1)
      /\ \A j \in 1..n : w.members[j] = v.members[j]
      /\ ~HasDelay(w.members[n + 1])
  BY <1>2 DEF Grown
<1> QED BY <1>1, <1>3 DEF MeansDelay

\* The callback at a value of an input makes of an input that means what was read
\* of it one that means what is read of it now.
LEMMA ValueMeant ==
  ASSUME NEW v, NEW w, NEW n \in Nat, NEW a, Grown(v, w, n, a), NEW input \in InputType, Means(input, v),
         DOMAIN a.members = {}, NEW e, e.key = a.key, e.type = a.type, e.str = a.str, ~e.end,
         e.key \in {"invert", "emergency", "line", "active"}
  PROVE  Means(InputValue(input, e), w)
<1> DEFINE out == InputValue(input, e)
<1>1. /\ out.line = IF a.key = "line" THEN a.str ELSE input.line
      /\ out.reason = IF a.key = "emergency" THEN {Latch} ELSE input.reason
      /\ out.delay = input.delay
  BY DEF InputValue, InputType
<1>2. out.invert = MeantPolarity(w)
  <2>4. MeantPolarity(v) \in BOOLEAN /\ MeantPolarity(w) \in BOOLEAN
    BY Zenon DEF MeantPolarity
  <2>1. CASE a.key = "invert"
    <3>1. out.invert = (a.type = "TRUE")
      BY <2>1 DEF InputValue, InputType
    <3>2. MeantPolarity(w) <=> a.type = "TRUE"
      BY <2>1, PolarityGrown
    <3> HIDE DEF out
    <3> QED BY <2>4, <3>1, <3>2, Zenon
  <2>2. CASE a.key = "active"
    <3>1. out.invert = (a.str = "low")
      BY <2>2 DEF InputValue, InputType
    <3>2. MeantPolarity(w) <=> a.str = "low"
      BY <2>2, PolarityGrown
    <3> HIDE DEF out
    <3> QED BY <2>4, <3>1, <3>2, Zenon
  <2>3. CASE a.key \notin {"invert", "active"}
    <3>1. out.invert = input.invert
      BY <2>3 DEF InputValue, InputType
    <3>2. MeantPolarity(w) <=> MeantPolarity(v)
      BY <2>3, PolarityGrown
    <3>3. input.invert = MeantPolarity(v)
      BY DEF Means
    <3> HIDE DEF out
    <3> QED BY <2>4, <3>1, <3>2, <3>3, Zenon
  <2> QED BY <2>1, <2>2, <2>3
<1> HIDE DEF out
<1> QED BY <1>1, <1>2, LineGrown, ReasonGrown, DelayGrown DEF Means, out

\* w is v but for its last member, the n-th, an "emergency" that has the value a more
LastGrown(v, w, n, m, a) ==
  /\ DOMAIN v.members = 1..n /\ DOMAIN w.members = 1..n
  /\ v.members[n].key = "emergency" /\ w.members[n].key = "emergency"
  /\ \A j \in 1..n : j # n => w.members[j] = v.members[j]
  /\ Grown(v.members[n], w.members[n], m, a)

\* Another value inside the last "emergency" changes no key and no decision.
LEMMA DecidesLastGrown ==
  ASSUME NEW v, NEW w, NEW n \in Nat \ {0}, NEW m \in Nat, NEW a, LastGrown(v, w, n, m, a), NEW keys
  PROVE  /\ \A j \in 1..n : w.members[j].key = v.members[j].key
         /\ \A j \in 1..n : Decides(w, keys, j) <=> Decides(v, keys, j)
         /\ Decides(w, {"emergency"}, n)
         /\ \A key : Has(w, key) <=> Has(v, key)
<1>1. \A j \in 1..n : w.members[j].key = v.members[j].key
  BY DEF LastGrown
<1>2. \A j \in 1..n : Decides(w, keys, j) <=> Decides(v, keys, j)
  BY <1>1 DEF Decides, LastGrown
<1>3. Decides(w, {"emergency"}, n)
  BY DEF Decides, LastGrown
<1>4. \A key : Has(w, key) <=> Has(v, key)
  BY <1>1 DEF Has, LastGrown
<1> QED BY <1>1, <1>2, <1>3, <1>4

\* The reasons that an "emergency" names, and whether it takes LATCH back
Named(em) ==
  {em.members[q].str : q \in {o \in DOMAIN em.members : em.members[o].key = "reason"}}
Unlatched(em) ==
  \E q \in DOMAIN em.members : em.members[q].key = "latch" /\ em.members[q].type = "FALSE"

\* What a value inside "emergency" adds to the reason or takes from it.
LEMMA ReasonOfGrown ==
  ASSUME NEW v, NEW w, NEW m \in Nat, NEW a, Grown(v, w, m, a),
         \A j \in DOMAIN v.members : v.members[j].key = "reason" => v.members[j].str # Latch
  PROVE  ReasonOf(w) = IF a.key = "reason" THEN ReasonOf(v) \cup {a.str}
                       ELSE IF a.key = "latch" /\ a.type = "FALSE" THEN ReasonOf(v) \ {Latch}
                       ELSE ReasonOf(v)
<1>1. \A j : j \in 1..(m + 1) <=> j \in 1..m \/ j = m + 1
  OBVIOUS
<1>2. /\ \A x : x \in Named(w) <=> x \in Named(v) \/ (a.key = "reason" /\ x = a.str)
      /\ Unlatched(w) <=> Unlatched(v) \/ (a.key = "latch" /\ a.type = "FALSE")
      /\ Latch \notin Named(v)
  <2>1. \A x : x \in Named(w) <=> x \in Named(v) \/ (a.key = "reason" /\ x = a.str)
    BY <1>1 DEF Named, Grown
  <2>2. Unlatched(w) <=> Unlatched(v) \/ (a.key = "latch" /\ a.type = "FALSE")
    BY <1>1 DEF Unlatched, Grown
  <2>3. Latch \notin Named(v)
    BY DEF Named
  <2> QED BY <2>1, <2>2, <2>3
<1>3. /\ \A x : x \in ReasonOf(v) <=> x \in Named(v) \/ (x = Latch /\ ~Unlatched(v))
      /\ \A x : x \in ReasonOf(w) <=> x \in Named(w) \/ (x = Latch /\ ~Unlatched(w))
  BY DEF ReasonOf, Named, Unlatched
<1>4. CASE a.key = "reason"
  <2>1. \A x : x \in ReasonOf(w) <=> x \in ReasonOf(v) \cup {a.str}
    BY <1>2, <1>3, <1>4
  <2>2. ReasonOf(w) = ReasonOf(v) \cup {a.str}
    BY <2>1
  <2> QED BY <1>4, <2>2
<1>5. CASE a.key = "latch" /\ a.type = "FALSE"
  <2>1. \A x : x \in ReasonOf(w) <=> x \in ReasonOf(v) \ {Latch}
    BY <1>2, <1>3, <1>5
  <2>2. ReasonOf(w) = ReasonOf(v) \ {Latch}
    BY <2>1
  <2> QED BY <1>5, <2>2
<1>6. CASE a.key # "reason" /\ ~(a.key = "latch" /\ a.type = "FALSE")
  <2>1. \A x : x \in ReasonOf(w) <=> x \in ReasonOf(v)
    BY <1>2, <1>3, <1>6
  <2>2. ReasonOf(w) = ReasonOf(v)
    BY <2>1 DEF ReasonOf
  <2> QED BY <1>6, <2>2
<1> QED BY <1>4, <1>5, <1>6

\* What a value inside "emergency" does to the delay.
LEMMA DelayLastGrown ==
  ASSUME NEW v, NEW w, NEW n \in Nat \ {0}, NEW m \in Nat, NEW a, LastGrown(v, w, n, m, a),
         NEW delay, MeansDelay(delay, v)
  PROVE  MeansDelay(IF a.key = "delay" THEN a.num ELSE delay, w)
<1> DEFINE em == v.members[n]
           em2 == w.members[n]
           out == IF a.key = "delay" THEN a.num ELSE delay
<1>1. /\ DOMAIN v.members = 1..n /\ DOMAIN w.members = 1..n /\ n \in 1..n
      /\ \A j \in 1..n : j # n => w.members[j] = v.members[j]
      /\ Grown(em, em2, m, a) /\ em.key = "emergency" /\ em2.key = "emergency"
  BY DEF LastGrown
<1>2. HasDelay(em2) <=> HasDelay(em) \/ a.key = "delay"
  BY <1>1, HasGrown DEF HasDelay
<1>3. /\ DOMAIN em2.members = 1..(m + 1) /\ DOMAIN em.members = 1..m /\ em2.members[m + 1] = a
      /\ \A j \in 1..m : em2.members[j] = em.members[j]
      /\ \A j : j \in 1..(m + 1) <=> j \in 1..m \/ j = m + 1
  BY <1>1 DEF Grown
<1>4. /\ Decides(em2, {"delay"}, m + 1) <=> a.key = "delay"
      /\ \A j \in 1..m : Decides(em2, {"delay"}, j) <=> a.key # "delay" /\ Decides(em, {"delay"}, j)
  <2>1. /\ Decides(em2, {"delay"}, m + 1) <=> a.key \in {"delay"}
        /\ \A j \in 1..m : Decides(em2, {"delay"}, j) <=> a.key \notin {"delay"} /\ Decides(em, {"delay"}, j)
    <3> HIDE DEF em, em2
    <3> QED BY <1>1, DecidesGrown
  <2> QED BY <2>1
<1> HIDE DEF em, em2
<1>5. \A j \in 1..n : ~(j > n) /\ (j # n => n > j)
  OBVIOUS
<1>6. CASE a.key = "delay"
  <2>1. HasDelay(em2)
    BY <1>2, <1>6
  <2>2. \A q \in DOMAIN em2.members : Decides(em2, {"delay"}, q) => a.num = em2.members[q].num
    BY <1>3, <1>4, <1>6
  <2> QED BY <1>1, <1>5, <1>6, <2>1, <2>2 DEF MeansDelay, em2
<1>7. CASE a.key # "delay"
  <2>1. HasDelay(em2) <=> HasDelay(em)
    BY <1>2, <1>7
  <2>2. \A j \in 1..n : HasDelay(w.members[j]) <=> HasDelay(v.members[j])
    BY <1>1, <2>1 DEF em, em2
  <2>3. (~\E j \in 1..n : HasDelay(w.members[j])) => delay = 0
    BY <1>1, <2>2 DEF MeansDelay
  <2>4. ASSUME NEW j \in 1..n, HasDelay(w.members[j]),
               \A o \in 1..n : o > j => ~HasDelay(w.members[o]),
               NEW q \in DOMAIN w.members[j].members, Decides(w.members[j], {"delay"}, q)
        PROVE  delay = w.members[j].members[q].num
    <3>1. HasDelay(v.members[j]) /\ \A o \in 1..n : o > j => ~HasDelay(v.members[o])
      BY <2>2, <2>4
    <3>2. \A x \in DOMAIN v.members[j].members :
            Decides(v.members[j], {"delay"}, x) => delay = v.members[j].members[x].num
      BY <1>1, <3>1 DEF MeansDelay
    <3>3. CASE j # n
      BY <1>1, <2>4, <3>2, <3>3
    <3>4. CASE j = n
      <4>1. \A x \in 1..m : Decides(em, {"delay"}, x) => delay = em.members[x].num
        BY <1>3, <3>2, <3>4 DEF em
      <4>2. q \in DOMAIN em2.members /\ Decides(em2, {"delay"}, q)
        BY <2>4, <3>4 DEF em2
      <4>3. q \in 1..m /\ Decides(em, {"delay"}, q)
        BY <1>3, <1>4, <1>7, <4>2
      <4>4. delay = em2.members[q].num
        BY <1>3, <4>1, <4>3
      <4> QED BY <3>4, <4>4 DEF em2
    <3> QED BY <3>3, <3>4
  <2> QED BY <1>1, <1>7, <2>3, <2>4 DEF MeansDelay
<1> QED BY <1>6, <1>7

\* The member a of an input asks for an inverted input
Inverts(a) == \/ a.key = "invert" /\ a.type = "TRUE"
              \/ a.key = "active" /\ a.str = "low"

\* The callback at a value inside "emergency" makes of an input that means what was
\* read of it one that means what is read of it now.
LEMMA MemberMeant ==
  ASSUME NEW v, NEW w, NEW n \in Nat \ {0}, NEW m \in Nat, NEW a, LastGrown(v, w, n, m, a),
         NEW input \in InputType, Means(input, v),
         \A j \in DOMAIN v.members[n].members :
           v.members[n].members[j].key = "reason" => v.members[n].members[j].str # Latch,
         NEW e, e.key = a.key, e.type = a.type, e.str = a.str, e.num = a.num,
         e.key \in {"reason", "delay", "latch"}
  PROVE  Means(EmergencyValue(input, e), w)
<1> DEFINE out == EmergencyValue(input, e)
<1>1. /\ out.line = input.line /\ out.invert = input.invert
      /\ out.delay = IF a.key = "delay" THEN a.num ELSE input.delay
      /\ out.reason = IF a.key = "reason" THEN input.reason \cup {a.str}
                      ELSE IF a.key = "latch" /\ a.type = "FALSE" THEN input.reason \ {Latch}
                      ELSE input.reason
  BY DEF EmergencyValue, InputType
<1> HIDE DEF out
<1>2. /\ DOMAIN v.members = 1..n /\ DOMAIN w.members = 1..n /\ n \in 1..n
      /\ \A j \in 1..n : j # n => w.members[j] = v.members[j]
      /\ v.members[n].key = "emergency" /\ w.members[n].key = "emergency"
      /\ Grown(v.members[n], w.members[n], m, a)
  BY DEF LastGrown
<1>3. /\ \A keys : \A j \in 1..n : Decides(w, keys, j) <=> Decides(v, keys, j)
      /\ \A key : Has(w, key) <=> Has(v, key)
      /\ Decides(w, {"emergency"}, n)
  BY DecidesLastGrown
<1>4. \A keys : \A j \in 1..n : Decides(w, keys, j) /\ "emergency" \notin keys => j # n
  BY <1>2 DEF Decides
<1>5. out.invert = MeantPolarity(w)
  <2>1. MeantPolarity(w) <=> MeantPolarity(v)
    <3>1. PICK K : K = {"invert", "active"}
      OBVIOUS
    <3>2. \A j \in 1..n : /\ Decides(w, K, j) <=> Decides(v, K, j)
                          /\ Decides(w, K, j) => w.members[j] = v.members[j]
      BY <1>2, <1>3, <1>4, <3>1
    <3>3. /\ MeantPolarity(w) <=> \E j \in 1..n : Decides(w, K, j) /\ Inverts(w.members[j])
          /\ MeantPolarity(v) <=> \E j \in 1..n : Decides(v, K, j) /\ Inverts(v.members[j])
      BY <1>2, <3>1 DEF MeantPolarity, Inverts
    <3> QED BY <3>2, <3>3
  <2>2. MeantPolarity(v) \in BOOLEAN /\ MeantPolarity(w) \in BOOLEAN
    BY Zenon DEF MeantPolarity
  <2>3. out.invert = MeantPolarity(v)
    BY <1>1 DEF Means
  <2> QED BY <2>1, <2>2, <2>3, Zenon
<1>6. MeansLine(out.line, w)
  <2>1. \A j \in 1..n : /\ Decides(w, {"line"}, j) <=> Decides(v, {"line"}, j)
                        /\ Decides(w, {"line"}, j) => w.members[j] = v.members[j]
    BY <1>2, <1>3, <1>4
  <2>2. MeansLine(input.line, v)
    BY DEF Means
  <2> QED BY <1>1, <1>2, <1>3, <2>1, <2>2 DEF MeansLine
<1>7. MeansReason(out.reason, w)
  <2>1. input.reason = ReasonOf(v.members[n])
    BY <1>2, <1>3 DEF Means, MeansReason
  <2>2. out.reason = ReasonOf(w.members[n])
    <3>1. PICK em, em2 : em = v.members[n] /\ em2 = w.members[n]
      OBVIOUS
    <3>2. /\ Grown(em, em2, m, a)
          /\ \A j \in DOMAIN em.members : em.members[j].key = "reason" => em.members[j].str # Latch
      BY <1>2, <3>1
    <3>3. ReasonOf(em2) = IF a.key = "reason" THEN ReasonOf(em) \cup {a.str}
                          ELSE IF a.key = "latch" /\ a.type = "FALSE" THEN ReasonOf(em) \ {Latch}
                          ELSE ReasonOf(em)
      BY <3>2, ReasonOfGrown
    <3> QED BY <1>1, <2>1, <3>1, <3>3
  <2>3. \A j \in 1..n : Decides(w, {"emergency"}, j) => j = n
    BY <1>2 DEF Decides
  <2>4. Has(w, "emergency")
    BY <1>2 DEF Has
  <2> QED BY <1>2, <2>2, <2>3, <2>4 DEF MeansReason
<1>8. MeansDelay(out.delay, w)
  BY <1>1, DelayLastGrown DEF Means
<1> QED BY <1>5, <1>6, <1>7, <1>8 DEF Means, out

-----------------------------------------------------------------------------
(* Where the parser is, and what was read before *)

\* The types of the fields and of the members of a JSON value.
LEMMA ValueFacts ==
  ASSUME NEW v \in Values
  PROVE  /\ v.members \in Seq(Values) /\ Len(v.members) \in Nat
         /\ DOMAIN v.members = 1..Len(v.members)
         /\ \A j \in 1..Len(v.members) : v.members[j] \in Values
         /\ v.type \in Types /\ v.key \in STRING /\ v.str \in STRING /\ v.num \in Int
         /\ v.type \notin Container => Len(v.members) = 0
<1>1. v \in Node(Values) /\ (v.type \notin Container => v.members = <<>>)
  BY ValuesAssumption
<1>2. /\ v.members \in Seq(Values)
      /\ v.type \in Types /\ v.key \in STRING /\ v.str \in STRING /\ v.num \in Int
  BY <1>1 DEF Node
<1>3. Len(<<>>) = 0
  OBVIOUS
<1> QED BY <1>1, <1>2, <1>3

\* The list, the input and the value that begun last at the cursor q
ListAt(d, q) == d.members[q.list]
InputAt(d, q) == ListAt(d, q).members[q.input]
ValueAt(d, q) == InputAt(d, q).members[q.value]

\* Event e is the begin or the end of the value v, or the value itself
Sees(e, pos, v, end) ==
  /\ e.pos = pos /\ e.end = end
  /\ e.key = v.key /\ e.type = v.type /\ e.str = v.str /\ e.num = v.num

\* The event e is the next at the cursor q
EventIs(d, q, e) ==
  /\ q.place = "root" => Sees(e, 0, d, FALSE)
  /\ q.place = "key" /\ q.list < Len(d.members) =>
       e.pos = 1 /\ e.end = FALSE /\ e.type = "KEY" /\ e.key = d.members[q.list + 1].key
  /\ q.place = "key" /\ ~(q.list < Len(d.members)) => Sees(e, 0, d, TRUE)
  /\ q.place = "list" => Sees(e, 2, ListAt(d, q), FALSE)
  /\ q.place = "input" /\ q.input < Len(ListAt(d, q).members) =>
       Sees(e, 3, ListAt(d, q).members[q.input + 1], FALSE)
  /\ q.place = "input" /\ ~(q.input < Len(ListAt(d, q).members)) =>
       Sees(e, 2, ListAt(d, q), TRUE)
  /\ q.place = "value" /\ q.value < Len(InputAt(d, q).members) =>
       Sees(e, 5, InputAt(d, q).members[q.value + 1], FALSE)
  /\ q.place = "value" /\ ~(q.value < Len(InputAt(d, q).members)) =>
       Sees(e, 3, InputAt(d, q), TRUE)
  /\ q.place = "emergency" /\ q.member < Len(ValueAt(d, q).members) =>
       /\ Sees(e, 7, ValueAt(d, q).members[q.member + 1], FALSE)
       /\ e.parent = ValueAt(d, q).key
  /\ q.place = "emergency" /\ ~(q.member < Len(ValueAt(d, q).members)) =>
       Sees(e, 5, ValueAt(d, q), TRUE)

\* The callbacks that the parser makes, place by place.
LEMMA EventFacts ==
  ASSUME NEW d, NEW q, NEW e, e = EventAt(d, q)
  PROVE  EventIs(d, q, e)
<1> USE DEF EventIs, EventAt, Event, KeyEvent, EndEvent, Sees, ListAt, InputAt, ValueAt
<1>1. CASE q.place = "root"
  BY <1>1
<1>2. CASE q.place = "key"
  BY <1>2
<1>3. CASE q.place = "list"
  BY <1>3
<1>4. CASE q.place = "input"
  BY <1>4
<1>5. CASE q.place = "value"
  BY <1>5
<1>6. CASE q.place = "emergency"
  BY <1>6
<1> QED BY <1>1, <1>2, <1>3, <1>4, <1>5, <1>6

\* A cursor with another place or another counter is a cursor.
LEMMA CursorWith ==
  ASSUME NEW q \in Cursor, NEW p \in Places, NEW n \in Nat
  PROVE  /\ [q EXCEPT !.place = p] \in Cursor /\ [q EXCEPT !.list = n] \in Cursor
         /\ [q EXCEPT !.input = n] \in Cursor /\ [q EXCEPT !.value = n] \in Cursor
         /\ [q EXCEPT !.member = n] \in Cursor
BY DEF Cursor

\* The cursor r has this place and these counters
Moves(r, place, list, input) ==
  /\ r \in Cursor /\ r.place = place /\ r.list = list /\ r.input = input
Within(r, value, member) == r.value = value /\ r.member = member

\* The event e leads from the cursor q to the cursor r
AfterIs(q, e, r) ==
  /\ e.pos = 0 => Moves(r, IF e.end THEN "done" ELSE "key", q.list, q.input)
  /\ e.pos = 1 => Moves(r, "list", q.list + 1, 0)
  /\ e.pos = 2 => Moves(r, IF e.end \/ e.type \notin Container THEN "key" ELSE "input",
                        q.list, q.input)
  /\ e.pos = 3 /\ e.end => Moves(r, "input", q.list, q.input)
  /\ e.pos = 3 /\ ~e.end =>
       /\ Moves(r, IF e.type \in Container THEN "value" ELSE q.place, q.list, q.input + 1)
       /\ r.value = 0
  /\ e.pos = 5 /\ e.end =>
       Moves(r, "value", q.list, q.input) /\ Within(r, q.value, q.member)
  /\ e.pos = 5 /\ ~e.end =>
       /\ Moves(r, IF e.type \in Container THEN "emergency" ELSE q.place, q.list, q.input)
       /\ Within(r, q.value + 1, 0)
  /\ e.pos = 7 =>
       Moves(r, q.place, q.list, q.input) /\ Within(r, q.value, q.member + 1)

\* Where each callback leaves the parser.
LEMMA AfterFacts ==
  ASSUME NEW q \in Cursor, NEW e, e.end \in BOOLEAN, NEW r, r = After(q, e)
  PROVE  AfterIs(q, e, r)
<1> USE DEF AfterIs
<1>0. /\ q.place \in Places /\ q.list \in Nat /\ q.input \in Nat /\ q.value \in Nat /\ q.member \in Nat
      /\ q = [place |-> q.place, list |-> q.list, input |-> q.input, value |-> q.value, member |-> q.member]
  BY DEF Cursor
<1>1. CASE e.pos = 0
  BY <1>1 DEF After, Moves, Cursor, Places
<1>2. CASE e.pos = 1
  <2>1. r = [q EXCEPT !.place = "list", !.list = @ + 1, !.input = 0]
    BY <1>2 DEF After
  <2>2. r.place = "list" /\ r.list = q.list + 1 /\ r.input = 0
    BY <1>0, <2>1
  <2>3. r \in Cursor
    <3>1. PICK q1, q2 : /\ q1 = [q EXCEPT !.place = "list"]
                        /\ q2 = [q1 EXCEPT !.list = q.list + 1]
                        /\ r = [q2 EXCEPT !.input = 0]
      BY <1>0, <2>1
    <3>2. "list" \in Places /\ q.list + 1 \in Nat /\ 0 \in Nat
      BY <1>0 DEF Places
    <3>3. q1 \in Cursor
      BY <3>1, <3>2, CursorWith
    <3>4. q2 \in Cursor
      BY <3>1, <3>2, <3>3, CursorWith
    <3>5. \A n \in Nat : /\ [q2 EXCEPT !.input = n] \in Cursor /\ [q2 EXCEPT !.value = n] \in Cursor
                         /\ [q2 EXCEPT !.member = n] \in Cursor
      BY <3>2, <3>4, CursorWith
    <3> QED BY <3>1, <3>5
  <2> QED BY <1>2, <2>2, <2>3 DEF Moves
<1>3. CASE e.pos = 2
  BY <1>3 DEF After, Moves, Cursor, Places
<1>4. CASE e.pos = 3 /\ e.end
  BY <1>4 DEF After, Moves, Cursor, Places
<1>5. CASE e.pos = 3 /\ ~e.end
  <2>1. r = [q EXCEPT !.place = IF e.type \in Container THEN "value" ELSE @,
                      !.input = @ + 1, !.value = 0]
    BY <1>5 DEF After
  <2>2. /\ r.place = (IF e.type \in Container THEN "value" ELSE q.place)
        /\ r.list = q.list /\ r.input = q.input + 1 /\ r.value = 0
    BY <1>0, <2>1
  <2>3. r \in Cursor
    <3>1. PICK q1, q2 : /\ q1 = [q EXCEPT !.place = (IF e.type \in Container THEN "value" ELSE q.place)]
                        /\ q2 = [q1 EXCEPT !.input = q.input + 1]
                        /\ r = [q2 EXCEPT !.value = 0]
      BY <1>0, <2>1
    <3>2. (IF e.type \in Container THEN "value" ELSE q.place) \in Places /\ q.input + 1 \in Nat /\ 0 \in Nat
      BY <1>0 DEF Places
    <3>3. q1 \in Cursor
      BY <3>1, <3>2, CursorWith
    <3>4. q2 \in Cursor
      BY <3>1, <3>2, <3>3, CursorWith
    <3>5. \A n \in Nat : /\ [q2 EXCEPT !.input = n] \in Cursor /\ [q2 EXCEPT !.value = n] \in Cursor
                         /\ [q2 EXCEPT !.member = n] \in Cursor
      BY <3>2, <3>4, CursorWith
    <3> QED BY <3>1, <3>5
  <2> QED BY <1>5, <2>2, <2>3 DEF Moves
<1>6. CASE e.pos = 5 /\ e.end
  BY <1>6 DEF After, Moves, Within, Cursor, Places
<1>7. CASE e.pos = 5 /\ ~e.end
  <2>1. r = [q EXCEPT !.place = IF e.type \in Container THEN "emergency" ELSE @,
                      !.value = @ + 1, !.member = 0]
    BY <1>7 DEF After
  <2>2. /\ r.place = (IF e.type \in Container THEN "emergency" ELSE q.place)
        /\ r.list = q.list /\ r.input = q.input /\ r.value = q.value + 1 /\ r.member = 0
    BY <1>0, <2>1
  <2>3. r \in Cursor
    <3>1. PICK q1, q2 : /\ q1 = [q EXCEPT !.place = (IF e.type \in Container THEN "emergency" ELSE q.place)]
                        /\ q2 = [q1 EXCEPT !.value = q.value + 1]
                        /\ r = [q2 EXCEPT !.member = 0]
      BY <1>0, <2>1
    <3>2. /\ (IF e.type \in Container THEN "emergency" ELSE q.place) \in Places
          /\ q.value + 1 \in Nat /\ 0 \in Nat
      BY <1>0 DEF Places
    <3>3. q1 \in Cursor
      BY <3>1, <3>2, CursorWith
    <3>4. q2 \in Cursor
      BY <3>1, <3>2, <3>3, CursorWith
    <3>5. \A n \in Nat : /\ [q2 EXCEPT !.input = n] \in Cursor /\ [q2 EXCEPT !.value = n] \in Cursor
                         /\ [q2 EXCEPT !.member = n] \in Cursor
      BY <3>2, <3>4, CursorWith
    <3> QED BY <3>1, <3>5
  <2> QED BY <1>7, <2>2, <2>3 DEF Moves, Within
<1>8. CASE e.pos = 7
  BY <1>8 DEF After, Moves, Within, Cursor, Places
<1>9. CASE e.pos \notin {0, 1, 2, 3, 5, 7}
  BY <1>9
<1> QED BY <1>1, <1>2, <1>3, <1>4, <1>5, <1>6, <1>7, <1>8, <1>9

\* What was read before a key, inside a list, an array, an input or "emergency"
AtKey(d, q) ==
  /\ q.list <= Len(d.members)
  /\ \A k \in 1..q.list : ValidList(d.members[k])
  /\ q.list = 0 => q.input = 0
  /\ q.list > 0 => q.input = Len(ListAt(d, q).members)

InList(d, q) ==
  /\ q.list \in 1..Len(d.members) /\ ListAt(d, q).key \in Drivers
  /\ \A k \in 1..(q.list - 1) : ValidList(d.members[k])

InArray(d, q) ==
  InList(d, q) /\ ListAt(d, q).type = "ARRAY" /\ q.input <= Len(ListAt(d, q).members)

InInput(d, q) ==
  /\ InArray(d, q) /\ q.input >= 1
  /\ \A j \in 1..(q.input - 1) : ValidInput(ListAt(d, q).key, ListAt(d, q).members[j])
  /\ InputAt(d, q).type = "OBJECT" /\ q.value <= Len(InputAt(d, q).members)

InEmergency(d, q) ==
  /\ InInput(d, q) /\ q.value >= 1
  /\ \A j \in 1..(q.value - 1) : ValidValue(ListAt(d, q).key, InputAt(d, q).members[j])
  /\ ValueAt(d, q).key = "emergency" /\ ValueAt(d, q).type = "OBJECT"
  /\ q.member <= Len(ValueAt(d, q).members)
  /\ \A j \in 1..q.member : ValidMember(ValueAt(d, q).members[j])

\* What was read before the cursor q was valid
Where(d, q) ==
  /\ q.place = "root" => q.list = 0 /\ q.input = 0
  /\ q.place # "root" => d.type = "OBJECT"
  /\ q.place = "key" => AtKey(d, q)
  /\ q.place = "list" => InList(d, q) /\ q.input = 0
  /\ q.place = "input" =>
       /\ InArray(d, q)
       /\ \A j \in 1..q.input : ValidInput(ListAt(d, q).key, ListAt(d, q).members[j])
  /\ q.place = "value" =>
       /\ InInput(d, q)
       /\ \A j \in 1..q.value : ValidValue(ListAt(d, q).key, InputAt(d, q).members[j])
  /\ q.place = "emergency" => InEmergency(d, q)
  /\ q.place = "done" => AtKey(d, q) /\ q.list = Len(d.members)

\* Where the parser is inside an input, lists and inputs are values
InsideFacts(d, q) ==
  /\ ListAt(d, q) \in Values /\ InputAt(d, q) \in Values
  /\ q.list \in 1..Len(d.members) /\ q.input \in 1..Len(ListAt(d, q).members)
  /\ Len(InputAt(d, q).members) \in Nat
  /\ DOMAIN InputAt(d, q).members = 1..Len(InputAt(d, q).members)
  /\ \A j \in 1..Len(InputAt(d, q).members) : InputAt(d, q).members[j] \in Values

\* Inside an input, the list and the input around are values of the document.
LEMMA Inside ==
  ASSUME NEW d \in Values, NEW q \in Cursor, InInput(d, q)
  PROVE  InsideFacts(d, q)
<1>0. q.list \in Nat /\ q.input \in Nat
  BY DEF Cursor
<1>00. Len(d.members) \in Nat /\ \A j \in 1..Len(d.members) : d.members[j] \in Values
  BY ValueFacts
<1>1. ListAt(d, q) \in Values /\ q.list \in 1..Len(d.members)
  BY <1>00 DEF InInput, InArray, InList, ListAt
<1>2. q.input \in 1..Len(ListAt(d, q).members)
  BY <1>0, <1>1, ValueFacts DEF InInput, InArray
<1>3. InputAt(d, q) \in Values
  BY <1>1, <1>2, ValueFacts DEF InputAt
<1> QED BY <1>1, <1>2, <1>3, ValueFacts DEF InsideFacts

\* What it says of the event e that the callback returned true
Answers(c, e) ==
  /\ e.pos = 0 => e.type = "OBJECT"
  /\ e.pos = 1 => e.key \in Drivers
  /\ e.pos = 2 => e.type = "ARRAY"
  /\ e.pos = 3 => e.type = "OBJECT" /\ (e.end \/ HasRoom(c))
  /\ e.pos = 5 => \/ e.key = "invert" /\ e.type \in {"TRUE", "FALSE"}
                  \/ e.key = "emergency" /\ e.type = "OBJECT"
                  \/ /\ c.driver = "gpio" /\ e.type = "STRING"
                     /\ \/ e.key = "line" /\ e.str \in Lines
                        \/ e.key = "active" /\ e.str \in {"high", "low"}
  /\ e.pos = 7 => \/ e.key = "reason" /\ e.type = "STRING" /\ e.str \in EmergencyReasons
                  \/ e.key = "delay" /\ e.type = "NUMBER" /\ e.num \in 0..MaxDelay
                  \/ e.key = "latch" /\ e.type \in {"TRUE", "FALSE"}

\* What is known of a value for which InputConfigsJsonCallback returned true.
LEMMA ReturnsFacts ==
  ASSUME NEW c, NEW e, Returns(c, e)
  PROVE  Answers(c, e)
<1> USE DEF Answers, Returns, OnInputConfigValue
<1>1. CASE e.pos = 0
  BY <1>1
<1>2. CASE e.pos = 1
  BY <1>2
<1>3. CASE e.pos = 2
  BY <1>3
<1>4. CASE e.pos = 3
  BY <1>4
<1>5. CASE e.pos = 5
  BY <1>5
<1>6. CASE e.pos = 7
  BY <1>6
<1> QED BY <1>1, <1>2, <1>3, <1>4, <1>5, <1>6

\* A callback that returns true leaves the parser behind a part of the document that
\* is valid: what InputConfigsJsonCallback checks at the places of the stack is enough.
LEMMA WhereFollows ==
  ASSUME NEW d \in Values, NEW q \in Cursor, Where(d, q), q.place # "done",
         NEW c, q.place \in {"list", "input", "value", "emergency"} => c.driver = ListAt(d, q).key,
         NEW e, e = EventAt(d, q), Returns(c, e), NEW r, r = After(q, e)
  PROVE  Where(d, r) /\ r \in Cursor
<1>0. /\ q.list \in Nat /\ q.input \in Nat /\ q.value \in Nat /\ q.member \in Nat
      /\ q.place \in {"root", "key", "list", "input", "value", "emergency"}
  BY DEF Cursor, Places
<1>00. Len(d.members) \in Nat /\ \A j \in 1..Len(d.members) : d.members[j] \in Values
  BY ValueFacts
<1>e. EventIs(d, q, e)
  BY EventFacts
<1>a. AfterIs(q, e, r)
  <2>1. e.end \in BOOLEAN
    BY <1>0, <1>e DEF EventIs, Sees
  <2> QED BY <2>1, AfterFacts
<1>r. Answers(c, e)
  BY ReturnsFacts
<1>1. CASE q.place = "root"
  <2>1. e.pos = 0 /\ e.end = FALSE /\ e.type = d.type
    BY <1>1, <1>e DEF EventIs, Sees
  <2>2. d.type = "OBJECT"
    BY <2>1, <1>r DEF Answers
  <2>3. Moves(r, "key", q.list, q.input)
    BY <2>1, <1>a DEF AfterIs
  <2>4. AtKey(d, r)
    BY <1>0, <1>00, <1>1, <2>3 DEF AtKey, Moves, Where
  <2> QED BY <2>2, <2>3, <2>4 DEF Where, Moves
<1>2. CASE q.place = "key" /\ q.list < Len(d.members)
  <2>1. e.pos = 1 /\ e.end = FALSE /\ e.key = d.members[q.list + 1].key
    BY <1>2, <1>e DEF EventIs
  <2>2. e.key \in Drivers
    BY <2>1, <1>r DEF Answers
  <2>3. Moves(r, "list", q.list + 1, 0)
    BY <2>1, <1>a DEF AfterIs
  <2>4. q.list + 1 \in 1..Len(d.members) /\ (q.list + 1) - 1 = q.list
    BY <1>0, <1>00, <1>2
  <2>5. InList(d, r)
    BY <1>2, <2>1, <2>2, <2>3, <2>4 DEF InList, AtKey, Moves, Where, ListAt
  <2> QED BY <1>2, <2>3, <2>5 DEF Where, Moves
<1>3. CASE q.place = "key" /\ ~(q.list < Len(d.members))
  <2>1. e.pos = 0 /\ e.end = TRUE
    BY <1>3, <1>e DEF EventIs, Sees
  <2>2. Moves(r, "done", q.list, q.input)
    BY <2>1, <1>a DEF AfterIs
  <2>3. AtKey(d, r) /\ r.list = Len(d.members)
    BY <1>0, <1>00, <1>3, <2>2 DEF AtKey, Moves, Where, ListAt
  <2> QED BY <1>3, <2>2, <2>3 DEF Where, Moves
<1>4. CASE q.place = "list"
  <2>1. e.pos = 2 /\ e.end = FALSE /\ e.type = ListAt(d, q).type
    BY <1>4, <1>e DEF EventIs, Sees
  <2>2. e.type = "ARRAY"
    BY <2>1, <1>r DEF Answers
  <2>3. Moves(r, "input", q.list, q.input)
    BY <2>1, <2>2, <1>a DEF AfterIs, Container
  <2>4. InList(d, q) /\ q.input = 0
    BY <1>4 DEF Where
  <2>5. Len(ListAt(d, q).members) \in Nat
    BY <1>00, <2>4, ValueFacts DEF InList, ListAt
  <2>6. InArray(d, r) /\ r.input = 0
    <3>1. ListAt(d, r) = ListAt(d, q) /\ r.list = q.list /\ r.input = 0
      BY <2>3, <2>4 DEF ListAt, Moves
    <3>2. InList(d, r)
      BY <2>4, <3>1 DEF InList
    <3>3. ListAt(d, r).type = "ARRAY"
      BY <2>1, <2>2, <3>1
    <3>4. r.input <= Len(ListAt(d, r).members)
      BY <2>5, <3>1
    <3> QED BY <3>1, <3>2, <3>3, <3>4 DEF InArray
  <2> QED BY <1>4, <2>3, <2>6 DEF Where, Moves
<1>5. CASE q.place = "input" /\ q.input < Len(ListAt(d, q).members)
  <2> DEFINE v == ListAt(d, q).members[q.input + 1]
  <2>1. e.pos = 3 /\ e.end = FALSE /\ e.type = v.type
    BY <1>5, <1>e DEF EventIs, Sees
  <2>2. e.type = "OBJECT"
    BY <2>1, <1>r DEF Answers
  <2>3. Moves(r, "value", q.list, q.input + 1) /\ r.value = 0
    BY <2>1, <2>2, <1>a DEF AfterIs, Container
  <2>4. InArray(d, q) /\ \A j \in 1..q.input : ValidInput(ListAt(d, q).key, ListAt(d, q).members[j])
    BY <1>5 DEF Where
  <2>5. ListAt(d, r) = ListAt(d, q) /\ InputAt(d, r) = v
    BY <2>3 DEF Moves, ListAt, InputAt
  <2>6. ListAt(d, q) \in Values
    BY <1>00, <2>4 DEF InArray, InList, ListAt
  <2>7. q.input + 1 \in 1..Len(ListAt(d, q).members) /\ (q.input + 1) - 1 = q.input /\ q.input + 1 >= 1
    BY <1>0, <1>5, <2>6, ValueFacts
  <2>8. Len(v.members) \in Nat
    BY <2>6, <2>7, ValueFacts
  <2>9. InArray(d, r)
    <3>1. q.input + 1 <= Len(ListAt(d, q).members)
      BY <2>7
    <3> QED BY <2>3, <2>4, <2>5, <3>1 DEF InArray, InList, Moves
  <2>10. InInput(d, r)
    <3>1. r.input - 1 = q.input /\ r.input >= 1 /\ r.value = 0
      BY <2>3, <2>7 DEF Moves
    <3> HIDE DEF v
    <3>2. InputAt(d, r).type = "OBJECT"
      BY <2>1, <2>2, <2>5
    <3>3. r.value <= Len(InputAt(d, r).members)
      BY <2>5, <2>8, <3>1
    <3> QED BY <2>4, <2>5, <2>9, <3>1, <3>2, <3>3 DEF InInput
  <2> QED BY <1>5, <2>3, <2>10 DEF Where, Moves
<1>6. CASE q.place = "input" /\ ~(q.input < Len(ListAt(d, q).members))
  <2>1. e.pos = 2 /\ e.end = TRUE
    BY <1>6, <1>e DEF EventIs, Sees
  <2>2. Moves(r, "key", q.list, q.input)
    BY <2>1, <1>a DEF AfterIs
  <2>3. InArray(d, q) /\ \A j \in 1..q.input : ValidInput(ListAt(d, q).key, ListAt(d, q).members[j])
    BY <1>6 DEF Where
  <2>4. ListAt(d, q) \in Values /\ ListAt(d, r) = ListAt(d, q)
    BY <1>00, <2>2, <2>3 DEF InArray, InList, ListAt, Moves
  <2>5. q.input = Len(ListAt(d, q).members) /\ DOMAIN ListAt(d, q).members = 1..q.input
    BY <1>0, <1>6, <2>3, <2>4, ValueFacts DEF InArray
  <2>6. ValidList(d.members[q.list])
    BY <2>3, <2>5 DEF ValidList, InArray, InList, ListAt
  <2>7. q.list \in 1..Len(d.members) /\ \A k \in 1..(q.list - 1) : ValidList(d.members[k])
    BY <2>3 DEF InArray, InList
  <2>8. \A k \in 1..q.list : ValidList(d.members[k])
    <3>1. \A k \in 1..q.list : k \in 1..(q.list - 1) \/ k = q.list
      BY <1>0
    <3> QED BY <2>6, <2>7, <3>1
  <2>9. AtKey(d, r)
    BY <1>0, <1>00, <2>2, <2>4, <2>5, <2>7, <2>8 DEF AtKey, Moves
  <2> QED BY <1>6, <2>2, <2>9 DEF Where, Moves
<1>7. ASSUME InInput(d, q)
      PROVE  /\ ListAt(d, q) \in Values /\ InputAt(d, q) \in Values
             /\ q.list \in 1..Len(d.members) /\ q.input \in 1..Len(ListAt(d, q).members)
             /\ Len(InputAt(d, q).members) \in Nat
             /\ DOMAIN InputAt(d, q).members = 1..Len(InputAt(d, q).members)
             /\ \A j \in 1..Len(InputAt(d, q).members) : InputAt(d, q).members[j] \in Values
  BY <1>7, Inside DEF InsideFacts
<1>8. ASSUME InInput(d, q), r.list = q.list, r.input = q.input
      PROVE  /\ ListAt(d, r) = ListAt(d, q) /\ InputAt(d, r) = InputAt(d, q)
             /\ r.value <= Len(InputAt(d, r).members) => InInput(d, r)
  <2>1. ListAt(d, r) = ListAt(d, q) /\ InputAt(d, r) = InputAt(d, q)
    BY <1>8 DEF ListAt, InputAt
  <2> QED BY <1>8, <2>1 DEF InInput, InArray, InList
<1>9. CASE q.place = "value" /\ q.value < Len(InputAt(d, q).members)
  <2> DEFINE v == InputAt(d, q).members[q.value + 1]
  <2>1. Sees(e, 5, v, FALSE)
    BY <1>9, <1>e DEF EventIs
  <2>2. InInput(d, q) /\ \A j \in 1..q.value : ValidValue(ListAt(d, q).key, InputAt(d, q).members[j])
    BY <1>9 DEF Where
  <2>3. q.value + 1 \in 1..Len(InputAt(d, q).members) /\ v \in Values
    BY <1>0, <1>7, <1>9, <2>2
  <2>4. /\ r \in Cursor /\ r.list = q.list /\ r.input = q.input /\ r.value = q.value + 1 /\ r.member = 0
        /\ r.place = IF v.type \in Container THEN "emergency" ELSE "value"
    BY <1>9, <2>1, <1>a DEF AfterIs, Moves, Within, Sees
  <2>5. /\ InInput(d, r) /\ ListAt(d, r) = ListAt(d, q) /\ InputAt(d, r) = InputAt(d, q) /\ ValueAt(d, r) = v
        /\ r.value \in 1..Len(InputAt(d, q).members) /\ r.value - 1 = q.value
    <3>1. r.value \in 1..Len(InputAt(d, q).members) /\ r.value - 1 = q.value
      BY <1>0, <2>3, <2>4
    <3>2. ListAt(d, r) = ListAt(d, q) /\ InputAt(d, r) = InputAt(d, q)
      BY <1>8, <2>2, <2>4
    <3>3. r.value <= Len(InputAt(d, q).members)
      BY <1>7, <2>2, <3>1
    <3>4. InInput(d, r)
      BY <1>8, <2>2, <2>4, <3>2, <3>3
    <3> QED BY <2>4, <3>1, <3>2, <3>4 DEF ValueAt
  <2> HIDE DEF v
  <2>6. CASE v.type \in Container
    <3>1. v.key = "emergency" /\ v.type = "OBJECT"
      BY <1>r, <2>1, <2>6 DEF Answers, Sees, Container
    <3>2. InEmergency(d, r)
      <4>1. Len(v.members) \in Nat
        BY <2>3, ValueFacts
      <4> QED BY <2>2, <2>4, <2>5, <3>1, <4>1 DEF InEmergency
    <3>3. r.place = "emergency" /\ d.type = "OBJECT"
      BY <1>9, <2>4, <2>6 DEF Where
    <3> QED BY <2>4, <3>2, <3>3 DEF Where
  <2>7. CASE v.type \notin Container
    <3>1. ValidValue(ListAt(d, q).key, v)
      BY <1>9, <1>r, <2>1, <2>7 DEF Answers, Sees, Container, ValidValue
    <3>2. \A j \in 1..r.value : ValidValue(ListAt(d, r).key, InputAt(d, r).members[j])
      <4>1. \A j \in 1..r.value : j \in 1..q.value \/ j = q.value + 1
        BY <1>0, <2>4
      <4> QED BY <2>2, <2>5, <3>1, <4>1 DEF v
    <3>3. r.place = "value" /\ d.type = "OBJECT"
      BY <1>9, <2>4, <2>7 DEF Where
    <3> QED BY <2>4, <2>5, <3>2, <3>3 DEF Where
  <2> QED BY <2>6, <2>7
<1>10. CASE q.place = "value" /\ ~(q.value < Len(InputAt(d, q).members))
  <2>1. e.pos = 3 /\ e.end = TRUE
    BY <1>10, <1>e DEF EventIs, Sees
  <2>2. Moves(r, "input", q.list, q.input)
    BY <2>1, <1>a DEF AfterIs
  <2>3. InInput(d, q) /\ \A j \in 1..q.value : ValidValue(ListAt(d, q).key, InputAt(d, q).members[j])
    BY <1>10 DEF Where
  <2>4. DOMAIN InputAt(d, q).members = 1..q.value
    BY <1>0, <1>7, <1>10, <2>3 DEF InInput
  <2>5. ValidInput(ListAt(d, q).key, InputAt(d, q))
    BY <2>3, <2>4 DEF ValidInput, InInput
  <2>6. ListAt(d, r) = ListAt(d, q) /\ InArray(d, r)
    BY <2>2, <2>3 DEF ListAt, Moves, InInput, InArray, InList
  <2>7. \A j \in 1..r.input : ValidInput(ListAt(d, r).key, ListAt(d, r).members[j])
    <3>1. \A j \in 1..q.input : j \in 1..(q.input - 1) \/ j = q.input
      BY <1>0
    <3>2. \A j \in 1..(q.input - 1) : ValidInput(ListAt(d, q).key, ListAt(d, q).members[j])
      BY <2>3 DEF InInput
    <3>3. r.input = q.input /\ InputAt(d, q) = ListAt(d, q).members[q.input]
      BY <2>2 DEF Moves, InputAt
    <3> QED BY <2>5, <2>6, <3>1, <3>2, <3>3
  <2> QED BY <1>10, <2>2, <2>6, <2>7 DEF Where, Moves
<1>11. CASE q.place = "emergency" /\ q.member < Len(ValueAt(d, q).members)
  <2> DEFINE v == ValueAt(d, q).members[q.member + 1]
  <2>1. Sees(e, 7, v, FALSE)
    BY <1>11, <1>e DEF EventIs
  <2>2. InEmergency(d, q) /\ InInput(d, q)
    BY <1>11 DEF Where, InEmergency
  <2>3. /\ r \in Cursor /\ r.list = q.list /\ r.input = q.input /\ r.value = q.value
        /\ r.member = q.member + 1 /\ r.place = "emergency"
    BY <1>11, <2>1, <1>a DEF AfterIs, Moves, Within, Sees
  <2>4. /\ ListAt(d, r) = ListAt(d, q) /\ InputAt(d, r) = InputAt(d, q) /\ ValueAt(d, r) = ValueAt(d, q)
        /\ InInput(d, r)
    <3>1. ListAt(d, r) = ListAt(d, q) /\ InputAt(d, r) = InputAt(d, q)
      BY <1>8, <2>2, <2>3
    <3>2. r.value <= Len(InputAt(d, r).members)
      BY <2>2, <2>3, <3>1 DEF InInput
    <3> QED BY <1>8, <2>2, <2>3, <3>1, <3>2 DEF ValueAt
  <2> HIDE DEF v
  <2>5. ValidMember(v)
    <3>1. /\ v.key = e.key /\ v.type = e.type /\ v.str = e.str /\ v.num = e.num /\ e.pos = 7
      BY <2>1 DEF Sees
    <3>2. \/ e.key = "reason" /\ e.type = "STRING" /\ e.str \in EmergencyReasons
          \/ e.key = "delay" /\ e.type = "NUMBER" /\ e.num \in 0..MaxDelay
          \/ e.key = "latch" /\ e.type \in {"TRUE", "FALSE"}
      BY <1>r, <3>1 DEF Answers
    <3> QED BY <3>1, <3>2 DEF ValidMember
  <2>6. \A j \in 1..r.member : ValidMember(ValueAt(d, r).members[j])
    <3>1. \A j \in 1..r.member : j \in 1..q.member \/ j = q.member + 1
      BY <1>0, <2>3
    <3> QED BY <2>2, <2>4, <2>5, <3>1 DEF v, InEmergency
  <2>7. ValueAt(d, q) \in Values
    BY <1>0, <1>7, <2>2 DEF InEmergency, InInput, ValueAt
  <2>8. r.member <= Len(ValueAt(d, r).members)
    BY <1>0, <1>11, <2>3, <2>4, <2>7, ValueFacts
  <2>9. InEmergency(d, r)
    BY <2>2, <2>3, <2>4, <2>6, <2>8 DEF InEmergency
  <2> QED BY <1>11, <2>3, <2>9 DEF Where
<1>12. CASE q.place = "emergency" /\ ~(q.member < Len(ValueAt(d, q).members))
  <2>1. Sees(e, 5, ValueAt(d, q), TRUE)
    BY <1>12, <1>e DEF EventIs
  <2>2. InEmergency(d, q) /\ InInput(d, q)
    BY <1>12 DEF Where, InEmergency
  <2>3. r \in Cursor /\ r.list = q.list /\ r.input = q.input /\ r.value = q.value /\ r.place = "value"
    BY <2>1, <1>a DEF AfterIs, Moves, Within, Sees
  <2>4. ListAt(d, r) = ListAt(d, q) /\ InputAt(d, r) = InputAt(d, q) /\ InInput(d, r)
    <3>1. ListAt(d, r) = ListAt(d, q) /\ InputAt(d, r) = InputAt(d, q)
      BY <1>8, <2>2, <2>3
    <3>2. r.value <= Len(InputAt(d, r).members)
      BY <2>2, <2>3, <3>1 DEF InInput
    <3> QED BY <1>8, <2>2, <2>3, <3>1, <3>2
  <2>5. ValueAt(d, q) \in Values
    BY <1>0, <1>7, <2>2 DEF InEmergency, InInput, ValueAt
  <2>6. DOMAIN ValueAt(d, q).members = 1..q.member
    <3>1. Len(ValueAt(d, q).members) \in Nat /\ DOMAIN ValueAt(d, q).members = 1..Len(ValueAt(d, q).members)
      BY <2>5, ValueFacts
    <3> QED BY <1>0, <1>12, <2>2, <3>1 DEF InEmergency
  <2>7. ValidValue(ListAt(d, q).key, ValueAt(d, q))
    BY <2>2, <2>6 DEF InEmergency, ValidValue, ValidEmergency
  <2>8. \A j \in 1..r.value : ValidValue(ListAt(d, r).key, InputAt(d, r).members[j])
    <3>1. \A j \in 1..q.value : j \in 1..(q.value - 1) \/ j = q.value
      BY <1>0
    <3>2. \A j \in 1..(q.value - 1) : ValidValue(ListAt(d, q).key, InputAt(d, q).members[j])
      BY <2>2 DEF InEmergency
    <3> QED BY <2>3, <2>4, <2>7, <3>1, <3>2 DEF ValueAt
  <2> QED BY <1>12, <2>3, <2>4, <2>8 DEF Where
<1> QED BY <1>0, <1>1, <1>2, <1>3, <1>4, <1>5, <1>6, <1>9, <1>10, <1>11, <1>12

-----------------------------------------------------------------------------
(* The positions of the inputs *)

\* A set that the numbers up to n cover is finite.
LEMMA IntervalCovers ==
  ASSUME NEW n \in Nat, NEW T, NEW f, f \in [1..n -> T], \A t \in T : \E k \in 1..n : f[k] = t
  PROVE  IsFiniteSet(T)
<1>1. IsFiniteSet(1..n)
  <2>1. 1 \in Int /\ n \in Int
    OBVIOUS
  <2> QED BY <2>1, FS_Interval
<1>2. f \in Surjection(1..n, T)
  BY DEF Surjection
<1> QED BY <1>1, <1>2, FS_Surjection

\* The positions of a document are pairs of its indices, finitely many.
LEMMA PositionFacts ==
  ASSUME NEW d \in Values
  PROVE  /\ \A k, i : <<k, i>> \in Positions(d) <=>
                        k \in 1..Len(d.members) /\ i \in 1..Len(d.members[k].members)
         /\ \A p \in Positions(d) : p = <<p[1], p[2]>> /\ p \in Nat \X Nat
         /\ IsFiniteSet(Positions(d))
<1>1. /\ Len(d.members) \in Nat /\ DOMAIN d.members = 1..Len(d.members)
      /\ \A k \in 1..Len(d.members) : d.members[k] \in Values
  BY ValueFacts
<1>2. \A k \in 1..Len(d.members) : /\ Len(d.members[k].members) \in Nat
                                   /\ DOMAIN d.members[k].members = 1..Len(d.members[k].members)
  BY <1>1, ValueFacts
<1>3. \A k, i : <<k, i>> \in Positions(d) <=>
                  k \in 1..Len(d.members) /\ i \in 1..Len(d.members[k].members)
  BY <1>1, <1>2 DEF Positions
<1>4. \A p \in Positions(d) : p = <<p[1], p[2]>> /\ p \in Nat \X Nat
  <2> TAKE p \in Positions(d)
  <2>1. PICK k \in DOMAIN d.members : \E i \in DOMAIN d.members[k].members : p = <<k, i>>
    BY DEF Positions
  <2>2. PICK i \in DOMAIN d.members[k].members : p = <<k, i>>
    BY <2>1
  <2>3. k \in Nat /\ i \in Nat
    BY <1>1, <1>2
  <2> QED BY <2>2, <2>3
<1>5. IsFiniteSet(Positions(d))
  <2> DEFINE Row(k) == {<<k, i>> : i \in DOMAIN d.members[k].members}
             Rows == {Row(k) : k \in DOMAIN d.members}
  <2>1. ASSUME NEW k \in DOMAIN d.members PROVE IsFiniteSet(Row(k))
    <3>1. PICK m \in Nat : DOMAIN d.members[k].members = 1..m
      BY <1>1, <1>2
    <3> DEFINE f == [i \in 1..m |-> <<k, i>>]
    <3>2. f \in [1..m -> Row(k)] /\ \A t \in Row(k) : \E i \in 1..m : f[i] = t
      BY <3>1
    <3> HIDE DEF f, Row
    <3> QED BY <3>2, IntervalCovers
  <2>2. IsFiniteSet(Rows)
    <3>1. PICK m \in Nat : DOMAIN d.members = 1..m
      BY <1>1
    <3> DEFINE f == [k \in 1..m |-> Row(k)]
    <3> HIDE DEF Row
    <3>2. f \in [1..m -> Rows] /\ \A t \in Rows : \E i \in 1..m : f[i] = t
      BY <3>1
    <3> HIDE DEF f, Rows
    <3> QED BY <3>2, IntervalCovers
  <2>3. \A S \in Rows : IsFiniteSet(S)
    BY <2>1
  <2>4. Positions(d) = UNION Rows
    BY DEF Positions
  <2> HIDE DEF Rows
  <2> QED BY <2>2, <2>3, <2>4, FS_UNION
<1> QED BY <1>3, <1>4, <1>5

\* The positions up to the cursor q
Read(d, q) == {p \in Positions(d) : p[1] < q.list \/ (p[1] = q.list /\ p[2] <= q.input)}

\* The inputs ins are, in this order, for the positions P, each of the driver of its list
Match(d, P, ins) ==
  /\ {ins[n].from : n \in DOMAIN ins} = P
  /\ \A n \in DOMAIN ins : /\ \A o \in DOMAIN ins : o < n => Precedes(ins[o].from, ins[n].from)
                           /\ ins[n].of = d.members[ins[n].from[1]].key

\* There are as many inputs as positions.
LEMMA MatchCounts ==
  ASSUME NEW d, NEW P, NEW ins, NEW n \in Nat, DOMAIN ins = 1..n, P \subseteq Nat \X Nat, Match(d, P, ins)
  PROVE  IsFiniteSet(P) /\ Cardinality(P) = n
<1> DEFINE f == [j \in 1..n |-> ins[j].from]
<1>1. \A j \in 1..n : f[j] \in P
  BY DEF Match
<1>2. ASSUME NEW o \in 1..n, NEW j \in 1..n, f[o] = f[j] PROVE o = j
  <2>1. \A p \in P : ~Precedes(p, p)
    BY DEF Precedes
  <2>2. ~(o < j) /\ ~(j < o)
    BY <1>1, <1>2, <2>1 DEF Match
  <2> QED BY <2>2
<1>3. \A p \in P : \E j \in 1..n : f[j] = p
  BY DEF Match
<1> HIDE DEF f
<1>4. f \in Bijection(1..n, P)
  <2>1. f \in [1..n -> P] /\ DOMAIN f = 1..n
    BY <1>1 DEF f
  <2>2. f \in Injection(1..n, P)
    BY <1>2, <2>1 DEF Injection, IsInjective
  <2>3. f \in Surjection(1..n, P)
    BY <1>3, <2>1 DEF Surjection
  <2> QED BY <2>2, <2>3 DEF Bijection
<1>5. ExistsBijection(1..n, P)
  BY <1>4 DEF ExistsBijection
<1>6. IsFiniteSet(1..n) /\ Cardinality(1..n) = n
  <2>1. 1 \in Int /\ n \in Int
    OBVIOUS
  <2> QED BY <2>1, FS_Interval
<1> QED BY <1>5, <1>6, FS_Bijection

-----------------------------------------------------------------------------
(* What was read of the input in which the parser is *)

\* Two inputs differ at most in their settings
SameLink(x, y) == x.of = y.of /\ x.from = y.from /\ x.next = y.next

\* The configuration r is c with x for its input i
Changed(c, i, x, r) ==
  /\ DOMAIN r.inputs = DOMAIN c.inputs /\ Len(r.inputs) = Len(c.inputs)
  /\ r.inputs[i] = x /\ \A j \in DOMAIN c.inputs : j # i => r.inputs[j] = c.inputs[j]
  /\ r.head = c.head /\ r.driver = c.driver /\ r.current = c.current

\* Another value for the settings of one input leaves all types and all lists.
LEMMA ChangeFacts ==
  ASSUME NEW c, Typed(c), Exact(c), NEW i \in 1..Len(c.inputs), NEW x \in InputType,
         SameLink(x, c.inputs[i]), NEW r, r = [c EXCEPT !.inputs[i] = x]
  PROVE  Changed(c, i, x, r) /\ Typed(r) /\ Exact(r)
<1>0. /\ c \in Configs /\ c.inputs \in Seq(InputType)
      /\ Len(c.inputs) \in Nat /\ DOMAIN c.inputs = 1..Len(c.inputs)
  BY DEF Typed, Configs
<1> DEFINE out == [c.inputs EXCEPT ![i] = x]
<1>1. out \in Seq(InputType) /\ Len(out) = Len(c.inputs) /\ DOMAIN out = DOMAIN c.inputs
  BY <1>0
<1>2. out[i] = x /\ \A j \in DOMAIN c.inputs : j # i => out[j] = c.inputs[j]
  BY <1>0
<1>3. r = [c EXCEPT !.inputs = out]
  BY <1>0 DEF Configs
<1> HIDE DEF out
<1>4. r \in Configs /\ r.inputs = out /\ r.head = c.head /\ r.driver = c.driver /\ r.current = c.current
  <2>1. out \in Seq(InputType)
    BY <1>1
  <2> DEFINE y == [c EXCEPT !.inputs = out]
  <2>2. y \in Configs /\ y.inputs = out /\ y.head = c.head /\ y.driver = c.driver /\ y.current = c.current
    BY <1>0, <2>1, ConfigWithInputs
  <2> HIDE DEF y
  <2>3. r = y
    BY <1>3 DEF y
  <2> QED BY <2>2, <2>3
<1>5. Changed(c, i, x, r)
  BY <1>1, <1>2, <1>4 DEF Changed
<1>6. Typed(r)
  BY <1>1, <1>4 DEF Typed
<1>7. \A j \in DOMAIN c.inputs : SameLink(r.inputs[j], c.inputs[j])
  BY <1>5 DEF Changed, SameLink
<1>8. ASSUME NEW d \in Drivers PROVE ExactFor(r.inputs, r.head[d], d)
  <2>1. Mine(r.inputs, d) = Mine(c.inputs, d)
    BY <1>5, <1>7 DEF Mine, Changed, SameLink
  <2>2. \A j \in Mine(c.inputs, d) : r.inputs[j].next = c.inputs[j].next
    BY <1>7 DEF Mine, SameLink
  <2>3. ExactFor(c.inputs, c.head[d], d) /\ r.head = c.head
    BY <1>4 DEF Exact
  <2> QED BY <2>1, <2>2, <2>3 DEF ExactFor
<1> QED BY <1>5, <1>6, <1>8 DEF Exact

\* A value that the callback accepts gives an input settings of their types.
LEMMA ValueTyped ==
  ASSUME NEW input \in InputType, NEW c, NEW e, e.pos = 5, Answers(c, e),
         NEW x, x = InputValue(input, e)
  PROVE  /\ x \in InputType /\ SameLink(x, input)
         /\ e.end /\ e.key = "emergency" => x = input
         /\ e.key \in {"invert", "emergency", "line", "active"}
<1>1. CASE e.key = "invert"
  BY <1>1 DEF InputValue, InputType, SameLink
<1>2. CASE e.key = "emergency"
  BY <1>2 DEF InputValue, InputType, SameLink
<1>3. CASE e.key = "line" /\ e.str \in Lines
  BY <1>3 DEF InputValue, InputType, SameLink
<1>4. CASE e.key = "active"
  BY <1>4 DEF InputValue, InputType, SameLink
<1> QED BY <1>1, <1>2, <1>3, <1>4 DEF Answers

\* So does a value inside "emergency": the delay fits into its uint16_t.
LEMMA MemberTyped ==
  ASSUME NEW input \in InputType, NEW c, NEW e, e.pos = 7, Answers(c, e), NEW x, x = EmergencyValue(input, e)
  PROVE  x \in InputType /\ SameLink(x, input) /\ e.key \in {"reason", "delay", "latch"}
<1>1. CASE e.key = "reason" /\ e.str \in EmergencyReasons
  BY <1>1 DEF EmergencyValue, InputType, SameLink
<1>2. CASE e.key = "delay" /\ e.num \in 0..MaxDelay
  BY <1>2 DEF EmergencyValue, InputType, SameLink
<1>3. CASE e.key = "latch"
  BY <1>3 DEF EmergencyValue, InputType, SameLink
<1> QED BY <1>1, <1>2, <1>3 DEF Answers

\* The value v as far as its first n members go
FirstOf(v, n) == [v EXCEPT !.members = [j \in 1..n |-> v.members[j]]]

\* The first members of a value; all of them are the value itself.
LEMMA FirstOfFacts ==
  ASSUME NEW v \in Values, NEW n \in Nat
  PROVE  /\ FirstOf(v, n).key = v.key /\ FirstOf(v, n).type = v.type /\ FirstOf(v, n).str = v.str
         /\ FirstOf(v, n).members = [j \in 1..n |-> v.members[j]]
         /\ n = Len(v.members) => FirstOf(v, n) = v
<1>1. v \in Node(Values)
  BY ValuesAssumption
<1>2. /\ FirstOf(v, n).key = v.key /\ FirstOf(v, n).type = v.type /\ FirstOf(v, n).str = v.str
      /\ FirstOf(v, n).members = [j \in 1..n |-> v.members[j]]
  BY <1>1 DEF Node, FirstOf
<1>3. ASSUME n = Len(v.members) PROVE FirstOf(v, n) = v
  <2>1. v.members \in Seq(Values) /\ DOMAIN v.members = 1..n
    BY <1>3, ValueFacts
  <2>2. v.members = [j \in 1..n |-> v.members[j]]
    BY <2>1
  <2>3. v = [v EXCEPT !.members = v.members]
    BY <1>1 DEF Node
  <2> QED BY <2>2, <2>3 DEF FirstOf
<1> QED BY <1>2, <1>3

\* The input at the cursor q as far as it was read
PartRead(d, q) ==
  IF q.place = "emergency"
  THEN [InputAt(d, q) EXCEPT !.members =
          [j \in 1..q.value |-> IF j = q.value THEN FirstOf(ValueAt(d, q), q.member)
                                 ELSE InputAt(d, q).members[j]]]
  ELSE FirstOf(InputAt(d, q), q.value)

\* The members of the input that were read.
LEMMA PartReadFacts ==
  ASSUME NEW d \in Values, NEW q \in Cursor, InInput(d, q)
  PROVE  /\ q.place = "value" =>
              /\ DOMAIN PartRead(d, q).members = 1..q.value
              /\ \A j \in 1..q.value : PartRead(d, q).members[j] = InputAt(d, q).members[j]
         /\ q.place = "emergency" =>
              /\ DOMAIN PartRead(d, q).members = 1..q.value
              /\ \A j \in 1..q.value : j # q.value => PartRead(d, q).members[j] = InputAt(d, q).members[j]
              /\ q.value \in 1..q.value => PartRead(d, q).members[q.value] = FirstOf(ValueAt(d, q), q.member)
<1>1. InsideFacts(d, q) /\ q.value \in Nat
  BY Inside DEF Cursor
<1>2. CASE q.place = "value"
  <2>1. PartRead(d, q) = FirstOf(InputAt(d, q), q.value)
    BY <1>2 DEF PartRead
  <2>2. PartRead(d, q).members = [j \in 1..q.value |-> InputAt(d, q).members[j]]
    BY <1>1, <2>1, FirstOfFacts DEF InsideFacts
  <2> QED BY <1>2, <2>2
<1>3. CASE q.place = "emergency"
  <2>1. InputAt(d, q) \in Node(Values)
    BY <1>1, ValuesAssumption DEF InsideFacts
  <2>2. PartRead(d, q).members = [j \in 1..q.value |-> IF j = q.value THEN FirstOf(ValueAt(d, q), q.member)
                                                       ELSE InputAt(d, q).members[j]]
    BY <1>3, <2>1 DEF PartRead, Node
  <2> QED BY <1>3, <2>2
<1> QED BY <1>2, <1>3

\* The cursor r is in the same input as q
SameInput(q, r) == r.list = q.list /\ r.input = q.input

\* In the same input the list and the input around are the same.
LEMMA SameInputFacts ==
  ASSUME NEW d, NEW q, NEW r, SameInput(q, r)
  PROVE  /\ ListAt(d, r) = ListAt(d, q) /\ InputAt(d, r) = InputAt(d, q)
         /\ r.value = q.value => ValueAt(d, r) = ValueAt(d, q)
BY DEF SameInput, ListAt, InputAt, ValueAt

\* The callback at a value of an input reads one member more.
LEMMA PartReadGrows ==
  ASSUME NEW d \in Values, NEW q \in Cursor, NEW r \in Cursor, InInput(d, q), InInput(d, r), SameInput(q, r),
         q.place = "value", q.value < Len(InputAt(d, q).members),
         NEW a, a = InputAt(d, q).members[q.value + 1],
         r.value = q.value + 1, r.place = "value" \/ (r.place = "emergency" /\ r.member = 0)
  PROVE  /\ a \in Values
         /\ Grown(PartRead(d, q), PartRead(d, r), q.value, IF r.place = "value" THEN a ELSE FirstOf(a, 0))
<1>1. InsideFacts(d, q) /\ q.value \in Nat /\ r.value \in Nat
  BY Inside DEF Cursor
<1>2. InputAt(d, r) = InputAt(d, q) /\ ValueAt(d, r) = a
  BY SameInputFacts DEF ValueAt
<1>3. a \in Values /\ q.value + 1 \in 1..(q.value + 1)
  BY <1>1 DEF InsideFacts
<1>4. /\ DOMAIN PartRead(d, q).members = 1..q.value
      /\ \A j \in 1..q.value : PartRead(d, q).members[j] = InputAt(d, q).members[j]
  BY PartReadFacts
<1>5. \A j \in 1..q.value : j \in 1..(q.value + 1) /\ j # q.value + 1
  BY <1>1
<1>6. CASE r.place = "value"
  <2>1. /\ DOMAIN PartRead(d, r).members = 1..(q.value + 1)
        /\ \A j \in 1..(q.value + 1) : PartRead(d, r).members[j] = InputAt(d, q).members[j]
    BY <1>2, <1>6, PartReadFacts
  <2> QED BY <1>3, <1>4, <1>5, <1>6, <2>1 DEF Grown
<1>7. CASE r.place = "emergency"
  <2>1. /\ DOMAIN PartRead(d, r).members = 1..(q.value + 1)
        /\ \A j \in 1..(q.value + 1) : j # q.value + 1 => PartRead(d, r).members[j] = InputAt(d, q).members[j]
        /\ PartRead(d, r).members[q.value + 1] = FirstOf(a, 0)
    BY <1>2, <1>3, <1>7, PartReadFacts
  <2> QED BY <1>3, <1>4, <1>5, <1>7, <2>1 DEF Grown
<1> QED BY <1>6, <1>7

\* The callback at a value inside "emergency" reads one value of it more.
LEMMA PartReadMemberGrows ==
  ASSUME NEW d \in Values, NEW q \in Cursor, NEW r \in Cursor,
         InEmergency(d, q), InInput(d, r), SameInput(q, r),
         q.place = "emergency", r.place = "emergency", r.value = q.value, r.member = q.member + 1,
         NEW a, a = ValueAt(d, q).members[q.member + 1]
  PROVE  LastGrown(PartRead(d, q), PartRead(d, r), q.value, q.member, a)
<1>1. InInput(d, q) /\ InsideFacts(d, q) /\ q.value \in Nat \ {0} /\ q.member \in Nat
  BY Inside DEF Cursor, InEmergency
<1>2. InputAt(d, r) = InputAt(d, q) /\ ValueAt(d, r) = ValueAt(d, q)
  BY SameInputFacts
<1>3. ValueAt(d, q) \in Values /\ ValueAt(d, q).key = "emergency"
  BY <1>1 DEF InEmergency, InInput, InsideFacts, ValueAt
<1>4. q.value \in 1..q.value /\ q.member + 1 \in Nat
  BY <1>1
<1>5. /\ DOMAIN PartRead(d, q).members = 1..q.value
      /\ \A j \in 1..q.value : j # q.value => PartRead(d, q).members[j] = InputAt(d, q).members[j]
      /\ PartRead(d, q).members[q.value] = FirstOf(ValueAt(d, q), q.member)
  BY <1>1, <1>4, PartReadFacts
<1>6. /\ DOMAIN PartRead(d, r).members = 1..q.value
      /\ \A j \in 1..q.value : j # q.value => PartRead(d, r).members[j] = InputAt(d, q).members[j]
      /\ PartRead(d, r).members[q.value] = FirstOf(ValueAt(d, q), q.member + 1)
  BY <1>2, <1>4, PartReadFacts
<1>7. /\ FirstOf(ValueAt(d, q), q.member).key = "emergency"
      /\ FirstOf(ValueAt(d, q), q.member + 1).key = "emergency"
      /\ FirstOf(ValueAt(d, q), q.member).members = [j \in 1..q.member |-> ValueAt(d, q).members[j]]
      /\ FirstOf(ValueAt(d, q), q.member + 1).members = [j \in 1..(q.member + 1) |-> ValueAt(d, q).members[j]]
  BY <1>1, <1>3, <1>4, FirstOfFacts
<1>8. Grown(FirstOf(ValueAt(d, q), q.member), FirstOf(ValueAt(d, q), q.member + 1), q.member, a)
  <2>1. \A j \in 1..q.member : j \in 1..(q.member + 1)
    BY <1>1
  <2>2. q.member + 1 \in 1..(q.member + 1)
    BY <1>1
  <2> QED BY <1>7, <2>1, <2>2 DEF Grown
<1> QED BY <1>5, <1>6, <1>7, <1>8 DEF LastGrown

\* At the end of an input or of "emergency" the whole of it was read.
LEMMA PartReadEnds ==
  ASSUME NEW d \in Values, NEW q \in Cursor
  PROVE  /\ q.place = "value" /\ InInput(d, q) /\ ~(q.value < Len(InputAt(d, q).members)) =>
              PartRead(d, q) = InputAt(d, q)
         /\ q.place = "emergency" /\ InEmergency(d, q) /\ ~(q.member < Len(ValueAt(d, q).members)) =>
              PartRead(d, q) = FirstOf(InputAt(d, q), q.value)
<1>1. ASSUME q.place = "value", InInput(d, q), ~(q.value < Len(InputAt(d, q).members))
      PROVE  PartRead(d, q) = InputAt(d, q)
  <2>1. InsideFacts(d, q) /\ q.value \in Nat
    BY <1>1, Inside DEF Cursor
  <2>2. q.value = Len(InputAt(d, q).members)
    BY <1>1, <2>1 DEF InInput, InsideFacts
  <2> QED BY <1>1, <2>1, <2>2, FirstOfFacts DEF PartRead, InsideFacts
<1>2. ASSUME q.place = "emergency", InEmergency(d, q), ~(q.member < Len(ValueAt(d, q).members))
      PROVE  PartRead(d, q) = FirstOf(InputAt(d, q), q.value)
  <2>1. InsideFacts(d, q) /\ q.value \in Nat \ {0} /\ q.member \in Nat
    BY <1>2, Inside DEF Cursor, InEmergency
  <2>2. ValueAt(d, q) \in Values
    BY <1>2, <2>1 DEF InEmergency, InInput, InsideFacts, ValueAt
  <2>3. q.member = Len(ValueAt(d, q).members)
    <3>1. Len(ValueAt(d, q).members) \in Nat
      BY <2>2, ValueFacts
    <3> QED BY <1>2, <2>1, <3>1 DEF InEmergency
  <2>4. FirstOf(ValueAt(d, q), q.member) = ValueAt(d, q)
    BY <2>1, <2>2, <2>3, FirstOfFacts
  <2>5. ValueAt(d, q) = InputAt(d, q).members[q.value]
    BY DEF ValueAt
  <2> QED BY <1>2, <2>4, <2>5 DEF PartRead, FirstOf
<1> QED BY <1>1, <1>2

-----------------------------------------------------------------------------
(* The inputs that were read *)

\* The parser is inside an input
Open(q) == q.place \in {"value", "emergency"}

\* current_input is the last input, and means what was read of its object
OpenInput(d, q, c) ==
  /\ c.current = Len(c.inputs) /\ c.current >= 1
  /\ c.inputs[c.current].from = <<q.list, q.input>>
  /\ Means(c.inputs[c.current], PartRead(d, q))

\* json_data.driver is the driver of the list around
HasDriver(d, q, c) ==
  q.place \in {"list", "input", "value", "emergency"} => c.driver = ListAt(d, q).key

\* The inputs are those that were read up to the cursor q
Holds(d, q, c) ==
  /\ HasDriver(d, q, c)
  /\ Match(d, Read(d, q), c.inputs)
  /\ Open(q) => OpenInput(d, q, c)
  /\ \A n \in DOMAIN c.inputs : \/ Open(q) /\ n = Len(c.inputs)
                                \/ Means(c.inputs[n], ValueOf(d, c.inputs[n].from))

\* What an input means does not depend on its links.
LEMMA MeansSame ==
  ASSUME NEW x, NEW y, SameSettings(x, y), NEW v, Means(y, v)
  PROVE  Means(x, v)
BY DEF SameSettings, Means

\* A new input means an empty object.
LEMMA NewMeans ==
  ASSUME NEW x, NEW d, NEW p, SameSettings(x, NewInput(d, p)), NEW w, DOMAIN w.members = {}
  PROVE  Means(x, w)
<1>1. x.invert = FALSE /\ x.reason = {} /\ x.delay = 0 /\ x.line = NoLine
  BY DEF SameSettings, NewInput
<1>2. x.invert = MeantPolarity(w)
  BY <1>1 DEF MeantPolarity
<1> QED BY <1>1, <1>2 DEF Means, MeansLine, MeansReason, MeansDelay

\* No input begins at the other callbacks,
LEMMA ReadKept ==
  ASSUME NEW d, NEW q, NEW r, SameInput(q, r)
  PROVE  Read(d, r) = Read(d, q)
BY DEF Read, SameInput

\* nor at the key of the next driver.
LEMMA ReadNextList ==
  ASSUME NEW d \in Values, NEW q \in Cursor, AtKey(d, q), NEW r, r.list = q.list + 1, r.input = 0
  PROVE  Read(d, r) = Read(d, q)
<1>0. q.list \in Nat /\ q.input \in Nat
  BY DEF Cursor
<1> SUFFICES ASSUME NEW p \in Positions(d)
             PROVE  p[1] < r.list \/ (p[1] = r.list /\ p[2] <= r.input) <=>
                    p[1] < q.list \/ (p[1] = q.list /\ p[2] <= q.input)
  BY DEF Read
<1>1. p = <<p[1], p[2]>> /\ p[1] \in 1..Len(d.members) /\ p[2] \in 1..Len(d.members[p[1]].members)
  BY PositionFacts
<1>2. p[1] \in Nat /\ p[2] \in Nat /\ p[2] >= 1 /\ p[1] >= 1
  <2>1. p[1] \in Nat /\ p[2] \in Nat
    BY PositionFacts
  <2>2. Len(d.members) \in Nat /\ d.members[p[1]] \in Values
    BY <1>1, ValueFacts
  <2>3. Len(d.members[p[1]].members) \in Nat
    BY <2>2, ValueFacts
  <2> QED BY <1>1, <2>1, <2>2, <2>3
<1>3. ASSUME p[1] = q.list PROVE p[2] <= q.input
  BY <1>0, <1>1, <1>2, <1>3 DEF AtKey, ListAt
<1> QED BY <1>0, <1>2, <1>3

\* The begin of an input reads one position, behind all others.
LEMMA ReadNextInput ==
  ASSUME NEW d \in Values, NEW q \in Cursor, NEW r, r.list = q.list, r.input = q.input + 1,
         q.list \in 1..Len(d.members), q.input + 1 \in 1..Len(d.members[q.list].members)
  PROVE  /\ Read(d, r) = Read(d, q) \cup {<<q.list, q.input + 1>>}
         /\ <<q.list, q.input + 1>> \in Positions(d)
         /\ \A p \in Read(d, q) : Precedes(p, <<q.list, q.input + 1>>)
<1>0. q.list \in Nat /\ q.input \in Nat
  BY DEF Cursor
<1>1. <<q.list, q.input + 1>> \in Positions(d)
  BY PositionFacts
<1>2. \A p \in Positions(d) : p = <<p[1], p[2]>> /\ p[1] \in Nat /\ p[2] \in Nat
  BY PositionFacts
<1>3. \A p \in Positions(d) : /\ p \in Read(d, r) <=> p[1] < q.list \/ (p[1] = q.list /\ p[2] <= q.input + 1)
                              /\ p \in Read(d, q) <=> p[1] < q.list \/ (p[1] = q.list /\ p[2] <= q.input)
  BY DEF Read
<1>4. \A p \in Positions(d) : p \in Read(d, r) <=> p \in Read(d, q) \/ p = <<q.list, q.input + 1>>
  <2> TAKE p \in Positions(d)
  <2>1. p = <<p[1], p[2]>> /\ p[1] \in Nat /\ p[2] \in Nat
    BY <1>2
  <2>2. p = <<q.list, q.input + 1>> <=> p[1] = q.list /\ p[2] = q.input + 1
    BY <2>1
  <2> QED BY <1>0, <1>3, <2>1, <2>2
<1>5. Read(d, r) \subseteq Positions(d) /\ Read(d, q) \subseteq Positions(d)
  BY DEF Read
<1>6. ASSUME NEW p \in Read(d, q) PROVE Precedes(p, <<q.list, q.input + 1>>)
  BY <1>0, <1>2, <1>3, <1>5 DEF Precedes
<1> QED BY <1>1, <1>4, <1>5, <1>6

\* An input for the next position is added to those that match.
LEMMA MatchMore ==
  ASSUME NEW d, NEW P, NEW p, NEW ins, NEW out, NEW n \in Nat, Match(d, P, ins),
         DOMAIN ins = 1..n, DOMAIN out = 1..(n + 1),
         \A j \in 1..n : out[j].of = ins[j].of /\ out[j].from = ins[j].from,
         out[n + 1].from = p, out[n + 1].of = d.members[p[1]].key,
         \A o \in P : Precedes(o, p)
  PROVE  Match(d, P \cup {p}, out)
<1>0. \A j : j \in 1..(n + 1) <=> j \in 1..n \/ j = n + 1
  OBVIOUS
<1>1. {ins[j].from : j \in 1..n} = P
  BY DEF Match
<1>2. {out[j].from : j \in 1..(n + 1)} = P \cup {p}
  BY <1>0, <1>1
<1>3. ASSUME NEW j \in 1..(n + 1), NEW o \in 1..(n + 1), o < j PROVE Precedes(out[o].from, out[j].from)
  <2>1. o \in 1..n
    BY <1>3
  <2>2. CASE j \in 1..n
    BY <1>3, <2>1, <2>2 DEF Match
  <2>3. CASE j = n + 1
    BY <1>1, <2>1, <2>3
  <2> QED BY <1>0, <2>2, <2>3
<1>4. ASSUME NEW j \in 1..(n + 1) PROVE out[j].of = d.members[out[j].from[1]].key
  <2>1. CASE j \in 1..n
    BY <2>1 DEF Match
  <2>2. CASE j = n + 1
    BY <2>2
  <2> QED BY <1>0, <2>1, <2>2
<1> QED BY <1>2, <1>3, <1>4 DEF Match

\* Inputs match whatever their settings and links are.
LEMMA MatchChanged ==
  ASSUME NEW d, NEW P, NEW ins, NEW out, Match(d, P, ins), DOMAIN out = DOMAIN ins,
         \A j \in DOMAIN ins : out[j].of = ins[j].of /\ out[j].from = ins[j].from
  PROVE  Match(d, P, out)
BY DEF Match

-----------------------------------------------------------------------------
(* What a callback that returns true does *)

\* All that is known between two callbacks, none of which returned false
Good(d, q, c) == q \in Cursor /\ Where(d, q) /\ Typed(c) /\ Exact(c) /\ Holds(d, q, c)

\* The configuration r has the inputs and lists of c
SameInputs(c, r) ==
  r \in Configs /\ r.inputs = c.inputs /\ r.head = c.head /\ r.current \in {c.current, Null}

\* A callback that changes no input keeps what is known of them.
LEMMA HoldsOutside ==
  ASSUME NEW d, NEW q, NEW c, Typed(c), Exact(c), Holds(d, q, c), NEW r, ~Open(r), Read(d, r) = Read(d, q),
         NEW o, SameInputs(c, o), HasDriver(d, r, o),
         Open(q) => Means(c.inputs[Len(c.inputs)], ValueOf(d, c.inputs[Len(c.inputs)].from))
  PROVE  Typed(o) /\ Exact(o) /\ Holds(d, r, o)
<1>1. Typed(o)
  <2>1. Len(c.inputs) \in Nat
    BY DEF Typed, Configs
  <2> QED BY <2>1 DEF Typed, SameInputs, Null
<1>2. Exact(o)
  BY DEF Exact, SameInputs
<1>3. \A n \in DOMAIN c.inputs : Means(c.inputs[n], ValueOf(d, c.inputs[n].from))
  BY DEF Holds
<1> QED BY <1>1, <1>2, <1>3 DEF Holds, SameInputs

\* So does one that changes the settings of the current input as they are meant,
LEMMA HoldsInside ==
  ASSUME NEW d, NEW q, NEW c, Typed(c), Exact(c), Holds(d, q, c), Open(q), NEW r, Open(r), SameInput(q, r),
         NEW x \in InputType, SameLink(x, c.inputs[c.current]), Means(x, PartRead(d, r)),
         NEW o, o = [c EXCEPT !.inputs[c.current] = x]
  PROVE  Typed(o) /\ Exact(o) /\ Holds(d, r, o)
<1>1. OpenInput(d, q, c) /\ c.current \in 1..Len(c.inputs) /\ DOMAIN c.inputs = 1..Len(c.inputs)
  BY DEF Holds, OpenInput, Typed, Configs
<1>2. PICK i \in 1..Len(c.inputs) : i = c.current
  BY <1>1
<1>3. Typed(o) /\ Exact(o) /\ Changed(c, i, x, o)
  BY <1>2, ChangeFacts
<1>4. HasDriver(d, r, o)
  <2>1. HasDriver(d, q, c) /\ ListAt(d, r) = ListAt(d, q)
    BY SameInputFacts DEF Holds
  <2> QED BY <1>3, <2>1 DEF HasDriver, Changed, Open
<1>5. \A j \in DOMAIN c.inputs : SameLink(o.inputs[j], c.inputs[j])
  BY <1>2, <1>3 DEF Changed, SameLink
<1>6. Match(d, Read(d, r), o.inputs)
  <2>1. Match(d, Read(d, q), c.inputs) /\ Read(d, r) = Read(d, q)
    BY ReadKept DEF Holds
  <2>2. DOMAIN o.inputs = DOMAIN c.inputs
    BY <1>3 DEF Changed
  <2>3. \A j \in DOMAIN c.inputs : o.inputs[j].of = c.inputs[j].of /\ o.inputs[j].from = c.inputs[j].from
    BY <1>5 DEF SameLink
  <2> QED BY <2>1, <2>2, <2>3, MatchChanged
<1>7. OpenInput(d, r, o)
  <2>1. o.current = c.current /\ Len(o.inputs) = Len(c.inputs) /\ o.inputs[o.current] = x
    BY <1>2, <1>3 DEF Changed
  <2>2. x.from = <<r.list, r.input>>
    BY <1>1 DEF OpenInput, SameLink, SameInput
  <2> QED BY <1>1, <2>1, <2>2 DEF OpenInput
<1>8. ASSUME NEW n \in DOMAIN o.inputs, n # Len(o.inputs)
      PROVE  Means(o.inputs[n], ValueOf(d, o.inputs[n].from))
  <2>1. n \in DOMAIN c.inputs /\ n # Len(c.inputs) /\ n # i
    BY <1>1, <1>2, <1>3, <1>8 DEF Changed, OpenInput
  <2>2. o.inputs[n] = c.inputs[n]
    BY <1>3, <2>1 DEF Changed
  <2> QED BY <2>1, <2>2 DEF Holds
<1> QED BY <1>3, <1>4, <1>6, <1>7, <1>8 DEF Holds

\* and the begin of an input.
LEMMA HoldsBegun ==
  ASSUME NEW d \in Values, NEW q \in Cursor, NEW c, Typed(c), Exact(c), Holds(d, q, c), HasRoom(c),
         q.place = "input", InArray(d, q), q.input < Len(ListAt(d, q).members),
         NEW r \in Cursor, r.place = "value", r.list = q.list, r.input = q.input + 1, r.value = 0, InInput(d, r),
         NEW o, o = StartInput(c, <<r.list, r.input>>)
  PROVE  Typed(o) /\ Exact(o) /\ Holds(d, r, o)
<1>0. q.list \in Nat /\ q.input \in Nat
  BY DEF Cursor
<1>1. /\ q.list \in 1..Len(d.members) /\ ListAt(d, q).key \in Drivers /\ ListAt(d, q) = d.members[q.list]
      /\ q.input + 1 \in 1..Len(d.members[q.list].members)
  <2>1. q.list \in 1..Len(d.members) /\ ListAt(d, q).key \in Drivers
    BY DEF InArray, InList
  <2>2. ListAt(d, q) = d.members[q.list] /\ d.members[q.list] \in Values
    BY <2>1, ValueFacts DEF ListAt
  <2>3. Len(ListAt(d, q).members) \in Nat
    BY <2>2, ValueFacts
  <2> QED BY <1>0, <2>1, <2>2, <2>3
<1>2. c.driver = ListAt(d, q).key /\ c.driver \in Drivers
  BY <1>1 DEF Holds, HasDriver
<1>3. PICK p \in Nat \X Nat : p = <<r.list, r.input>>
  BY DEF Cursor
<1>4. PICK n : n = Len(c.inputs)
  OBVIOUS
<1>5. n \in Nat /\ Typed(o) /\ Exact(o) /\ Started(c, p, n, o)
  BY <1>2, <1>3, <1>4, StartInputUnfolded, StartInputLinks
<1>6. /\ DOMAIN c.inputs = 1..n /\ DOMAIN o.inputs = 1..(n + 1) /\ Len(o.inputs) = n + 1
      /\ o.driver = c.driver /\ o.current = n + 1
      /\ o.inputs[n + 1].from = p /\ o.inputs[n + 1].of = c.driver
      /\ \A j \in 1..n : o.inputs[j].of = c.inputs[j].of /\ o.inputs[j].from = c.inputs[j].from
  BY <1>5 DEF Started, Longer, SameSettings, NewInput
<1>7. HasDriver(d, r, o)
  BY <1>2, <1>6 DEF HasDriver, ListAt
<1>8. Match(d, Read(d, r), o.inputs)
  <2>1. /\ Read(d, r) = Read(d, q) \cup {p} /\ \A x \in Read(d, q) : Precedes(x, p)
    <3>1. p = <<q.list, q.input + 1>>
      BY <1>3
    <3> QED BY <1>1, <3>1, ReadNextInput
  <2>2. Match(d, Read(d, q), c.inputs)
    BY DEF Holds
  <2>3. c.driver = d.members[p[1]].key
    BY <1>1, <1>2, <1>3
  <2>4. o.inputs[n + 1].from = p /\ o.inputs[n + 1].of = d.members[p[1]].key
    BY <1>6, <2>3
  <2>5. Match(d, Read(d, q) \cup {p}, o.inputs)
    <3> HIDE DEF Match, Read
    <3> QED BY <1>5, <1>6, <2>1, <2>2, <2>4, MatchMore
  <2> QED BY <2>1, <2>5
<1>9. OpenInput(d, r, o)
  <2>1. DOMAIN PartRead(d, r).members = {}
    BY PartReadFacts
  <2>2. SameSettings(o.inputs[n + 1], NewInput(c.driver, p))
    BY <1>5 DEF Started
  <2>3. Means(o.inputs[n + 1], PartRead(d, r))
    BY <2>1, <2>2, NewMeans
  <2> QED BY <1>3, <1>5, <1>6, <2>3 DEF OpenInput
<1>10. ASSUME NEW j \in DOMAIN o.inputs, j # Len(o.inputs)
       PROVE  Means(o.inputs[j], ValueOf(d, o.inputs[j].from))
  <2>1. j \in 1..n
    BY <1>5, <1>6, <1>10
  <2>2. SameSettings(o.inputs[j], c.inputs[j]) /\ o.inputs[j].from = c.inputs[j].from
    BY <1>5, <1>6, <2>1 DEF Started
  <2>3. Means(c.inputs[j], ValueOf(d, c.inputs[j].from))
    BY <1>6, <2>1 DEF Holds, Open
  <2> QED BY <2>2, <2>3, MeansSame
<1>11. /\ Open(r)
       /\ \A j \in DOMAIN o.inputs :
            j = Len(o.inputs) \/ Means(o.inputs[j], ValueOf(d, o.inputs[j].from))
  BY <1>10 DEF Open
<1> QED BY <1>5, <1>7, <1>8, <1>9, <1>11 DEF Holds

\* A callback that returns true has read one event more, and the inputs are those of
\* the part of the document that was read.
LEMMA StepIsGood ==
  ASSUME NEW d \in Values, NEW q, NEW c, Good(d, q, c), q.place # "done",
         NEW e, e = EventAt(d, q), Returns(c, e), NEW r, r = After(q, e),
         NEW o, o = Effect(c, e, <<r.list, r.input>>)
  PROVE  Good(d, r, o)
<1>0. /\ q \in Cursor /\ Where(d, q) /\ Typed(c) /\ Exact(c) /\ Holds(d, q, c)
      /\ q.list \in Nat /\ q.input \in Nat /\ q.value \in Nat /\ q.member \in Nat
      /\ q.place \in {"root", "key", "list", "input", "value", "emergency"}
  BY DEF Good, Cursor, Places
<1>e. EventIs(d, q, e)
  BY EventFacts
<1>a. AfterIs(q, e, r)
  <2>1. e.end \in BOOLEAN
    BY <1>0, <1>e DEF EventIs, Sees
  <2> QED BY <1>0, <2>1, AfterFacts
<1>r. Answers(c, e)
  BY ReturnsFacts
<1>w. Where(d, r) /\ r \in Cursor
  BY <1>0, WhereFollows DEF Holds, HasDriver
<1>c. SameInputs(c, c) /\ c \in Configs
  BY <1>0 DEF SameInputs, Typed
<1> SUFFICES Typed(o) /\ Exact(o) /\ Holds(d, r, o)
  BY <1>w DEF Good
<1>k. ASSUME ~Open(q), ~Open(r), SameInput(q, r), o = c, r.place = "input" => q.place \in {"list", "value"},
             r.place # "list"
      PROVE  Typed(o) /\ Exact(o) /\ Holds(d, r, o)
  <2>1. HasDriver(d, r, o)
    <3>1. ListAt(d, r) = ListAt(d, q)
      BY <1>k, SameInputFacts
    <3> QED BY <1>0, <1>k, <3>1 DEF HasDriver, Holds, Open
  <2>2. Read(d, r) = Read(d, q)
    BY <1>k, ReadKept
  <2> QED BY <1>0, <1>c, <1>k, <2>1, <2>2, HoldsOutside
<1>1. CASE q.place = "root"
  <2>1. e.pos = 0 /\ e.end = FALSE
    BY <1>1, <1>e DEF EventIs, Sees
  <2>2. Moves(r, "key", q.list, q.input)
    BY <2>1, <1>a DEF AfterIs
  <2>3. o = c
    BY <2>1 DEF Effect
  <2> QED BY <1>1, <1>k, <2>2, <2>3 DEF Moves, Open, SameInput
<1>2. CASE q.place = "key" /\ q.list < Len(d.members)
  <2>1. e.pos = 1 /\ e.end = FALSE /\ e.key = d.members[q.list + 1].key
    BY <1>2, <1>e DEF EventIs
  <2>2. e.key \in Drivers
    BY <2>1, <1>r DEF Answers
  <2>3. Moves(r, "list", q.list + 1, 0)
    BY <2>1, <1>a DEF AfterIs
  <2>4. o = [c EXCEPT !.driver = e.key]
    BY <2>1 DEF Effect
  <2>5. SameInputs(c, o) /\ o.driver = e.key
    BY <1>c, <2>2, <2>4 DEF SameInputs, Configs
  <2>6. HasDriver(d, r, o)
    BY <2>1, <2>3, <2>5 DEF HasDriver, Moves, ListAt
  <2>7. Read(d, r) = Read(d, q)
    <3>1. AtKey(d, q)
      BY <1>0, <1>2 DEF Where
    <3> QED BY <1>0, <2>3, <3>1, ReadNextList DEF Moves
  <2>8. ~Open(q) /\ ~Open(r)
    BY <1>2, <2>3 DEF Open, Moves
  <2> QED BY <1>0, <2>5, <2>6, <2>7, <2>8, HoldsOutside
<1>3. CASE q.place = "key" /\ ~(q.list < Len(d.members))
  <2>1. e.pos = 0 /\ e.end = TRUE
    BY <1>3, <1>e DEF EventIs, Sees
  <2>2. Moves(r, "done", q.list, q.input)
    BY <2>1, <1>a DEF AfterIs
  <2>3. o = c
    BY <2>1 DEF Effect
  <2> QED BY <1>3, <1>k, <2>2, <2>3 DEF Moves, Open, SameInput
<1>4. CASE q.place = "list"
  <2>1. e.pos = 2 /\ e.end = FALSE
    BY <1>4, <1>e DEF EventIs, Sees
  <2>2. Moves(r, "input", q.list, q.input)
    BY <2>1, <1>a, <1>r DEF AfterIs, Container, Answers
  <2>3. o = c
    BY <2>1 DEF Effect
  <2> QED BY <1>4, <1>k, <2>2, <2>3 DEF Moves, Open, SameInput
<1>5. CASE q.place = "input" /\ q.input < Len(ListAt(d, q).members)
  <2>1. e.pos = 3 /\ e.end = FALSE
    BY <1>5, <1>e DEF EventIs, Sees
  <2>2. e.type = "OBJECT" /\ HasRoom(c)
    BY <2>1, <1>r DEF Answers
  <2>3. Moves(r, "value", q.list, q.input + 1) /\ r.value = 0
    BY <2>1, <2>2, <1>a DEF AfterIs, Container
  <2>4. o = StartInput(c, <<r.list, r.input>>)
    BY <2>1 DEF Effect
  <2>5. InArray(d, q)
    BY <1>0, <1>5 DEF Where
  <2>6. InInput(d, r)
    BY <1>w, <2>3 DEF Where, Moves
  <2>7. r.place = "value" /\ r.list = q.list /\ r.input = q.input + 1
    BY <2>3 DEF Moves
  <2> QED BY <1>0, <1>5, <1>w, <2>2, <2>3, <2>4, <2>5, <2>6, <2>7, HoldsBegun
<1>6. CASE q.place = "input" /\ ~(q.input < Len(ListAt(d, q).members))
  <2>1. e.pos = 2 /\ e.end = TRUE
    BY <1>6, <1>e DEF EventIs, Sees
  <2>2. Moves(r, "key", q.list, q.input)
    BY <2>1, <1>a DEF AfterIs
  <2>3. o = c
    BY <2>1 DEF Effect
  <2> QED BY <1>6, <1>k, <2>2, <2>3 DEF Moves, Open, SameInput
<1>i. ASSUME Open(q)
      PROVE  /\ OpenInput(d, q, c) /\ c.inputs[c.current] \in InputType
             /\ c.current \in DOMAIN c.inputs
  <2>1. OpenInput(d, q, c)
    BY <1>0, <1>i DEF Holds
  <2>2. c.inputs \in Seq(InputType) /\ c.current \in 1..Len(c.inputs)
    BY <1>0, <2>1 DEF Typed, Configs, OpenInput
  <2> QED BY <2>1, <2>2
<1>7. CASE q.place = "value" /\ q.value < Len(InputAt(d, q).members)
  <2>0. Open(q) /\ InInput(d, q)
    BY <1>0, <1>7 DEF Where, Open
  <2>a. PICK a : a = InputAt(d, q).members[q.value + 1]
    OBVIOUS
  <2>1. e.pos = 5 /\ e.end = FALSE /\ e.key = a.key /\ e.type = a.type /\ e.str = a.str
    BY <1>7, <1>e, <2>a DEF EventIs, Sees
  <2>2. /\ r.list = q.list /\ r.input = q.input /\ r.value = q.value + 1 /\ r.member = 0
        /\ r.place = IF a.type \in Container THEN "emergency" ELSE "value"
    BY <1>7, <2>1, <1>a DEF AfterIs, Moves, Within
  <2>3. PICK x : x = InputValue(c.inputs[c.current], e)
    OBVIOUS
  <2>4. /\ x \in InputType /\ SameLink(x, c.inputs[c.current])
        /\ e.key \in {"invert", "emergency", "line", "active"}
    BY <1>i, <1>r, <2>0, <2>1, <2>3, ValueTyped
  <2>5. o = [c EXCEPT !.inputs[c.current] = x]
    BY <1>c, <1>i, <2>0, <2>1, <2>3 DEF Effect, Configs
  <2>6. InInput(d, r) /\ Open(r) /\ SameInput(q, r)
    BY <1>w, <2>2 DEF Where, Open, SameInput, InEmergency
  <2>7. PICK b : b = IF r.place = "value" THEN a ELSE FirstOf(a, 0)
    OBVIOUS
  <2>8. a \in Values /\ Grown(PartRead(d, q), PartRead(d, r), q.value, b)
    BY <1>0, <1>7, <1>w, <2>0, <2>a, <2>2, <2>6, <2>7, PartReadGrows
  <2>9. DOMAIN b.members = {} /\ e.key = b.key /\ e.type = b.type /\ e.str = b.str
    <3>1. CASE a.type \in Container
      <4>1. b = FirstOf(a, 0)
        BY <2>2, <2>7, <3>1
      <4>2. \A n \in Nat : /\ FirstOf(a, n).key = a.key
                           /\ FirstOf(a, n).type = a.type /\ FirstOf(a, n).str = a.str
                           /\ FirstOf(a, n).members = [j \in 1..n |-> a.members[j]]
        BY <2>8, FirstOfFacts
      <4>3. \A n \in Nat : n = 0 => 1..n = {}
        OBVIOUS
      <4>4. \A n \in Nat : DOMAIN FirstOf(a, n).members = 1..n
        BY <4>2
      <4>5. \A n \in Nat : n = 0 => DOMAIN FirstOf(a, n).members = {}
        BY <4>3, <4>4
      <4>6. DOMAIN b.members = {}
        BY <4>1, <4>5
      <4>7. b.key = a.key /\ b.type = a.type /\ b.str = a.str
        BY <4>1, <4>2
      <4> QED BY <2>1, <4>6, <4>7
    <3>2. CASE a.type \notin Container
      <4>1. b = a /\ DOMAIN a.members = 1..Len(a.members) /\ Len(a.members) = 0
        BY <2>2, <2>7, <2>8, <3>2, ValueFacts
      <4> QED BY <2>1, <4>1
    <3> QED BY <3>1, <3>2
  <2>10. Means(x, PartRead(d, r))
    <3>1. Means(c.inputs[c.current], PartRead(d, q))
      BY <1>i, <2>0 DEF OpenInput
    <3> QED BY <1>0, <1>i, <2>0, <2>1, <2>3, <2>4, <2>8, <2>9, <3>1, ValueMeant
  <2> QED BY <1>0, <2>0, <2>4, <2>5, <2>6, <2>10, HoldsInside
<1>8. CASE q.place = "value" /\ ~(q.value < Len(InputAt(d, q).members))
  <2>0. Open(q) /\ InInput(d, q)
    BY <1>0, <1>8 DEF Where, Open
  <2>1. e.pos = 3 /\ e.end = TRUE
    BY <1>8, <1>e DEF EventIs, Sees
  <2>2. Moves(r, "input", q.list, q.input)
    BY <2>1, <1>a DEF AfterIs
  <2>3. o = [c EXCEPT !.current = Null]
    BY <2>1 DEF Effect
  <2>4. SameInputs(c, o) /\ o.driver = c.driver
    BY <1>c, <2>3 DEF SameInputs, Configs, Null
  <2>5. SameInput(q, r) /\ ~Open(r)
    BY <2>2 DEF Moves, SameInput, Open
  <2>6. HasDriver(d, r, o)
    <3>1. ListAt(d, r) = ListAt(d, q)
      BY <2>5, SameInputFacts
    <3>2. HasDriver(d, q, c)
      BY <1>0 DEF Holds
    <3> QED BY <1>8, <2>4, <3>1, <3>2 DEF HasDriver
  <2>7. Means(c.inputs[Len(c.inputs)], ValueOf(d, c.inputs[Len(c.inputs)].from))
    <3>1. PartRead(d, q) = InputAt(d, q)
      BY <1>0, <1>8, <2>0, PartReadEnds
    <3>2. ValueOf(d, <<q.list, q.input>>) = InputAt(d, q)
      BY DEF ValueOf, InputAt, ListAt
    <3> QED BY <1>i, <2>0, <3>1, <3>2 DEF OpenInput
  <2>8. Read(d, r) = Read(d, q)
    BY <2>5, ReadKept
  <2> QED BY <1>0, <2>4, <2>5, <2>6, <2>7, <2>8, HoldsOutside
<1>9. CASE q.place = "emergency" /\ q.member < Len(ValueAt(d, q).members)
  <2>0. Open(q) /\ InEmergency(d, q) /\ InInput(d, q)
    BY <1>0, <1>9 DEF Where, Open, InEmergency
  <2>a. PICK a : a = ValueAt(d, q).members[q.member + 1]
    OBVIOUS
  <2>1. e.pos = 7 /\ e.end = FALSE /\ e.key = a.key /\ e.type = a.type /\ e.str = a.str /\ e.num = a.num
    BY <1>9, <1>e, <2>a DEF EventIs, Sees
  <2>2. /\ r.list = q.list /\ r.input = q.input /\ r.value = q.value /\ r.member = q.member + 1
        /\ r.place = "emergency"
    BY <1>9, <2>1, <1>a DEF AfterIs, Moves, Within
  <2>3. PICK x : x = EmergencyValue(c.inputs[c.current], e)
    OBVIOUS
  <2>4. x \in InputType /\ SameLink(x, c.inputs[c.current]) /\ e.key \in {"reason", "delay", "latch"}
    BY <1>i, <1>r, <2>0, <2>1, <2>3, MemberTyped
  <2>5. o = [c EXCEPT !.inputs[c.current] = x]
    BY <1>c, <1>i, <2>0, <2>1, <2>3 DEF Effect, Configs
  <2>6. InInput(d, r) /\ Open(r) /\ SameInput(q, r)
    BY <1>w, <2>2 DEF Where, Open, SameInput, InEmergency
  <2>7. LastGrown(PartRead(d, q), PartRead(d, r), q.value, q.member, a)
    BY <1>0, <1>9, <1>w, <2>0, <2>a, <2>2, <2>6, PartReadMemberGrows
  <2>8. q.value \in Nat \ {0}
    BY <1>0, <2>0 DEF InEmergency
  <2>9. \A j \in DOMAIN PartRead(d, q).members[q.value].members :
          LET m == PartRead(d, q).members[q.value].members[j] IN m.key = "reason" => m.str # Latch
    <3>1. ValueAt(d, q) \in Values
      BY <1>0, <2>0, <2>8, Inside DEF InEmergency, InInput, InsideFacts, ValueAt
    <3>2. PartRead(d, q).members[q.value] = FirstOf(ValueAt(d, q), q.member)
      <4>1. q.value \in 1..q.value
        BY <2>8
      <4> QED BY <1>0, <1>9, <2>0, <4>1, PartReadFacts
    <3>3. FirstOf(ValueAt(d, q), q.member).members = [j \in 1..q.member |-> ValueAt(d, q).members[j]]
      BY <1>0, <3>1, FirstOfFacts
    <3>4. \A j \in 1..q.member : ValidMember(ValueAt(d, q).members[j])
      BY <2>0 DEF InEmergency
    <3> QED BY <3>2, <3>3, <3>4 DEF ValidMember, EmergencyReasons, Latch
  <2>10. Means(x, PartRead(d, r))
    <3>1. Means(c.inputs[c.current], PartRead(d, q))
      BY <1>i, <2>0 DEF OpenInput
    <3> QED BY <1>0, <1>i, <2>0, <2>1, <2>3, <2>4, <2>7, <2>8, <2>9, <3>1, MemberMeant
  <2> QED BY <1>0, <2>0, <2>4, <2>5, <2>6, <2>10, HoldsInside
<1>10. CASE q.place = "emergency" /\ ~(q.member < Len(ValueAt(d, q).members))
  <2>0. Open(q) /\ InEmergency(d, q) /\ InInput(d, q)
    BY <1>0, <1>10 DEF Where, Open, InEmergency
  <2>1. e.pos = 5 /\ e.end = TRUE /\ e.key = "emergency"
    BY <1>10, <1>e, <2>0 DEF EventIs, Sees, InEmergency
  <2>2. r.list = q.list /\ r.input = q.input /\ r.value = q.value /\ r.place = "value"
    BY <2>1, <1>a DEF AfterIs, Moves, Within
  <2>3. PICK x : x = InputValue(c.inputs[c.current], e)
    OBVIOUS
  <2>4. x \in InputType /\ SameLink(x, c.inputs[c.current]) /\ x = c.inputs[c.current]
    BY <1>i, <1>r, <2>0, <2>1, <2>3, ValueTyped
  <2>5. o = [c EXCEPT !.inputs[c.current] = x]
    BY <1>c, <1>i, <2>0, <2>1, <2>3 DEF Effect, Configs
  <2>6. Open(r) /\ SameInput(q, r)
    BY <2>2 DEF Open, SameInput
  <2>7. PartRead(d, r) = PartRead(d, q)
    <3>1. PartRead(d, q) = FirstOf(InputAt(d, q), q.value)
      BY <1>0, <1>10, <2>0, PartReadEnds
    <3>2. InputAt(d, r) = InputAt(d, q)
      BY <2>6, SameInputFacts
    <3> QED BY <2>2, <3>1, <3>2 DEF PartRead
  <2>8. Means(x, PartRead(d, r))
    BY <1>i, <2>0, <2>4, <2>7 DEF OpenInput
  <2> QED BY <1>0, <2>0, <2>4, <2>5, <2>6, <2>8, HoldsInside
<1> QED BY <1>0, <1>1, <1>2, <1>3, <1>4, <1>5, <1>6, <1>7, <1>8, <1>9, <1>10

-----------------------------------------------------------------------------
(* What a callback that returns false says *)

\* One list that is not valid, one input or one value makes the document not valid.
LEMMA BadList ==
  ASSUME NEW d \in Values, NEW k \in 1..Len(d.members), ~ValidList(d.members[k])
  PROVE  ~Valid(d)
BY ValueFacts DEF Valid

\* The same for one input.
LEMMA BadInput ==
  ASSUME NEW d \in Values, NEW k \in 1..Len(d.members), NEW i \in 1..Len(d.members[k].members),
         ~ValidInput(d.members[k].key, d.members[k].members[i])
  PROVE  ~Valid(d)
<1>1. d.members[k] \in Values
  BY ValueFacts
<1>2. DOMAIN d.members[k].members = 1..Len(d.members[k].members)
  BY <1>1, ValueFacts
<1> QED BY <1>2, BadList DEF ValidList

\* The same for one value of an input.
LEMMA BadValue ==
  ASSUME NEW d \in Values, NEW q \in Cursor, InInput(d, q),
         NEW j \in 1..Len(InputAt(d, q).members), ~ValidValue(ListAt(d, q).key, InputAt(d, q).members[j])
  PROVE  ~Valid(d)
<1>1. InsideFacts(d, q)
  BY Inside
<1>2. ~ValidInput(ListAt(d, q).key, InputAt(d, q))
  BY <1>1 DEF InsideFacts, ValidInput
<1> QED BY <1>1, <1>2, BadInput DEF InsideFacts, ListAt, InputAt

\* When all_inputs_ is full at the begin of an input, the document has too many.
LEMMA NoRoomLeft ==
  ASSUME NEW d \in Values, NEW q \in Cursor, NEW c, Typed(c), Holds(d, q, c), ~HasRoom(c),
         q.list \in 1..Len(d.members), q.input + 1 \in 1..Len(d.members[q.list].members)
  PROVE  ~FitsInputs(d)
<1>1. PICK n \in Nat : n = Len(c.inputs) /\ DOMAIN c.inputs = 1..n /\ n = MaxInputs
  BY MaxInputsAssumption DEF Typed, Configs, HasRoom
<1>2. Read(d, q) \subseteq Positions(d)
  BY DEF Read
<1>3. Read(d, q) \subseteq Nat \X Nat
  BY <1>2, PositionFacts
<1>4. IsFiniteSet(Read(d, q)) /\ Cardinality(Read(d, q)) = n
  <2>1. Match(d, Read(d, q), c.inputs)
    BY DEF Holds
  <2> QED BY <1>1, <1>3, <2>1, MatchCounts
<1>5. PICK p : p = <<q.list, q.input + 1>>
  OBVIOUS
<1>6. p \in Positions(d) /\ p \notin Read(d, q)
  <2>1. p \in Positions(d)
    BY <1>5, PositionFacts
  <2>2. p[1] = q.list /\ p[2] = q.input + 1 /\ q.list \in Nat /\ q.input \in Nat
    BY <1>5 DEF Cursor
  <2> QED BY <2>1, <2>2 DEF Read
<1>7. Cardinality(Read(d, q) \cup {p}) = n + 1
  BY <1>4, <1>6, FS_AddElement
<1>8. Read(d, q) \cup {p} \in SUBSET Positions(d) /\ IsFiniteSet(Positions(d))
  BY <1>2, <1>6, PositionFacts
<1>9. n + 1 <= Cardinality(Positions(d)) /\ Cardinality(Positions(d)) \in Nat
  BY <1>7, <1>8, FS_Subset, FS_CardinalityType
<1> QED BY <1>1, <1>9 DEF FitsInputs

\* InputConfigsJsonCallback returns false for documents only that are not valid, and
\* never at an end.
LEMMA RefusedIsInvalid ==
  ASSUME NEW d \in Values, NEW q, NEW c, Good(d, q, c), q.place # "done",
         NEW e, e = EventAt(d, q), ~Returns(c, e)
  PROVE  ~Valid(d) /\ (e.end => FALSE)
<1>0. /\ q \in Cursor /\ Where(d, q) /\ Typed(c) /\ Holds(d, q, c)
      /\ q.list \in Nat /\ q.input \in Nat /\ q.value \in Nat /\ q.member \in Nat
      /\ q.place \in {"root", "key", "list", "input", "value", "emergency"}
  BY DEF Good, Cursor, Places
<1>00. Len(d.members) \in Nat /\ \A j \in 1..Len(d.members) : d.members[j] \in Values
  BY ValueFacts
<1>e. EventIs(d, q, e)
  BY EventFacts
<1>1. CASE q.place = "root"
  <2>1. e.pos = 0 /\ e.end = FALSE /\ e.type = d.type
    BY <1>1, <1>e DEF EventIs, Sees
  <2>2. d.type # "OBJECT"
    BY <2>1 DEF Returns
  <2> QED BY <2>1, <2>2 DEF Valid
<1>2. CASE q.place = "key" /\ q.list < Len(d.members)
  <2>1. e.pos = 1 /\ e.end = FALSE /\ e.key = d.members[q.list + 1].key
    BY <1>2, <1>e DEF EventIs
  <2>2. q.list + 1 \in 1..Len(d.members)
    BY <1>0, <1>00, <1>2
  <2>3. ~ValidList(d.members[q.list + 1])
    BY <2>1 DEF Returns, ValidList
  <2> QED BY <2>1, <2>2, <2>3, BadList
<1>3. CASE q.place = "key" /\ ~(q.list < Len(d.members))
  <2>1. e.pos = 0 /\ e.type = d.type
    BY <1>3, <1>e DEF EventIs, Sees
  <2> QED BY <1>0, <1>3, <2>1 DEF Returns, Where
<1>4. CASE q.place = "list"
  <2>1. e.pos = 2 /\ e.end = FALSE /\ e.type = ListAt(d, q).type
    BY <1>4, <1>e DEF EventIs, Sees
  <2>2. q.list \in 1..Len(d.members)
    BY <1>0, <1>4 DEF Where, InList
  <2>3. ~ValidList(d.members[q.list])
    BY <2>1 DEF Returns, ValidList, ListAt
  <2> QED BY <2>1, <2>2, <2>3, BadList
<1>5. CASE q.place = "input" /\ q.input < Len(ListAt(d, q).members)
  <2>1. e.pos = 3 /\ e.end = FALSE /\ e.type = ListAt(d, q).members[q.input + 1].type
    BY <1>5, <1>e DEF EventIs, Sees
  <2>2. q.list \in 1..Len(d.members) /\ ListAt(d, q) = d.members[q.list]
    BY <1>0, <1>5 DEF Where, InArray, InList, ListAt
  <2>3. q.input + 1 \in 1..Len(d.members[q.list].members)
    <3>1. Len(d.members[q.list].members) \in Nat
      BY <1>00, <2>2, ValueFacts
    <3> QED BY <1>0, <1>5, <2>2, <3>1
  <2>4. CASE e.type # "OBJECT"
    <3>1. ~ValidInput(d.members[q.list].key, d.members[q.list].members[q.input + 1])
      BY <2>1, <2>2, <2>4 DEF ValidInput
    <3> QED BY <2>1, <2>2, <2>3, <3>1, BadInput
  <2>5. CASE ~HasRoom(c)
    BY <1>0, <2>1, <2>2, <2>3, <2>5, NoRoomLeft DEF Valid
  <2> QED BY <2>1, <2>4, <2>5 DEF Returns
<1>6. CASE q.place = "input" /\ ~(q.input < Len(ListAt(d, q).members))
  <2>1. e.pos = 2 /\ e.type = ListAt(d, q).type
    BY <1>6, <1>e DEF EventIs, Sees
  <2> QED BY <1>0, <1>6, <2>1 DEF Returns, Where, InArray
<1>7. CASE q.place = "value" /\ q.value < Len(InputAt(d, q).members)
  <2>0. InInput(d, q) /\ c.driver = ListAt(d, q).key
    BY <1>0, <1>7 DEF Where, Holds, HasDriver
  <2>a. PICK a : a = InputAt(d, q).members[q.value + 1]
    OBVIOUS
  <2>1. e.pos = 5 /\ e.end = FALSE /\ e.key = a.key /\ e.type = a.type /\ e.str = a.str
    BY <1>7, <1>e, <2>a DEF EventIs, Sees
  <2>2. ~ValidValue(ListAt(d, q).key, a)
    BY <2>0, <2>1 DEF Returns, OnInputConfigValue, ValidValue, ValidEmergency
  <2>3. q.value + 1 \in 1..Len(InputAt(d, q).members)
    BY <1>0, <1>7, <2>0, Inside DEF InsideFacts
  <2> QED BY <1>0, <2>0, <2>a, <2>1, <2>2, <2>3, BadValue
<1>8. CASE q.place = "value" /\ ~(q.value < Len(InputAt(d, q).members))
  <2>1. e.pos = 3 /\ e.end = TRUE /\ e.type = InputAt(d, q).type
    BY <1>8, <1>e DEF EventIs, Sees
  <2> QED BY <1>0, <1>8, <2>1 DEF Returns, Where, InInput
<1>9. CASE q.place = "emergency" /\ q.member < Len(ValueAt(d, q).members)
  <2>0. InEmergency(d, q) /\ InInput(d, q)
    BY <1>0, <1>9 DEF Where, InEmergency
  <2>a. PICK a : a = ValueAt(d, q).members[q.member + 1]
    OBVIOUS
  <2>1. /\ e.pos = 7 /\ e.end = FALSE /\ e.key = a.key /\ e.type = a.type /\ e.str = a.str /\ e.num = a.num
        /\ e.parent = "emergency"
    BY <1>9, <1>e, <2>0, <2>a DEF EventIs, Sees, InEmergency
  <2>2. ~ValidMember(a)
    BY <2>1 DEF Returns, ValidMember
  <2>3. q.value \in 1..Len(InputAt(d, q).members) /\ ValueAt(d, q) = InputAt(d, q).members[q.value]
    BY <1>0, <2>0, Inside DEF InsideFacts, InEmergency, InInput, ValueAt
  <2>4. ValueAt(d, q) \in Values
    BY <1>0, <2>0, <2>3, Inside DEF InsideFacts
  <2>5. q.member + 1 \in DOMAIN ValueAt(d, q).members
    <3>1. Len(ValueAt(d, q).members) \in Nat /\ DOMAIN ValueAt(d, q).members = 1..Len(ValueAt(d, q).members)
      BY <2>4, ValueFacts
    <3> QED BY <1>0, <1>9, <3>1
  <2>6. ~ValidValue(ListAt(d, q).key, ValueAt(d, q))
    <3>1. ValueAt(d, q).key = "emergency"
      BY <2>0 DEF InEmergency
    <3>2. ~ValidEmergency(ValueAt(d, q))
      BY <2>2, <2>5, <2>a DEF ValidEmergency
    <3> QED BY <3>1, <3>2 DEF ValidValue
  <2> QED BY <1>0, <2>0, <2>1, <2>3, <2>6, BadValue
<1>10. CASE q.place = "emergency" /\ ~(q.member < Len(ValueAt(d, q).members))
  <2>1. e.pos = 5 /\ e.type = ValueAt(d, q).type /\ e.key = ValueAt(d, q).key
    BY <1>10, <1>e DEF EventIs, Sees
  <2> QED BY <1>0, <1>10, <2>1 DEF Returns, Where, InEmergency
<1> QED BY <1>0, <1>1, <1>2, <1>3, <1>4, <1>5, <1>6, <1>7, <1>8, <1>9, <1>10

-----------------------------------------------------------------------------
(* The end of the document *)

\* The inputs ins are what the document d means
Those(d, ins) ==
  Match(d, Positions(d), ins) /\ \A n \in DOMAIN ins : Means(ins[n], ValueOf(d, ins[n].from))

\* Behind the last list all positions were read.
LEMMA AllRead ==
  ASSUME NEW d \in Values, NEW q \in Cursor, q.list = Len(d.members),
         q.list > 0 => q.input >= Len(ListAt(d, q).members)
  PROVE  Read(d, q) = Positions(d)
<1>0. q.list \in Nat /\ q.input \in Nat
  BY DEF Cursor
<1> SUFFICES ASSUME NEW p \in Positions(d) PROVE p[1] < q.list \/ (p[1] = q.list /\ p[2] <= q.input)
  BY DEF Read
<1>1. p = <<p[1], p[2]>> /\ p[1] \in 1..Len(d.members) /\ p[2] \in 1..Len(d.members[p[1]].members)
  BY PositionFacts
<1>2. p[1] \in Nat /\ p[2] \in Nat /\ p[1] >= 1 /\ p[1] <= q.list
  BY <1>0, <1>1, PositionFacts
<1>3. CASE p[1] = q.list
  <2>1. d.members[p[1]] \in Values /\ ListAt(d, q) = d.members[p[1]]
    BY <1>1, <1>3, ValueFacts DEF ListAt
  <2>2. Len(d.members[p[1]].members) \in Nat
    BY <2>1, ValueFacts
  <2>3. q.list > 0
    BY <1>0, <1>2
  <2>4. q.input >= Len(d.members[p[1]].members)
    BY <2>1, <2>3
  <2> QED BY <1>0, <1>1, <1>2, <1>3, <2>2, <2>4
<1> QED BY <1>0, <1>2, <1>3

\* Inputs that match all positions fit into all_inputs_ together.
LEMMA ThoseFit ==
  ASSUME NEW d \in Values, NEW c, Typed(c), Match(d, Positions(d), c.inputs)
  PROVE  FitsInputs(d)
<1>1. PICK n \in Nat : n = Len(c.inputs) /\ DOMAIN c.inputs = 1..n /\ n <= MaxInputs
  BY DEF Typed, Configs
<1>2. Positions(d) \subseteq Nat \X Nat
  BY PositionFacts
<1>3. Cardinality(Positions(d)) = n
  BY <1>1, <1>2, MatchCounts
<1> QED BY <1>1, <1>3 DEF FitsInputs

\* A document of which no callback returned false to its end is valid, and the
\* inputs are what it means.
LEMMA DoneIsMeant ==
  ASSUME NEW d \in Values, NEW q, NEW c, Good(d, q, c), q.place = "done"
  PROVE  Valid(d) /\ Those(d, c.inputs)
<1>1. /\ q \in Cursor /\ Typed(c) /\ Holds(d, q, c)
      /\ AtKey(d, q) /\ q.list = Len(d.members) /\ d.type = "OBJECT"
  BY DEF Good, Where
<1>2. Read(d, q) = Positions(d)
  <2>1. q.list > 0 => q.input >= Len(ListAt(d, q).members)
    BY <1>1 DEF AtKey, Cursor
  <2> QED BY <1>1, <2>1, AllRead
<1>3. Match(d, Positions(d), c.inputs)
  BY <1>1, <1>2 DEF Holds
<1>4. \A n \in DOMAIN c.inputs : Means(c.inputs[n], ValueOf(d, c.inputs[n].from))
  BY <1>1 DEF Holds, Open
<1>5. FitsInputs(d)
  BY <1>1, <1>3, ThoseFit
<1>6. \A k \in DOMAIN d.members : ValidList(d.members[k])
  BY <1>1, ValueFacts DEF AtKey
<1> QED BY <1>1, <1>3, <1>4, <1>5, <1>6 DEF Valid, Those

\* What the end of a list or object does after a value that was refused
Ended(d, r, o) ==
  /\ r \in Cursor /\ Typed(o) /\ Exact(o)
  /\ r.place = "done" => BadLastList(d) /\ Those(d, o.inputs)

\* The second callback of a call of which the first returned false: the lists stay
\* exact, and the end of the root comes only behind a bad last list.
LEMMA EndAfterRefusal ==
  ASSUME NEW d \in Values, d.type \in Container, NEW q, NEW c, Good(d, q, c), q.place # "done",
         NEW e, e = EventAt(d, q), ~Returns(c, e), e.type \in Primitive,
         NEW r, r = After(q, e),
         NEW f, f = EventAt(d, r), f.end,
         NEW s, s = After(r, f),
         NEW o, o = IF Returns(c, f) THEN Effect(c, f, <<s.list, s.input>>) ELSE c
  PROVE  r \in Cursor /\ Ended(d, s, o)
<1>0. /\ q \in Cursor /\ Where(d, q) /\ Typed(c) /\ Exact(c) /\ Holds(d, q, c)
      /\ q.list \in Nat /\ q.input \in Nat /\ q.value \in Nat /\ q.member \in Nat
      /\ q.place \in {"root", "key", "list", "input", "value", "emergency"}
  BY DEF Good, Cursor, Places
<1>t. Container \cap Primitive = {} /\ "KEY" \notin Primitive
  BY DEF Container, Primitive
<1>00. Len(d.members) \in Nat /\ \A j \in 1..Len(d.members) : d.members[j] \in Values
  BY ValueFacts
<1>e. EventIs(d, q, e)
  BY EventFacts
<1>b. e.end \in BOOLEAN
  BY <1>0, <1>e DEF EventIs, Sees
<1>n. ~e.end
  BY RefusedIsInvalid
<1>a. AfterIs(q, e, r)
  BY <1>0, <1>b, AfterFacts
<1>f. EventIs(d, r, f)
  BY EventFacts
<1>s. ASSUME r \in Cursor, f.end = TRUE PROVE AfterIs(r, f, s)
  <2>1. f.end \in BOOLEAN
    BY <1>s
  <2>2. AfterIs(r, f, After(r, f))
    BY ONLY <1>s, <2>1, AfterFacts
  <2> QED BY <2>2
<1>1. q.place \notin {"root", "key"}
  <2>1. ASSUME q.place = "root" PROVE FALSE
    BY <1>e, <1>t, <2>1 DEF EventIs, Sees
  <2>2. ASSUME q.place = "key" PROVE FALSE
    BY <1>e, <1>t, <2>2 DEF EventIs, Sees
  <2> QED BY <2>1, <2>2
<1>c. /\ c \in Configs /\ DOMAIN c.inputs = 1..Len(c.inputs) /\ Len(c.inputs) \in Nat
  BY <1>0 DEF Typed, Configs
<1>2. CASE q.place = "list"
  <2>1. e.pos = 2 /\ e.type = ListAt(d, q).type
    BY <1>2, <1>e DEF EventIs, Sees
  <2>2. Moves(r, "key", q.list, q.input)
    BY <2>1, <1>a, <1>t DEF AfterIs
  <2>3. r \in Cursor /\ r.place = "key" /\ r.list = q.list /\ r.input = q.input
    BY <2>2 DEF Moves
  <2>4. InList(d, q) /\ q.input = 0 /\ q.list \in 1..Len(d.members) /\ d.type = "OBJECT"
    BY <1>0, <1>2 DEF Where, InList
  <2>5. ~(r.list < Len(d.members)) /\ q.list = Len(d.members)
    <3>1. ~(r.list < Len(d.members))
      BY <1>f, <2>3 DEF EventIs
    <3> QED BY <1>0, <1>00, <2>3, <2>4, <3>1
  <2>6. f.pos = 0 /\ f.end = TRUE /\ f.type = d.type
    BY <1>f, <2>3, <2>5 DEF EventIs, Sees
  <2>7. Moves(s, "done", r.list, r.input)
    BY <1>s, <2>3, <2>6 DEF AfterIs
  <2>8. o = c
    BY <2>6 DEF Effect
  <2>9. ListAt(d, q) = d.members[q.list] /\ ListAt(d, q) \in Values /\ Len(ListAt(d, q).members) = 0
    <3>1. ListAt(d, q) = d.members[q.list] /\ ListAt(d, q) \in Values
      BY <1>00, <2>4 DEF ListAt
    <3> QED BY <1>t, <2>1, <3>1, ValueFacts
  <2>10. Read(d, q) = Positions(d)
    <3>1. q.list > 0 => q.input >= Len(ListAt(d, q).members)
      BY <2>4, <2>9
    <3> QED BY <1>0, <2>5, <3>1, AllRead
  <2>11. Those(d, c.inputs)
    BY <1>0, <1>2, <2>10 DEF Those, Holds, Open
  <2>12. BadLastList(d)
    <3>1. FitsInputs(d)
      BY <1>0, <2>11, ThoseFit DEF Those
    <3>2. q.list \in DOMAIN d.members
      BY <2>4, ValueFacts
    <3>3. d.members[q.list].key \in Drivers /\ d.members[q.list].type \in Primitive
      BY <2>1, <2>4, <2>9 DEF InList
    <3>4. \A k \in 1..(q.list - 1) : ValidList(d.members[k])
      BY <2>4 DEF InList
    <3> QED BY <2>4, <2>5, <3>1, <3>2, <3>3, <3>4 DEF BadLastList
  <2> QED BY <1>0, <2>3, <2>7, <2>8, <2>11, <2>12 DEF Ended, Moves
<1>3. CASE q.place = "input"
  <2>1. e.pos = 3
    BY <1>3, <1>e, <1>n DEF EventIs, Sees
  <2>2. Moves(r, "input", q.list, q.input + 1)
    BY <2>1, <1>3, <1>a, <1>n, <1>t DEF AfterIs
  <2>3. r \in Cursor /\ r.place = "input"
    BY <2>2 DEF Moves
  <2>4. f.pos = 2 /\ f.end = TRUE
    BY <1>f, <2>3 DEF EventIs, Sees
  <2>5. Moves(s, "key", r.list, r.input)
    BY <1>s, <2>3, <2>4 DEF AfterIs
  <2>6. o = c
    BY <2>4 DEF Effect
  <2> QED BY <1>0, <2>3, <2>5, <2>6 DEF Ended, Moves
<1>4. CASE q.place = "value"
  <2>1. e.pos = 5
    BY <1>4, <1>e, <1>n DEF EventIs, Sees
  <2>2. Moves(r, "value", q.list, q.input)
    BY <2>1, <1>4, <1>a, <1>n, <1>t DEF AfterIs
  <2>3. r \in Cursor /\ r.place = "value"
    BY <2>2 DEF Moves
  <2>4. f.pos = 3 /\ f.end = TRUE
    BY <1>f, <2>3 DEF EventIs, Sees
  <2>5. Moves(s, "input", r.list, r.input)
    BY <1>s, <2>3, <2>4 DEF AfterIs
  <2>6. o = c \/ o = [c EXCEPT !.current = Null]
    BY <2>4 DEF Effect
  <2>7. SameInputs(c, o)
    <3>1. CASE o = c
      BY <1>c, <3>1 DEF SameInputs
    <3>2. CASE o = [c EXCEPT !.current = Null]
      BY <1>c, <3>2 DEF SameInputs, Configs, Null
    <3> QED BY <2>6, <3>1, <3>2
  <2>8. Typed(o)
    BY <1>0, <1>c, <2>7 DEF Typed, SameInputs, Null
  <2>9. Exact(o)
    BY <1>0, <2>7 DEF Exact, SameInputs
  <2> QED BY <2>3, <2>5, <2>8, <2>9 DEF Ended, Moves
<1>5. CASE q.place = "emergency"
  <2>1. e.pos = 7
    BY <1>5, <1>e, <1>n DEF EventIs, Sees
  <2>2. Moves(r, "emergency", q.list, q.input) /\ r.value = q.value
    BY <2>1, <1>5, <1>a DEF AfterIs, Within
  <2>3. r \in Cursor /\ r.place = "emergency" /\ SameInput(q, r) /\ r.value = q.value
    BY <2>2 DEF Moves, SameInput
  <2>4. ValueAt(d, r) = ValueAt(d, q) /\ ValueAt(d, q).key = "emergency"
    BY <1>0, <1>5, <2>3, SameInputFacts DEF Where, InEmergency
  <2>5. f.pos = 5 /\ f.end = TRUE /\ f.key = "emergency"
    BY <1>f, <2>3, <2>4 DEF EventIs, Sees
  <2>6. Moves(s, "value", r.list, r.input)
    BY <1>s, <2>3, <2>5 DEF AfterIs
  <2>7. OpenInput(d, q, c)
    BY <1>0, <1>5 DEF Holds, Open
  <2>8. PICK i \in 1..Len(c.inputs) : i = c.current
    BY <1>0, <1>c, <2>7 DEF OpenInput, Typed
  <2>9. PICK x \in InputType : x = c.inputs[i]
    BY <1>0 DEF Typed, Configs
  <2>10. o = c \/ o = [c EXCEPT !.inputs[i] = x]
    <3>1. InputValue(c.inputs[i], f) = c.inputs[i]
      BY <2>5 DEF InputValue
    <3>2. Effect(c, f, <<s.list, s.input>>) = [c EXCEPT !.inputs[i] = InputValue(c.inputs[i], f)]
      BY <1>c, <2>5, <2>8 DEF Effect, Configs
    <3> QED BY <2>9, <3>1, <3>2
  <2>11. Typed(o) /\ Exact(o)
    <3>1. SameLink(x, c.inputs[i])
      BY <2>9 DEF SameLink
    <3> QED BY <1>0, <2>8, <2>9, <2>10, <3>1, ChangeFacts
  <2> QED BY <2>3, <2>6, <2>11 DEF Ended, Moves
<1> QED BY <1>0, <1>1, <1>2, <1>3, <1>4, <1>5

-----------------------------------------------------------------------------
(* The invariant *)

\* The inductive invariant: while a document is read, all that was read of it was
\* valid, and the inputs are those that were read
IInv ==
  /\ TypeOK /\ ListsAreExact /\ InputsAreMeant
  /\ result = "none" => at.place # "done" /\ Where(doc, at) /\ Holds(doc, at, Config)

\* What a call of the parser may lead to
Outcome(d, s) ==
  /\ s.at \in Cursor /\ Typed(s.config) /\ Exact(s.config) /\ s.failed \in BOOLEAN
  /\ s.at.place = "done" => (Valid(d) \/ BadLastList(d)) /\ Those(d, s.config.inputs)
  /\ s.at.place # "done" /\ s.failed => ~Valid(d)
  /\ s.at.place # "done" /\ ~s.failed => Where(d, s.at) /\ Holds(d, s.at, s.config)

\* A document is a value with members.
LEMMA DocumentIsValue ==
  ASSUME NEW d \in Documents
  PROVE  d \in Values /\ d.type \in Container
BY ValuesAssumption

\* TypeOK and ListsAreExact, said of the configuration.
LEMMA ConfigIsTyped ==
  ASSUME TypeOK, ListsAreExact
  PROVE  Typed(Config) /\ Exact(Config)
<1>1. /\ Config.inputs = inputs /\ Config.head = head /\ Config.driver = driver /\ Config.current = current
  BY DEF Config
<1>2. /\ inputs \in Seq(InputType) /\ head \in [Drivers -> 0..MaxInputs]
      /\ driver \in Drivers \cup {NoDriver} /\ current \in Nat
  <2>1. inputs \in Seq(InputType)
    BY DEF TypeOK
  <2>2. Len(inputs) \in Nat
    BY <2>1
  <2>3. current \in 0..Len(inputs)
    BY DEF TypeOK
  <2>4. current \in Nat
    BY <2>2, <2>3
  <2> QED BY <2>1, <2>4 DEF TypeOK
<1>3. Config \in Configs
  BY <1>2 DEF Config, Configs
<1>4. Typed(Config)
  BY <1>1, <1>3 DEF Typed, TypeOK
<1>5. Exact(Config)
  BY <1>1 DEF Exact, ExactFor, Mine, ListsAreExact
<1> QED BY <1>4, <1>5

\* What ProcessJson does with the outcome of a call of the parser.
LEMMA OutcomeIsSafe ==
  ASSUME TypeOK, doc' = doc, NEW s, Outcome(doc, s), Continue(s)
  PROVE  IInv'
<1>1. /\ at' = s.at
      /\ inputs' = s.config.inputs /\ head' = s.config.head
      /\ driver' = s.config.driver /\ current' = s.config.current
  BY DEF Continue
<1>2. PICK w \in BOOLEAN : LET v == Verdict(s.at.place = "done", s.failed, w)
                           IN result' = v[1] /\ ended' = v[2]
  BY DEF Continue
<1>3. \/ s.at.place = "done" /\ result' = "accepted" /\ ended' = "done"
      \/ s.at.place = "done" /\ result' = "rejected" /\ ended' = "extra characters"
      \/ s.at.place # "done" /\ s.failed /\ result' = "rejected" /\ ended' = "failed"
      \/ s.at.place # "done" /\ ~s.failed /\ result' = "none" /\ ended' = "none"
  BY <1>2 DEF Verdict, Outcome
<1>4. /\ s.at \in Cursor /\ Typed(s.config) /\ Exact(s.config) /\ s.config \in Configs
      /\ Len(s.config.inputs) <= MaxInputs /\ s.config.current \in 0..Len(s.config.inputs)
  BY DEF Outcome, Typed
<1>5. TypeOK'
  BY <1>1, <1>3, <1>4 DEF TypeOK, Configs
<1>6. ListsAreExact'
  BY <1>1, <1>4 DEF ListsAreExact, Exact, ExactFor, Mine
<1>7. InputsAreMeant'
  <2>1. Those(doc, s.config.inputs) => InputsAreThose(doc)'
    BY <1>1 DEF Those, Match, InputsAreThose
  <2>2. ASSUME s.at.place = "done" PROVE (Valid(doc) \/ BadLastList(doc)) /\ Those(doc, s.config.inputs)
    BY <2>2 DEF Outcome
  <2>3. ASSUME s.at.place # "done", s.failed PROVE ~Valid(doc)
    BY <2>3 DEF Outcome
  <2>4. ended' = "done" => s.at.place = "done"
    BY <1>3
  <2>5. ended' = "failed" => s.at.place # "done" /\ s.failed
    BY <1>3
  <2> QED BY <2>1, <2>2, <2>3, <2>4, <2>5 DEF InputsAreMeant
<1>8. ASSUME result' = "none" PROVE at'.place # "done" /\ Where(doc, at)' /\ Holds(doc, at, Config)'
  <2>1. s.at.place # "done" /\ ~s.failed
    BY <1>3, <1>8
  <2>2. Where(doc, s.at) /\ Holds(doc, s.at, s.config)
    BY <2>1 DEF Outcome
  <2>3. Config' = s.config
    BY <1>1, <1>4 DEF Config, Configs
  <2> QED BY <1>1, <2>1, <2>2, <2>3
<1> QED BY <1>5, <1>6, <1>7, <1>8 DEF IInv

\* The outcome of one callback.
LEMMA CallbackOutcome ==
  ASSUME NEW d \in Values, NEW s, s.failed = FALSE, Good(d, s.at, s.config), s.at.place # "done",
         NEW t, t = Callback(d, s)
  PROVE  /\ Outcome(d, t)
         /\ Returns(s.config, EventAt(d, s.at)) => Good(d, t.at, t.config) /\ t.failed = FALSE
         /\ ~Returns(s.config, EventAt(d, s.at)) =>
              t.at = After(s.at, EventAt(d, s.at)) /\ t.config = s.config /\ t.failed = TRUE
<1>1. PICK q, c, e, r : q = s.at /\ c = s.config /\ e = EventAt(d, q) /\ r = After(q, e)
  OBVIOUS
<1>2. Good(d, q, c) /\ q.place # "done"
  BY <1>1
<1>3. CASE Returns(c, e)
  <2>1. PICK o : o = Effect(c, e, <<r.list, r.input>>)
    OBVIOUS
  <2>2. Good(d, r, o)
    BY <1>1, <1>2, <1>3, <2>1, StepIsGood
  <2>3. t = [at |-> r, config |-> o, failed |-> FALSE]
    BY <1>1, <1>3, <2>1 DEF Callback
  <2>4. t.at = r /\ t.config = o /\ t.failed = FALSE
    BY <2>3
  <2>5. r.place = "done" => Valid(d) /\ Those(d, o.inputs)
    BY <2>2, DoneIsMeant
  <2>6. Outcome(d, t)
    BY <2>2, <2>4, <2>5 DEF Outcome, Good
  <2> QED BY <1>1, <1>3, <2>2, <2>4, <2>6
<1>4. CASE ~Returns(c, e)
  <2>1. t = [at |-> r, config |-> c, failed |-> TRUE]
    BY <1>1, <1>4 DEF Callback
  <2>2. t.at = r /\ t.config = c /\ t.failed = TRUE
    BY <2>1
  <2>3. ~Valid(d) /\ ~e.end
    BY <1>1, <1>2, <1>4, RefusedIsInvalid
  <2>4. EventIs(d, q, e)
    BY <1>1, EventFacts
  <2>5. q \in Cursor /\ q.place \in {"root", "key", "list", "input", "value", "emergency"}
    BY <1>2 DEF Good, Cursor, Places
  <2>6. e.end = FALSE /\ e.pos \in {0, 1, 2, 3, 5, 7}
    BY <2>3, <2>4, <2>5 DEF EventIs, Sees
  <2>7. AfterIs(q, e, r)
    <3>1. e.end \in BOOLEAN
      BY <2>6
    <3> QED BY <1>1, <2>5, <3>1, AfterFacts
  <2>8. r \in Cursor /\ r.place # "done"
    BY <2>5, <2>6, <2>7 DEF AfterIs, Moves
  <2>9. Outcome(d, t)
    BY <1>2, <2>2, <2>3, <2>8 DEF Outcome, Good
  <2> QED BY <1>1, <1>4, <2>2, <2>9
<1> QED BY <1>3, <1>4

\* The outcome of a call that makes two callbacks.
LEMMA SecondCallbackOutcome ==
  ASSUME NEW d \in Values, d.type \in Container, NEW s, s.failed = FALSE, Good(d, s.at, s.config),
         s.at.place # "done", NEW t, t = Callback(d, s), NEW u, u = Callback(d, t),
         EventAt(d, s.at).type \in Primitive, EventAt(d, t.at).end
  PROVE  Outcome(d, u)
<1>1. PICK q, c, e : q = s.at /\ c = s.config /\ e = EventAt(d, q)
  OBVIOUS
<1>2. Good(d, q, c) /\ q.place # "done" /\ e.type \in Primitive
  BY <1>1
<1>3. CASE Returns(c, e)
  <2>1. Good(d, t.at, t.config) /\ t.failed = FALSE
    BY <1>1, <1>3, CallbackOutcome
  <2>2. t.at.place # "done"
    <3>1. EventIs(d, q, e)
      BY <1>1, EventFacts
    <3>2. q \in Cursor /\ q.place \in {"root", "key", "list", "input", "value", "emergency"}
      BY <1>2 DEF Good, Cursor, Places
    <3>3. e.pos \in {1, 2, 3, 5, 7} /\ e.end \in BOOLEAN
      <4>1. Container \cap Primitive = {} /\ "KEY" \notin Primitive
        BY DEF Container, Primitive
      <4> QED BY <1>2, <3>1, <3>2, <4>1 DEF EventIs, Sees
    <3>4. t.at = After(q, e)
      BY <1>1, <1>3 DEF Callback
    <3>5. AfterIs(q, e, t.at)
      BY <3>2, <3>3, <3>4, AfterFacts
    <3> QED BY <1>2, <3>3, <3>5 DEF AfterIs, Moves
  <2> QED BY <2>1, <2>2, CallbackOutcome
<1>4. CASE ~Returns(c, e)
  <2>1. PICK r, f, z, o : /\ r = After(q, e) /\ f = EventAt(d, r) /\ z = After(r, f)
                          /\ o = IF Returns(c, f) THEN Effect(c, f, <<z.list, z.input>>) ELSE c
    OBVIOUS
  <2>2. t.at = r /\ t.config = c /\ t.failed = TRUE
    BY <1>1, <1>4, <2>1, CallbackOutcome
  <2>3. f.end
    BY <2>1, <2>2
  <2>4. Ended(d, z, o)
    BY <1>1, <1>2, <1>4, <2>1, <2>3, EndAfterRefusal
  <2>5. u.at = z /\ u.config = o /\ u.failed = TRUE
    <3>1. CASE Returns(c, f)
      BY <2>1, <2>2, <3>1 DEF Callback
    <3>2. CASE ~Returns(c, f)
      BY <2>1, <2>2, <3>2 DEF Callback
    <3> QED BY <3>1, <3>2
  <2>6. ~Valid(d)
    BY <1>1, <1>2, <1>4, RefusedIsInvalid
  <2> QED BY <2>4, <2>5, <2>6 DEF Outcome, Ended
<1> QED BY <1>3, <1>4

\* Before a document is read, at the start and after OnRegisterInputConfigsChanged
Fresh ==
  /\ doc \in Documents /\ at = Start
  /\ inputs = <<>> /\ head = [d \in Drivers |-> Null]
  /\ driver = NoDriver /\ current = Null
  /\ result \in {"none", "rejected"} /\ ended = "none"

\* Nothing was read of a new document, and there are no inputs.
LEMMA FreshIsSafe == Fresh => IInv
<1> SUFFICES ASSUME Fresh PROVE IInv
  OBVIOUS
<1>1. doc \in Values
  BY DocumentIsValue DEF Fresh
<1>2. at.place = "root" /\ at.list = 0 /\ at.input = 0
  BY DEF Fresh, Start
<1>3. TypeOK
  <2>1. at \in Cursor
    BY DEF Fresh, Start, Cursor, Places
  <2>2. inputs \in Seq(InputType) /\ Len(inputs) = 0
    BY DEF Fresh
  <2>3. head \in [Drivers -> 0..MaxInputs]
    BY MaxInputsAssumption DEF Fresh, Null
  <2>4. current \in 0..Len(inputs)
    BY <2>2 DEF Fresh, Null
  <2>5. Len(inputs) <= MaxInputs
    BY <2>2, MaxInputsAssumption
  <2> QED BY <2>1, <2>2, <2>3, <2>4, <2>5 DEF TypeOK, Fresh
<1>4. ListsAreExact
  BY DEF ListsAreExact, PointsToFirst, Fresh
<1>5. InputsAreMeant
  BY DEF InputsAreMeant, Fresh
<1>6. Where(doc, at)
  BY <1>2 DEF Where
<1>7. Read(doc, at) = {}
  <2>1. ASSUME NEW p \in Positions(doc) PROVE ~(p[1] < 0 \/ (p[1] = 0 /\ p[2] <= 0))
    <3>1. p = <<p[1], p[2]>> /\ p[1] \in 1..Len(doc.members)
      BY <1>1, PositionFacts
    <3>2. Len(doc.members) \in Nat
      BY <1>1, ValueFacts
    <3> QED BY <3>1, <3>2
  <2> QED BY <1>2, <2>1 DEF Read
<1>8. Holds(doc, at, Config)
  <2>1. DOMAIN Config.inputs = {}
    BY DEF Config, Fresh
  <2>2. Match(doc, Read(doc, at), Config.inputs)
    BY <1>7, <2>1 DEF Match
  <2>3. HasDriver(doc, at, Config) /\ ~Open(at)
    BY <1>2 DEF HasDriver, Open
  <2> QED BY <2>1, <2>2, <2>3 DEF Holds
<1> QED BY <1>2, <1>3, <1>4, <1>5, <1>6, <1>8 DEF IInv

\* IInv holds at every step of every document.
THEOREM Inductive == Spec => []IInv
<1>1. Init => IInv
  BY FreshIsSafe DEF Init, Fresh
<1>0. Fresh' => IInv'
  BY FreshIsSafe, PTL
<1>2. IInv /\ [Next]_vars => IInv'
  <2> SUFFICES ASSUME IInv, [Next]_vars PROVE IInv'
    OBVIOUS
  <2>0. TypeOK /\ ListsAreExact /\ InputsAreMeant /\ doc \in Values /\ doc.type \in Container
    <3>1. TypeOK /\ ListsAreExact /\ InputsAreMeant
      BY DEF IInv
    <3> QED BY <3>1, DocumentIsValue DEF TypeOK
  <2>1. CASE OnRegisterInputConfigsChanged
    BY <1>0, <2>1 DEF OnRegisterInputConfigsChanged, Fresh
  <2> DEFINE now == [at |-> at, config |-> Config, failed |-> FALSE]
  <2>2. ASSUME result = "none"
        PROVE  /\ now.failed = FALSE /\ Good(doc, now.at, now.config) /\ now.at.place # "done"
               /\ FirstCallback = Callback(doc, now) /\ now.at = at
    <3>1. now.failed = FALSE /\ now.at = at /\ now.config = Config
      OBVIOUS
    <3>2. Good(doc, at, Config) /\ at.place # "done"
      BY <2>0, <2>2, ConfigIsTyped DEF IInv, Good, TypeOK
    <3> QED BY <3>1, <3>2 DEF FirstCallback
  <2> HIDE DEF now
  <2>3. CASE Parse
    <3>1. result = "none" /\ Continue(FirstCallback) /\ doc' = doc
      BY <2>3 DEF Parse
    <3>2. PICK t : t = Callback(doc, now) /\ t = FirstCallback
      BY <2>2, <3>1
    <3>3. Outcome(doc, t)
      BY <2>0, <2>2, <3>1, <3>2, CallbackOutcome
    <3> QED BY <2>0, <3>1, <3>2, <3>3, OutcomeIsSafe
  <2>4. CASE ParseValueAndEnd
    <3>1. /\ result = "none" /\ Continue(Callback(doc, FirstCallback)) /\ doc' = doc
          /\ EventAt(doc, at).type \in Primitive /\ EventAt(doc, FirstCallback.at).end
      BY <2>4 DEF ParseValueAndEnd
    <3>2. PICK t, u : t = Callback(doc, now) /\ t = FirstCallback /\ u = Callback(doc, t)
      BY <2>2, <3>1
    <3>3. EventAt(doc, now.at).type \in Primitive /\ EventAt(doc, t.at).end
      BY <2>2, <3>1, <3>2
    <3>4. Outcome(doc, u)
      BY <2>0, <2>2, <3>1, <3>2, <3>3, SecondCallbackOutcome
    <3> QED BY <2>0, <3>1, <3>2, <3>4, OutcomeIsSafe
  <2>5. CASE ParseError
    BY <2>0, <2>5 DEF ParseError, configVars, IInv, TypeOK, ListsAreExact, InputsAreMeant
  <2>6. CASE EndNotFound
    BY <2>0, <2>6 DEF EndNotFound, configVars, IInv, TypeOK, ListsAreExact, InputsAreMeant
  <2>7. CASE UNCHANGED vars
    BY <2>0, <2>7 DEF vars, configVars, IInv, TypeOK, ListsAreExact, InputsAreMeant, InputsAreThose, Config
  <2> QED BY <2>1, <2>3, <2>4, <2>5, <2>6, <2>7 DEF Next
<1> QED BY <1>1, <1>2, PTL DEF Spec

\* Every variable keeps its type, and all_inputs_ never holds more inputs than it
\* has room for, whatever the document.
THEOREM TypeCorrect == Spec => []TypeOK
<1>1. IInv => TypeOK
  BY DEF IInv
<1> QED BY <1>1, Inductive, PTL

\* The list of each driver is exactly its inputs, in the order of the document.
THEOREM ListsStayExact == Spec => []ListsAreExact
<1>1. IInv => ListsAreExact
  BY DEF IInv
<1> QED BY <1>1, Inductive, PTL

\* A document that is read to its end is accepted if and only if it is valid (or has
\* a bad last list), and the inputs then are what it means as a whole.
THEOREM InputsStayMeant == Spec => []InputsAreMeant
<1>1. IInv => InputsAreMeant
  BY DEF IInv
<1> QED BY <1>1, Inductive, PTL

\* InputConfigsJsonCallback never uses data->driver or data->current_input unset, and
\* applies every value to the input in whose object it stands.
THEOREM PointersStaySet == Spec => []PointersAreSet
<1>1. IInv => PointersAreSet
  <2> SUFFICES ASSUME IInv, result = "none", NEW e, e = EventAt(doc, at)
               PROVE  /\ e.pos = 3 => driver # NoDriver
                      /\ e.pos \in {5, 7} => /\ driver # NoDriver /\ current # Null
                                             /\ inputs[current].of = driver
                                             /\ inputs[current].from = <<at.list, at.input>>
    BY DEF PointersAreSet
  <2>1. /\ at \in Cursor /\ at.place # "done" /\ Where(doc, at) /\ Holds(doc, at, Config)
        /\ inputs \in Seq(InputType) /\ current \in 0..Len(inputs)
    BY DEF IInv, TypeOK
  <2>2. at.place \in {"root", "key", "list", "input", "value", "emergency"}
    BY <2>1 DEF Cursor, Places
  <2>3. EventIs(doc, at, e)
    BY EventFacts
  <2>4. /\ e.pos = 3 => at.place \in {"input", "value"}
        /\ e.pos \in {5, 7} => Open(at)
    BY <2>2, <2>3 DEF EventIs, Sees, Open
  <2>5. ASSUME at.place \in {"input", "value", "emergency"}
        PROVE  driver = ListAt(doc, at).key /\ driver # NoDriver
    <3>1. driver = ListAt(doc, at).key
      BY <2>1, <2>5 DEF Holds, HasDriver, Config
    <3>2. ListAt(doc, at).key \in Drivers
      BY <2>1, <2>5 DEF Where, InEmergency, InInput, InArray, InList
    <3> QED BY <3>1, <3>2, NamesAssumption
  <2>6. ASSUME Open(at)
        PROVE  /\ current # Null /\ inputs[current].of = driver
               /\ inputs[current].from = <<at.list, at.input>>
    <3>1. current >= 1 /\ inputs[current].from = <<at.list, at.input>>
      BY <2>1, <2>6 DEF Holds, OpenInput, Config
    <3>2. current \in DOMAIN inputs /\ current # Null
      BY <2>1, <3>1 DEF Null
    <3>3. inputs[current].of = doc.members[inputs[current].from[1]].key
      BY <2>1, <3>2 DEF Holds, Match, Config
    <3>4. at.place \in {"input", "value", "emergency"}
      BY <2>6 DEF Open
    <3> QED BY <2>5, <3>1, <3>2, <3>3, <3>4 DEF ListAt
  <2> QED BY <2>4, <2>5, <2>6 DEF Open
<1> QED BY <1>1, Inductive, PTL

=============================================================================
