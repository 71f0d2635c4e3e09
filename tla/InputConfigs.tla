---------------------------- MODULE InputConfigs ----------------------------
(***************************************************************************)
(* The register InputConfigs of the input service: a JSON document, fed     *)
(* character by character to the stream parser of lwjson, whose callbacks   *)
(* build the vector of inputs and the lists of the drivers as they come.    *)
(*                                                                         *)
(* The parser (external) is known by how InputConfigsJsonCallback reads its *)
(* stack: it calls back at the key of a driver (1), at the begin and the    *)
(* end of the root (0), of a list (2), of an input (3) and of "emergency"   *)
(* (5), and at each other value of an input (5) or of "emergency" (7). A    *)
(* string ends with its quote. A number, true, false or null ends only at   *)
(* the character after it, and when that closes the enclosing list or       *)
(* object the same call of the parser makes two callbacks.                  *)
(*                                                                         *)
(* The compressed data may end anywhere, and lwjson may refuse any          *)
(* character. What is logged is left out. The thread holds mutex_ from the  *)
(* first to the last step, so no other thread sees the inputs in between.   *)
(***************************************************************************)
EXTENDS Integers, Sequences, FiniteSets

CONSTANTS Values,     \* JSON values
          Documents,  \* the documents that may be sent
          Drivers,    \* names of the registered drivers
          Lines,      \* names that GetIoLineByName knows
          MaxInputs   \* capacity of all_inputs_ without the virtual input

Container == {"OBJECT", "ARRAY"}
Primitive == {"NUMBER", "TRUE", "FALSE", "NULL"}
Types == Container \cup Primitive \cup {"STRING"}

\* A JSON value with the key under which it stands. A string has its text in
\* str, a number its value in num, a list or object its members in members.
Node(S) == [key : STRING, type : Types, str : STRING, num : Int, members : Seq(S)]

MaxDelay == 65535       \* emergency_delay_ms is a uint16_t
EmergencyReasons == {"stop", "lift", "collision"}
Latch == "latch"
NoLine == "none"        \* gpio.line before the key "line" was read
Null == 0               \* pointers to inputs are indices of all_inputs_
NoDriver == "nullptr"

ASSUME ValuesAssumption ==
  /\ Values \subseteq Node(Values)
  /\ \A v \in Values : v.type \notin Container => v.members = <<>>
  /\ Documents \subseteq {v \in Values : v.type \in Container}
ASSUME MaxInputsAssumption == MaxInputs \in Nat
ASSUME NamesAssumption == NoLine \notin Lines /\ NoDriver \notin Drivers

VARIABLES
  doc,      \* the document
  at,       \* where the parser is in it
  inputs,   \* all_inputs_ without the virtual input
  head,     \* inputs_head_ of each driver
  driver,   \* json_data.driver
  current,  \* json_data.current_input
  result,   \* what OnRegisterInputConfigsChanged returned, "none" while it runs
  ended     \* history: why it returned

configVars == <<inputs, head, driver, current>>
vars == <<doc, at, configVars, result, ended>>

\* A new Input. History: the driver which it is added to, and where it begins
\* in the document (the list and the place in the list).
NewInput(d, p) == [of |-> d, from |-> p, invert |-> FALSE, reason |-> {}, delay |-> 0,
                   line |-> NoLine, next |-> Null]

-----------------------------------------------------------------------------
(* The callbacks that the parser makes for a document (external) *)

\* The parser stands before the root, before a key or the end of the root, before
\* a list, before an input or the end of the list, before a value or the end of
\* the input, inside "emergency", or after the root. It counts the lists, the
\* inputs of the list, the values of the input and the values inside
\* "emergency" that have begun.
Places == {"root", "key", "list", "input", "value", "emergency", "done"}
Cursor == [place : Places, list : Nat, input : Nat, value : Nat, member : Nat]
Start == [place |-> "root", list |-> 0, input |-> 0, value |-> 0, member |-> 0]

\* What a callback sees: the depth of the stack, the type of the value, whether
\* it begins or ends there, its key and the key of the object around it
Event(pos, v, parent) ==
  [pos |-> pos, type |-> v.type, end |-> FALSE, key |-> v.key, parent |-> parent,
   str |-> v.str, num |-> v.num]
KeyEvent(v) == [Event(1, v, "") EXCEPT !.type = "KEY"]
EndEvent(pos, v) == [Event(pos, v, "") EXCEPT !.end = TRUE]

\* The callback that comes next
EventAt(d, c) ==
  LET list == d.members[c.list]
      input == list.members[c.input]
      value == input.members[c.value]
  IN CASE c.place = "root" -> Event(0, d, "")
       [] c.place = "key" ->
            IF c.list < Len(d.members) THEN KeyEvent(d.members[c.list + 1]) ELSE EndEvent(0, d)
       [] c.place = "list" -> Event(2, list, "")
       [] c.place = "input" ->
            IF c.input < Len(list.members)
            THEN Event(3, list.members[c.input + 1], "") ELSE EndEvent(2, list)
       [] c.place = "value" ->
            IF c.value < Len(input.members)
            THEN Event(5, input.members[c.value + 1], "") ELSE EndEvent(3, input)
       [] c.place = "emergency" ->
            IF c.member < Len(value.members)
            THEN Event(7, value.members[c.member + 1], value.key) ELSE EndEvent(5, value)

\* Where the parser is after the callback e. (After one that returned false no
\* other follows but the end of the list or object around it.)
After(c, e) ==
  CASE e.pos = 0 -> [c EXCEPT !.place = IF e.end THEN "done" ELSE "key"]
    [] e.pos = 1 -> [c EXCEPT !.place = "list", !.list = @ + 1, !.input = 0]
    [] e.pos = 2 -> [c EXCEPT !.place = IF e.end \/ e.type \notin Container THEN "key" ELSE "input"]
    [] e.pos = 3 /\ e.end -> [c EXCEPT !.place = "input"]
    [] e.pos = 3 /\ ~e.end -> [c EXCEPT !.place = IF e.type \in Container THEN "value" ELSE @,
                                        !.input = @ + 1, !.value = 0]
    [] e.pos = 5 /\ e.end -> [c EXCEPT !.place = "value"]
    [] e.pos = 5 /\ ~e.end -> [c EXCEPT !.place = IF e.type \in Container THEN "emergency" ELSE @,
                                        !.value = @ + 1, !.member = 0]
    [] e.pos = 7 -> [c EXCEPT !.member = @ + 1]

-----------------------------------------------------------------------------
(* InputConfigsJsonCallback: what it returns, and what it does *)

\* The fields that the callback changes, as a record
Config == [inputs |-> inputs, head |-> head, driver |-> driver, current |-> current]

\* OnInputConfigValue of the drivers
OnInputConfigValue(c, e) ==
  /\ c.driver = "gpio" /\ e.type = "STRING"
  /\ \/ e.key = "line" /\ e.str \in Lines
     \/ e.key = "active" /\ e.str \in {"high", "low"}

\* Mutant of HasRoom: the place of the virtual input is counted as free
HasRoomForVirtual(c) == Len(c.inputs) <= MaxInputs

HasRoom(c) == Len(c.inputs) < MaxInputs

Returns(c, e) ==
  CASE e.pos = 0 -> e.type = "OBJECT"
    [] e.pos = 1 -> e.key \in Drivers
    [] e.pos = 2 -> e.type = "ARRAY"
    [] e.pos = 3 -> e.type = "OBJECT" /\ (e.end \/ HasRoom(c))
    [] e.pos = 5 -> \/ e.key = "invert" /\ e.type \in {"TRUE", "FALSE"}
                    \/ e.key = "emergency" /\ e.type = "OBJECT"
                    \/ e.key \notin {"invert", "emergency"} /\ OnInputConfigValue(c, e)
    [] e.pos = 7 -> /\ e.parent = "emergency"
                    /\ \/ e.key = "reason" /\ e.type = "STRING" /\ e.str \in EmergencyReasons
                       \/ e.key = "delay" /\ e.type = "NUMBER" /\ e.num \in 0..MaxDelay
                       \/ e.key = "latch" /\ e.type \in {"TRUE", "FALSE"}

\* The last input of the list in which input j is linked
LastFrom(ins) ==
  LET last[j \in DOMAIN ins] == IF ins[j].next = Null THEN j ELSE last[ins[j].next]
  IN last

\* InputDriver::AddInput: go to the end of the list of driver d
AddInput(c, d, i) ==
  IF c.head[d] = Null
  THEN [c EXCEPT !.head[d] = i]
  ELSE [c EXCEPT !.inputs[LastFrom(c.inputs)[c.head[d]]].next = i]

\* Start of an input (type OBJECT at 3)
StartInput(c, p) ==
  LET i == Len(c.inputs) + 1
  IN AddInput([c EXCEPT !.inputs = Append(@, NewInput(c.driver, p)), !.current = i], c.driver, i)

\* Mutant of EmergencyValue: a reason replaces what was there
EmergencyValueReplacing(input, e) ==
  CASE e.key = "reason" -> [input EXCEPT !.reason = {Latch, e.str}]
    [] e.key = "delay" -> [input EXCEPT !.delay = e.num]
    [] e.key = "latch" -> [input EXCEPT !.reason = IF e.type = "FALSE" THEN @ \ {Latch} ELSE @]

\* A value inside "emergency" (at 7)
EmergencyValue(input, e) ==
  CASE e.key = "reason" -> [input EXCEPT !.reason = @ \cup {e.str}]
    [] e.key = "delay" -> [input EXCEPT !.delay = e.num]
    [] e.key = "latch" -> [input EXCEPT !.reason = IF e.type = "FALSE" THEN @ \ {Latch} ELSE @]

\* A value of an input (at 5). "emergency" latches unless told otherwise.
InputValue(input, e) ==
  CASE e.key = "invert" -> [input EXCEPT !.invert = (e.type = "TRUE")]
    [] e.key = "emergency" -> IF e.end THEN input ELSE [input EXCEPT !.reason = {Latch}]
    [] e.key = "line" -> [input EXCEPT !.line = e.str]
    [] e.key = "active" -> [input EXCEPT !.invert = (e.str = "low")]

\* Mutant of Effect: the end of any object ends the input
EffectEndingAtAnyObject(c, e, p) ==
  CASE e.pos = 1 -> [c EXCEPT !.driver = e.key]
    [] e.pos = 3 /\ ~e.end -> StartInput(c, p)
    [] e.pos \in {3, 5} /\ e.end -> [c EXCEPT !.current = Null]
    [] e.pos = 5 /\ ~e.end -> [c EXCEPT !.inputs[c.current] = InputValue(@, e)]
    [] e.pos = 7 -> [c EXCEPT !.inputs[c.current] = EmergencyValue(@, e)]
    [] OTHER -> c

\* The effect of a callback that returns true; p is where an input that begins
\* stands. (One that returns false leaves the inputs as they are, but for the
\* line of an unknown name.)
Effect(c, e, p) ==
  CASE e.pos = 1 -> [c EXCEPT !.driver = e.key]
    [] e.pos = 3 /\ ~e.end -> StartInput(c, p)
    [] e.pos = 3 /\ e.end -> [c EXCEPT !.current = Null]
    [] e.pos = 5 -> [c EXCEPT !.inputs[c.current] = InputValue(@, e)]
    [] e.pos = 7 -> [c EXCEPT !.inputs[c.current] = EmergencyValue(@, e)]
    [] OTHER -> c

\* Callback: data.failed remembers that one returned false
Callback(d, s) ==
  LET e == EventAt(d, s.at)
      to == After(s.at, e)
  IN IF Returns(s.config, e)
     THEN [at |-> to, config |-> Effect(s.config, e, <<to.list, to.input>>), failed |-> s.failed]
     ELSE [at |-> to, config |-> s.config, failed |-> TRUE]

-----------------------------------------------------------------------------
(* The steps of ProcessJson *)

Init ==
  /\ doc \in Documents /\ at = Start
  /\ inputs = <<>> /\ head = [d \in Drivers |-> Null]
  /\ driver = NoDriver /\ current = Null
  /\ result = "rejected" /\ ended = "none"

\* Mutant of OnRegisterInputConfigsChanged: the lists of the drivers are kept
OnRegisterInputConfigsChangedKeepingLists ==
  /\ result # "none"
  /\ doc' \in Documents /\ at' = Start
  /\ inputs' = <<>> /\ UNCHANGED head
  /\ driver' = NoDriver /\ current' = Null
  /\ result' = "none" /\ ended' = "none"

\* A new document: the old inputs and the lists of all drivers are dropped
OnRegisterInputConfigsChanged ==
  /\ result # "none"
  /\ doc' \in Documents /\ at' = Start
  /\ inputs' = <<>> /\ head' = [d \in Drivers |-> Null]
  /\ driver' = NoDriver /\ current' = Null
  /\ result' = "none" /\ ended' = "none"

\* What ProcessJson does after a call of the parser: the end of the document
\* is looked at first
Verdict(done, failed, onlyWhitespace) ==
  CASE done /\ onlyWhitespace  -> <<"accepted", "done">>
    [] done /\ ~onlyWhitespace -> <<"rejected", "extra characters">>
    [] ~done /\ failed         -> <<"rejected", "failed">>
    [] ~done /\ ~failed        -> <<"none", "none">>

\* ProcessJson after a call of the parser that led to s
Continue(s) ==
  \E onlyWhitespace \in BOOLEAN :
    LET v == Verdict(s.at.place = "done", s.failed, onlyWhitespace)
    IN /\ at' = s.at
       /\ inputs' = s.config.inputs /\ head' = s.config.head
       /\ driver' = s.config.driver /\ current' = s.config.current
       /\ result' = v[1] /\ ended' = v[2]

FirstCallback == Callback(doc, [at |-> at, config |-> Config, failed |-> FALSE])

\* A call of lwjson_stream_parse that makes one callback
Parse ==
  /\ result = "none"
  /\ Continue(FirstCallback)
  /\ UNCHANGED doc

\* One that makes two: a value without an end of its own is ended by the end of
\* the list or object around it
ParseValueAndEnd ==
  /\ result = "none"
  /\ EventAt(doc, at).type \in Primitive /\ EventAt(doc, FirstCallback.at).end
  /\ Continue(Callback(doc, FirstCallback))
  /\ UNCHANGED doc

\* lwjson reports an error
ParseError ==
  /\ result = "none"
  /\ result' = "rejected" /\ ended' = "error"
  /\ UNCHANGED <<doc, at, configVars>>

\* The data ends before the document does: logged as failed, and true returned
EndNotFound ==
  /\ result = "none"
  /\ result' = "accepted" /\ ended' = "end not found"
  /\ UNCHANGED <<doc, at, configVars>>

Next ==
  OnRegisterInputConfigsChanged \/ Parse \/ ParseValueAndEnd \/ ParseError \/ EndNotFound

Spec == Init /\ [][Next]_vars

-----------------------------------------------------------------------------
(* What a document means, read as a whole *)

\* The member of v that decides when only the last of the given keys counts
Decides(v, keys, j) ==
  /\ v.members[j].key \in keys
  /\ \A q \in DOMAIN v.members : q > j => v.members[q].key \notin keys

Has(v, key) == \E j \in DOMAIN v.members : v.members[j].key = key

MeantPolarity(v) ==
  \E j \in DOMAIN v.members :
    /\ Decides(v, {"invert", "active"}, j)
    /\ \/ v.members[j].key = "invert" /\ v.members[j].type = "TRUE"
       \/ v.members[j].key = "active" /\ v.members[j].str = "low"

MeansLine(line, v) ==
  /\ ~Has(v, "line") => line = NoLine
  /\ \A j \in DOMAIN v.members : Decides(v, {"line"}, j) => line = v.members[j].str

\* "latch" stands for true where it is missing
ReasonOf(em) ==
  {em.members[q].str : q \in {o \in DOMAIN em.members : em.members[o].key = "reason"}}
  \cup {r \in {Latch} : ~\E q \in DOMAIN em.members :
                            em.members[q].key = "latch" /\ em.members[q].type = "FALSE"}

MeansReason(reason, v) ==
  /\ ~Has(v, "emergency") => reason = {}
  /\ \A j \in DOMAIN v.members :
       Decides(v, {"emergency"}, j) => reason = ReasonOf(v.members[j])

\* The delay is not reset by an "emergency" without one
HasDelay(a) == a.key = "emergency" /\ Has(a, "delay")
MeansDelay(delay, v) ==
  /\ (~\E j \in DOMAIN v.members : HasDelay(v.members[j])) => delay = 0
  /\ \A j \in DOMAIN v.members :
       (HasDelay(v.members[j]) /\ \A o \in DOMAIN v.members : o > j => ~HasDelay(v.members[o])) =>
         \A q \in DOMAIN v.members[j].members :
           Decides(v.members[j], {"delay"}, q) => delay = v.members[j].members[q].num

Means(input, v) ==
  /\ input.invert = MeantPolarity(v)
  /\ MeansLine(input.line, v)
  /\ MeansReason(input.reason, v)
  /\ MeansDelay(input.delay, v)

\* Where the inputs of a document stand, and the order of these places
Positions(d) ==
  UNION {{<<k, i>> : i \in DOMAIN d.members[k].members} : k \in DOMAIN d.members}
ValueOf(d, p) == d.members[p[1]].members[p[2]]
Precedes(p, q) == p[1] < q[1] \/ (p[1] = q[1] /\ p[2] < q[2])

ValidMember(a) ==
  \/ a.key = "reason" /\ a.type = "STRING" /\ a.str \in EmergencyReasons
  \/ a.key = "delay" /\ a.type = "NUMBER" /\ a.num \in 0..MaxDelay
  \/ a.key = "latch" /\ a.type \in {"TRUE", "FALSE"}

ValidEmergency(v) ==
  v.key = "emergency" /\ v.type = "OBJECT" /\ \A j \in DOMAIN v.members : ValidMember(v.members[j])

ValidValue(d, a) ==
  \/ a.key = "invert" /\ a.type \in {"TRUE", "FALSE"}
  \/ ValidEmergency(a)
  \/ /\ d = "gpio" /\ a.type = "STRING"
     /\ \/ a.key = "line" /\ a.str \in Lines
        \/ a.key = "active" /\ a.str \in {"high", "low"}

ValidInput(d, v) == v.type = "OBJECT" /\ \A j \in DOMAIN v.members : ValidValue(d, v.members[j])

ValidList(v) ==
  /\ v.key \in Drivers /\ v.type = "ARRAY"
  /\ \A j \in DOMAIN v.members : ValidInput(v.key, v.members[j])

FitsInputs(d) == Cardinality(Positions(d)) <= MaxInputs

Valid(d) ==
  d.type = "OBJECT" /\ (\A k \in DOMAIN d.members : ValidList(d.members[k])) /\ FitsInputs(d)

\* A document whose last driver has a number, true, false or null for its list.
\* The parser can report that value together with the end of the document.
BadLastList(d) ==
  /\ d.type = "OBJECT" /\ FitsInputs(d)
  /\ \E n \in DOMAIN d.members :
       /\ n = Len(d.members)
       /\ d.members[n].key \in Drivers /\ d.members[n].type \in Primitive
       /\ \A k \in 1..(n - 1) : ValidList(d.members[k])

-----------------------------------------------------------------------------
(* Properties *)

\* Every variable keeps its type, and all_inputs_ its capacity.
InputType ==
  [of : Drivers, from : Nat \X Nat, invert : BOOLEAN,
   reason : SUBSET (EmergencyReasons \cup {Latch}), delay : 0..MaxDelay,
   line : Lines \cup {NoLine}, next : 0..MaxInputs]

TypeOK ==
  /\ doc \in Documents /\ at \in Cursor
  /\ inputs \in Seq(InputType) /\ Len(inputs) <= MaxInputs
  /\ head \in [Drivers -> 0..MaxInputs]
  /\ driver \in Drivers \cup {NoDriver}
  /\ current \in 0..Len(inputs)
  /\ result \in {"none", "accepted", "rejected"}
  /\ ended \in {"none", "done", "extra characters", "failed", "error", "end not found"}

\* The callback uses data->driver and data->current_input without looking
\* whether they are set. They are at every callback that uses them, and
\* current_input is the input of the driver that the value belongs to.
PointersAreSet ==
  result = "none" =>
    LET e == EventAt(doc, at)
    IN /\ e.pos = 3 => driver # NoDriver
       /\ e.pos \in {5, 7} => /\ driver # NoDriver /\ current # Null
                              /\ inputs[current].of = driver
                              /\ inputs[current].from = <<at.list, at.input>>

\* x points to the first of the inputs S, or to none
PointsToFirst(x, S) == IF S = {} THEN x = Null ELSE x \in S /\ \A j \in S : x <= j

\* The list of a driver, as AddInput links it, is exactly the inputs that the
\* document describes for it, in their order, at any point of any document
\* after any other document: nothing of an old configuration stays linked.
ListsAreExact ==
  \A d \in Drivers :
    LET mine == {i \in DOMAIN inputs : inputs[i].of = d}
    IN /\ PointsToFirst(head[d], mine)
       /\ \A i \in mine : PointsToFirst(inputs[i].next, {j \in mine : j > i})

\* The inputs are, in the order of the document, those that it describes, each
\* for its driver and with the settings that it has there
InputsAreThose(d) ==
  /\ {inputs[n].from : n \in DOMAIN inputs} = Positions(d)
  /\ \A n \in DOMAIN inputs :
       /\ \A o \in DOMAIN inputs : o < n => Precedes(inputs[o].from, inputs[n].from)
       /\ inputs[n].of = d.members[inputs[n].from[1]].key
       /\ Means(inputs[n], ValueOf(d, inputs[n].from))

\* A document that is read to its end is accepted if and only if it is valid,
\* and the inputs then are what it means, whatever the order of the keys: the
\* callbacks of an input are applied one by one, and LATCH is set by one and
\* taken back by another. One kind of invalid document is accepted too: see
\* BadLastList.
InputsAreMeant ==
  /\ ended = "done" => (Valid(doc) \/ BadLastList(doc)) /\ InputsAreThose(doc)
  /\ ended = "failed" => ~Valid(doc)

\* What the log says of a document whose end was not found: parsing failed. A
\* document that the register accepts was read to its end.
AcceptedWasRead == result = "accepted" => at.place = "done"

=============================================================================
