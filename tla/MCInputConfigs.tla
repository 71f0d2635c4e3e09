--------------------------- MODULE MCInputConfigs ---------------------------
(* Documents for InputConfigs. *)
EXTENDS InputConfigs, SequencesExt

Value(key, type, str, num, members) ==
  [key |-> key, type |-> type, str |-> str, num |-> num, members |-> members]
Str(key, s) == Value(key, "STRING", s, 0, <<>>)
Num(key, n) == Value(key, "NUMBER", "", n, <<>>)
Bool(key, b) == Value(key, IF b THEN "TRUE" ELSE "FALSE", "", 0, <<>>)
Nil(key) == Value(key, "NULL", "", 0, <<>>)
Obj(key, ms) == Value(key, "OBJECT", "", 0, ms)
Arr(key, ms) == Value(key, "ARRAY", "", 0, ms)

\* Every order of some of the keys of "emergency", and what is not allowed
Emergencies ==
  {Obj("emergency", ms) : ms \in
     UNION {SetToAllKPermutations(S) : S \in
       {{Str("reason", "stop"), Num("delay", MaxDelay), Bool("latch", FALSE)},
        {Str("reason", "lift"), Num("delay", MaxDelay + 1)},
        {Str("reason", "wall"), Bool("latch", TRUE)},
        {Num("delay", 1), Num("delay", 2)},
        {Num("latch", 0)}, {Obj("delay", <<>>)}, {Num("speed", 1)}}}}
  \cup {Bool("emergency", TRUE)}

\* Inputs: every order of two of these values, and each "emergency" before a
\* value or another "emergency"
Attributes ==
  {Str("line", "A"), Str("line", "Z"), Str("active", "low"), Str("active", "up"),
   Bool("invert", TRUE), Bool("invert", FALSE), Nil("invert"), Arr("line", <<>>),
   Obj("emergency", <<Str("reason", "stop")>>),
   Obj("emergency", <<Bool("latch", FALSE), Str("reason", "lift")>>)}

Inputs == {Obj("", ms) : ms \in
            UNION {SetToAllKPermutations(S) : S \in kSubset(2, Attributes)}
            \cup {<<e, a>> : e \in Emergencies,
                           a \in {Str("line", "A"), Obj("emergency", <<Str("reason", "lift")>>)}}}

Good == {Obj("", <<Str("line", "A"), Obj("emergency", <<Str("reason", "stop")>>)>>),
         Obj("", <<Bool("invert", TRUE)>>)}

\* One input of each kind; lists of both drivers with up to three inputs; roots,
\* drivers and lists that are not what they should be
MCDocuments ==
  {Obj("", <<Arr(d, <<i>>)>>) : d \in {"gpio", "simulated"}, i \in Inputs}
  \cup {Obj("", <<Arr("gpio", g), Arr("simulated", s)>>) :
          g \in SeqOf(Good, 2), s \in SeqOf({Obj("", <<Bool("invert", TRUE)>>)}, 2)}
  \cup {Obj("", <<Arr("gpio", g), v>>) :
          g \in SeqOf(Good, 1),
          v \in {Num("simulated", 1), Nil("simulated"), Obj("simulated", <<>>), Arr("worx", <<>>),
                 Arr("simulated", <<Num("", 1)>>), Arr("simulated", <<Arr("", <<>>)>>)}}
  \cup {Arr("", <<>>), Obj("", <<>>)}

\* The documents and all that is inside them
MembersOf(S) == UNION {Range(v.members) : v \in S}
MCValues ==
  LET lists == MembersOf(MCDocuments)
      ins == MembersOf(lists)
      attributes == MembersOf(ins)
  IN MCDocuments \cup lists \cup ins \cup attributes \cup MembersOf(attributes)

=============================================================================
