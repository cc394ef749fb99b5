----------------------------- MODULE ReportProofs -----------------------------
(***************************************************************************)
(* What Report promises, proved for documents of every size, nesting and   *)
(* cut, and the rounding of the score for every number of tests.           *)
(***************************************************************************)
EXTENDS Report, SequenceTheorems, FiniteSetTheorems, FunctionTheorems,
        TLAPS
-----------------------------------------------------------------------------
(* What holds of the parser in the middle of a file, as a relation of the  *)
(* document d, the open elements o, those cut off k, the parser p and the  *)
(* list q of the test cases collected so far, of this file and of others.  *)

Parsers(d) ==
  [cases : Seq(Cases), suites : Seq({0} \cup DOMAIN d), current : Cases,
   capturing : BOOLEAN]

Typed(d, o, k, p, q) ==
  /\ d \in Seq(Elements)
  /\ o \in Seq(DOMAIN d)
  /\ k \subseteq DOMAIN d
  /\ p \in Parsers(d)
  /\ q \in Seq(Cases)

\* Elements come after those they are in, and every test case is in one.
Rooted(d) ==
  \A m \in DOMAIN d : /\ d[m].parent < m
                      /\ d[m].tag = "testcase" => d[m].parent \in DOMAIN d

\* The open elements are each inside the one before.
Nested(d, o) ==
  /\ \A i \in DOMAIN o :
       IF i = 1 THEN d[o[i]].tag \in MayContain("file")
       ELSE d[o[i]].tag \in MayContain(d[o[i - 1]].tag)
  /\ \A i, j \in DOMAIN o : i < j => o[i] < o[j]

\* How many of the open elements are outside the suites: testsuites, or none.
Base(d, o) == IF o # <<>> /\ d[o[1]].tag = "testsuites" THEN 1 ELSE 0

NameOf(d, n) == IF d[n].label = "name" THEN n ELSE 0

\* The stack of suites is the open testsuite elements.
Stacked(d, o, p) ==
  /\ Base(d, o) + Len(p.suites) <= Len(o)
  /\ \A i \in DOMAIN o :
       d[o[i]].tag = "testsuite"
         <=> Base(d, o) < i /\ i <= Base(d, o) + Len(p.suites)
  /\ \A j \in DOMAIN p.suites : p.suites[j] = NameOf(d, o[Base(d, o) + j])

VerdictsOf(d, n) == {m \in DOMAIN d : d[m].parent = n /\ d[m].tag \in Outcomes}

\* m is the last verdict element of test case n.
Latest(d, n, m) ==
  m \in VerdictsOf(d, n) /\ \A x \in VerdictsOf(d, n) : x <= m

\* The current test case is the open testcase element, and the parser captures
\* text only in a verdict element that has no message.
Current(d, o, p) ==
  /\ \A i \in DOMAIN o : d[o[i]].tag = "testcase" => o[i] = p.current.node
  /\ p.current = NoCase
     \/ \E i \in DOMAIN o : o[i] = p.current.node /\ d[o[i]].tag = "testcase"
  /\ o # <<>> /\ d[Last(o)].tag \in Outcomes =>
       Latest(d, p.current.node, Last(o))
  /\ p.capturing => /\ o # <<>>
                    /\ d[Last(o)].tag \in Outcomes
                    /\ d[Last(o)].label = "none"

OutcomeOf(d, c) ==
  \/ VerdictsOf(d, c.node) = {} /\ c.outcome = "passed"
  \/ \E m \in DOMAIN d : Latest(d, c.node, m) /\ c.outcome = d[m].tag

SuiteOf(d, c) ==
  c.suite = IF d[c.node].label = "classname" THEN c.node
            ELSE NameOf(d, d[c.node].parent)

MessageOf(d, c) ==
  c.message # Nowhere =>
    /\ Latest(d, c.node, c.message[1])
    /\ d[c.message[1]].label # "none" <=> c.message[2] = 0

\* Case c is what the document says of it so far.
Written(d, c) ==
  /\ c.node \in DOMAIN d
  /\ d[c.node].tag = "testcase"
  /\ OutcomeOf(d, c)
  /\ SuiteOf(d, c)
  /\ MessageOf(d, c)

\* The list has the test cases that are complete, each once and in order.
Listed(d, o, k, p, q) ==
  /\ {q[i].node : i \in DOMAIN q} =
       {n \in DOMAIN d : d[n].tag = "testcase" /\ n \notin k \cup ToSet(o)}
  /\ \A i, j \in DOMAIN q : i < j => q[i].node < q[j].node
  /\ p.current # NoCase => \A i \in DOMAIN q : q[i].node < p.current.node
  /\ ToSet(o) \cap k = {}

Faithful(d, p, q) ==
  /\ \A i \in DOMAIN q : Written(d, q[i])
  /\ p.current # NoCase => Written(d, p.current)

Good(d, o, k, p, q) ==
  /\ Typed(d, o, k, p, q)
  /\ Rooted(d)
  /\ Nested(d, o)
  /\ Stacked(d, o, p)
  /\ Current(d, o, p)
  /\ Listed(d, o, k, p, q)
  /\ Faithful(d, p, q)

-----------------------------------------------------------------------------
(* Sequences.                                                              *)

\* The last member of a sequence.
LEMMA LastMember ==
  ASSUME NEW S, NEW s \in Seq(S), s # <<>>
  PROVE  /\ Len(s) \in Nat \ {0} /\ DOMAIN s = 1..Len(s)
         /\ Len(s) \in DOMAIN s
         /\ Last(s) = s[Len(s)]
         /\ Last(s) \in S
         /\ Last(s) \in ToSet(s)
<1>1. Len(s) \in Nat \ {0} /\ DOMAIN s = 1..Len(s)
  OBVIOUS
<1>2. Len(s) \in DOMAIN s
  BY <1>1
<1>3. Last(s) = s[Len(s)]
  BY DEF Last
<1>4. QED
  BY <1>1, <1>2, <1>3 DEF ToSet

\* All but the last member of a sequence.
LEMMA FrontMembers ==
  ASSUME NEW S, NEW s \in Seq(S), s # <<>>
  PROVE  /\ Front(s) \in Seq(S)
         /\ Len(Front(s)) = Len(s) - 1
         /\ DOMAIN Front(s) = 1..(Len(s) - 1)
         /\ \A i \in DOMAIN Front(s) :
              i \in DOMAIN s /\ i < Len(s) /\ Front(s)[i] = s[i]
<1>1. Len(s) \in Nat \ {0} /\ DOMAIN s = 1..Len(s)
  OBVIOUS
<1>2. /\ Front(s) \in Seq(S)
      /\ Len(Front(s)) = Len(s) - 1
      /\ \A i \in 1..(Len(s) - 1) : Front(s)[i] = s[i]
  BY <1>1 DEF Front
<1>3. DOMAIN Front(s) = 1..(Len(s) - 1)
  BY <1>2
<1>4. QED
  BY <1>1, <1>2, <1>3

\* A sequence with one more member.
LEMMA AppendMembers ==
  ASSUME NEW S, NEW s \in Seq(S), NEW e \in S
  PROVE  /\ Append(s, e) \in Seq(S)
         /\ Append(s, e) # <<>>
         /\ Len(s) \in Nat /\ DOMAIN s = 1..Len(s)
         /\ Len(Append(s, e)) = Len(s) + 1
         /\ DOMAIN Append(s, e) = DOMAIN s \cup {Len(s) + 1}
         /\ Append(s, e)[Len(s) + 1] = e
         /\ Last(Append(s, e)) = e
         /\ \A i \in DOMAIN s : Append(s, e)[i] = s[i] /\ i < Len(s) + 1
         /\ ToSet(Append(s, e)) = ToSet(s) \cup {e}
<1>1. Len(s) \in Nat /\ DOMAIN s = 1..Len(s)
  OBVIOUS
<1>2. /\ Append(s, e) \in Seq(S)
      /\ Len(Append(s, e)) = Len(s) + 1
      /\ Append(s, e)[Len(s) + 1] = e
      /\ \A i \in DOMAIN s : Append(s, e)[i] = s[i]
  BY <1>1
<1>3. DOMAIN Append(s, e) = DOMAIN s \cup {Len(s) + 1}
  BY <1>1, <1>2
<1>4. Last(Append(s, e)) = e
  BY <1>2 DEF Last
<1>5. ToSet(Append(s, e)) = ToSet(s) \cup {e}
  BY <1>1, <1>2, <1>3 DEF ToSet
<1>6. Append(s, e) # <<>>
  BY <1>1, <1>2
<1>7. QED
  BY <1>1, <1>2, <1>3, <1>4, <1>5, <1>6

\* A sequence over a set is one over any larger set.
LEMMA WiderSeq ==
  ASSUME NEW S, NEW T, S \subseteq T, NEW s \in Seq(S)
  PROVE  s \in Seq(T)
<1>1. Len(s) \in Nat /\ s = [i \in 1..Len(s) |-> s[i]]
  OBVIOUS
<1>2. \A i \in 1..Len(s) : s[i] \in T
  OBVIOUS
<1>3. QED
  BY <1>1, <1>2

\* Appending to the second of two sequences appends to the two together.
LEMMA AppendConcat ==
  ASSUME NEW S, NEW s \in Seq(S), NEW t \in Seq(S), NEW e \in S
  PROVE  s \o Append(t, e) = Append(s \o t, e)
OBVIOUS

\* The largest member of a set is any that no other exceeds.
LEMMA MaxIs ==
  ASSUME NEW S \in SUBSET Nat, NEW m \in S, \A x \in S : x <= m
  PROVE  Max(S) = m
<1> DEFINE top(x) == x \in S /\ \A y \in S : x >= y
<1>1. top(m)
  OBVIOUS
<1>2. \A x \in Nat : top(x) => x = m
  OBVIOUS
<1>3. Max(S) = CHOOSE x \in S : \A y \in S : x >= y
  BY DEF Max
<1>4. Max(S) \in S /\ \A y \in S : Max(S) >= y
  BY <1>1, <1>3
<1>5. QED
  BY <1>2, <1>4

-----------------------------------------------------------------------------
(* Nesting.                                                                *)

\* What an element may be in.
LEMMA Placement ==
  ASSUME NEW t \in Tags \cup {"file"}, NEW c \in MayContain(t)
  PROVE  /\ c \in Tags
         /\ t = "file" => c \in {"testsuites", "testsuite"}
         /\ c = "testsuites" => t = "file"
         /\ c = "testsuite" => t \in {"file", "testsuites", "testsuite"}
         /\ c = "testcase" => t = "testsuite"
         /\ c \in Outcomes => t = "testcase"
         /\ c = "other" => t \in {"testsuite", "testcase"}
         /\ t \notin Outcomes \cup {"other"}
<1>1. t \in {"file", "testsuites", "testsuite", "testcase", "other", "failure",
             "error", "skipped"}
  BY DEF Tags, Outcomes
<1>2. QED
  BY <1>1 DEF MayContain, Tags, Outcomes

\* The place of an open element tells its tag from those around it: testsuites
\* is the outermost, a test case is in a suite, and it is the innermost or has
\* only the innermost inside.
LEMMA Places ==
  ASSUME NEW d \in Seq(Elements), NEW o \in Seq(DOMAIN d), Nested(d, o),
         NEW i \in DOMAIN o
  PROVE  /\ d[o[i]].tag \in Tags
         /\ d[o[i]].tag = "testsuites" => i = 1
         /\ i = 1 => d[o[i]].tag \in {"testsuites", "testsuite"}
         /\ i # 1 => i - 1 \in DOMAIN o
         /\ d[o[i]].tag = "testsuite" /\ i # 1 =>
              d[o[i - 1]].tag \in {"testsuites", "testsuite"}
         /\ d[o[i]].tag = "testcase" =>
              /\ i # 1 /\ d[o[i - 1]].tag = "testsuite"
              /\ i # Len(o) => /\ i + 1 = Len(o)
                               /\ d[Last(o)].tag \in Outcomes \cup {"other"}
         /\ d[o[i]].tag \in Outcomes =>
              i # 1 /\ d[o[i - 1]].tag = "testcase" /\ i = Len(o)
         /\ d[o[i]].tag = "other" =>
              /\ i # 1 /\ d[o[i - 1]].tag \in {"testsuite", "testcase"}
              /\ i = Len(o)
<1> DEFINE tag(j) == d[o[j]].tag
<1>1. Len(o) \in Nat /\ DOMAIN o = 1..Len(o) /\ Last(o) = o[Len(o)]
  BY DEF Last
<1>2. \A j \in DOMAIN o : tag(j) \in Tags
  <2>1. \A j \in DOMAIN o : o[j] \in DOMAIN d
    OBVIOUS
  <2>2. \A m \in DOMAIN d : d[m] \in Elements
    OBVIOUS
  <2>3. QED
    BY <2>1, <2>2 DEF Elements
<1>3. \A j \in DOMAIN o :
        /\ j = 1 => tag(j) \in MayContain("file")
        /\ j # 1 => j - 1 \in DOMAIN o /\ tag(j) \in MayContain(tag(j - 1))
  <2>1. \A j \in DOMAIN o :
          IF j = 1 THEN tag(j) \in MayContain("file")
          ELSE tag(j) \in MayContain(tag(j - 1))
    BY DEF Nested
  <2>2. \A j \in DOMAIN o : j # 1 => j - 1 \in DOMAIN o
    BY <1>1
  <2> HIDE DEF tag
  <2>3. QED
    BY <2>1, <2>2
<1>4. \A j \in DOMAIN o :
        /\ j = 1 => tag(j) \in {"testsuites", "testsuite"}
        /\ j # 1 => /\ j - 1 \in DOMAIN o
                    /\ tag(j) # "testsuites"
                    /\ tag(j) = "testsuite" =>
                         tag(j - 1) \in {"testsuites", "testsuite"}
                    /\ tag(j) = "testcase" => tag(j - 1) = "testsuite"
                    /\ tag(j) \in Outcomes => tag(j - 1) = "testcase"
                    /\ tag(j) = "other" =>
                         tag(j - 1) \in {"testsuite", "testcase"}
                    /\ tag(j - 1) \notin Outcomes \cup {"other"}
  <2> TAKE j \in DOMAIN o
  <2>1. CASE j = 1
    BY <1>2, <1>3, <2>1, Placement
  <2>2. CASE j # 1
    <3>1. tag(j) \in MayContain(tag(j - 1)) /\ tag(j - 1) \in Tags
      BY <1>2, <1>3, <2>2
    <3>2. "file" \notin Tags
      BY DEF Tags, Outcomes
    <3>3. PICK t, c : t = tag(j - 1) /\ c = tag(j)
      OBVIOUS
    <3>4. t \in Tags /\ c \in MayContain(t)
      BY <3>1, <3>3
    <3>5. /\ c # "testsuites"
          /\ c = "testsuite" => t \in {"testsuites", "testsuite"}
          /\ c = "testcase" => t = "testsuite"
          /\ c \in Outcomes => t = "testcase"
          /\ c = "other" => t \in {"testsuite", "testcase"}
          /\ t \notin Outcomes \cup {"other"}
      BY <3>2, <3>4, Placement
    <3>6. QED
      BY <1>3, <2>2, <3>3, <3>5
  <2>3. QED
    BY <2>1, <2>2
<1>5. \A j \in DOMAIN o : tag(j) \in Outcomes \cup {"other"} => j = Len(o)
  <2>1. \A j \in DOMAIN o :
          j # Len(o) => j + 1 \in DOMAIN o /\ j + 1 # 1 /\ (j + 1) - 1 = j
    BY <1>1
  <2>2. QED
    BY <2>1, <1>4
<1>6. \A j \in DOMAIN o :
        tag(j) = "testcase" /\ j # Len(o) =>
          j + 1 = Len(o) /\ tag(j + 1) \in Outcomes \cup {"other"}
  <2>1. \A j \in DOMAIN o :
          j # Len(o) => j + 1 \in DOMAIN o /\ j + 1 # 1 /\ (j + 1) - 1 = j
    BY <1>1
  <2>2. \A j \in DOMAIN o : j # Len(o) /\ tag(j) = "testcase" =>
          tag(j + 1) \in Outcomes \cup {"other"}
    <3> SUFFICES ASSUME NEW j \in DOMAIN o, j # Len(o), tag(j) = "testcase"
                 PROVE  tag(j + 1) \in Outcomes \cup {"other"}
      OBVIOUS
    <3>1. /\ tag(j + 1) \in Tags
          /\ tag(j + 1) \notin {"testsuites", "testsuite", "testcase"}
      BY <2>1, <1>2, <1>4
    <3>2. QED
      BY <3>1 DEF Tags, Outcomes
  <2>3. QED
    BY <2>1, <2>2, <1>5
<1>7. {"testsuites", "testsuite", "testcase", "other"} \cap Outcomes = {}
  BY DEF Outcomes
<1>8. QED
  BY <1>1, <1>2, <1>4, <1>5, <1>6, <1>7

-----------------------------------------------------------------------------
(* A start tag.                                                            *)

\* Element e may follow: it fits inside the innermost open element.
Fitting(d, o, e) ==
  /\ e \in Elements
  /\ e.label \in Labels(e.tag)
  /\ e.parent = IF o = <<>> THEN 0 ELSE Last(o)
  /\ e.tag \in MayContain(IF o = <<>> THEN "file" ELSE d[Last(o)].tag)

\* The parser has the fields it is declared with.
LEMMA ParserFields ==
  ASSUME NEW d, NEW p \in Parsers(d)
  PROVE  /\ p.cases \in Seq(Cases) /\ p.suites \in Seq({0} \cup DOMAIN d)
         /\ p.current \in Cases /\ p.current.node \in Nat
         /\ p.current.message \in Nat \X Nat
         /\ p.capturing \in BOOLEAN
         /\ Len(p.suites) \in Nat
BY DEF Parsers, Cases

\* An element of the document has the fields it is declared with.
LEMMA ElementFields ==
  ASSUME NEW d \in Seq(Elements), NEW m \in DOMAIN d
  PROVE  /\ m \in Nat \ {0} /\ m <= Len(d) /\ d[m] \in Elements
         /\ d[m].tag \in Tags /\ d[m].parent \in Nat /\ d[m].file \in Nat
         /\ d[m].pieces \in Seq(Pieces)
<1>1. m \in Nat \ {0} /\ m <= Len(d) /\ d[m] \in Elements
  OBVIOUS
<1>2. QED
  BY <1>1 DEF Elements

\* Document D and open elements O are d and o with element e added.
Widened(d, o, e, n, D, O) ==
  /\ n = Len(d) + 1 /\ n \in Nat \ {0} /\ n \notin DOMAIN d
  /\ d \in Seq(Elements) /\ o \in Seq(DOMAIN d)
  /\ D = Append(d, e) /\ O = Append(o, n)
  /\ D \in Seq(Elements)
  /\ DOMAIN D = DOMAIN d \cup {n}
  /\ D[n] = e
  /\ \A m \in DOMAIN d : D[m] = d[m] /\ m < n
  /\ O \in Seq(DOMAIN D)
  /\ O # <<>>
  /\ Len(o) \in Nat /\ DOMAIN o = 1..Len(o) /\ Len(O) = Len(o) + 1
  /\ DOMAIN O = DOMAIN o \cup {Len(O)}
  /\ O[Len(O)] = n
  /\ Last(O) = n
  /\ \A i \in DOMAIN o : O[i] = o[i] /\ i < Len(O) /\ o[i] \in DOMAIN d
  /\ ToSet(O) = ToSet(o) \cup {n}

\* That is what a start tag makes of them.
LEMMA Extended ==
  ASSUME NEW d \in Seq(Elements), NEW o \in Seq(DOMAIN d), NEW e \in Elements
  PROVE  Widened(d, o, e, Len(d) + 1, Append(d, e), Append(o, Len(d) + 1))
<1> DEFINE n == Len(d) + 1
<1>1. /\ n \in Nat \ {0} /\ n \notin DOMAIN d
      /\ Append(d, e) \in Seq(Elements)
      /\ DOMAIN Append(d, e) = DOMAIN d \cup {n}
      /\ Append(d, e)[n] = e
      /\ \A m \in DOMAIN d : Append(d, e)[m] = d[m] /\ m < n
  BY AppendMembers
<1>2. o \in Seq(DOMAIN Append(d, e)) /\ n \in DOMAIN Append(d, e)
  BY <1>1, WiderSeq
<1>3. /\ Append(o, n) \in Seq(DOMAIN Append(d, e))
      /\ Append(o, n) # <<>>
      /\ DOMAIN Append(o, n) = DOMAIN o \cup {Len(o) + 1}
      /\ Len(o) \in Nat /\ DOMAIN o = 1..Len(o)
      /\ Len(Append(o, n)) = Len(o) + 1
      /\ Append(o, n)[Len(o) + 1] = n
      /\ Last(Append(o, n)) = n
      /\ \A i \in DOMAIN o : Append(o, n)[i] = o[i] /\ i < Len(o) + 1
      /\ ToSet(Append(o, n)) = ToSet(o) \cup {n}
  BY <1>2, AppendMembers
<1>4. \A i \in DOMAIN o : o[i] \in DOMAIN d
  OBVIOUS
<1>5. QED
  BY <1>1, <1>3, <1>4 DEF Widened

\* Parser P is p after a start tag (open_element).
FieldsOf(p, n, t, l, P) ==
  /\ P = [cases |-> P.cases, suites |-> P.suites, current |-> P.current,
          capturing |-> P.capturing]
  /\ P.cases = p.cases
  /\ t \notin Outcomes => P.capturing = p.capturing
  /\ t # "testsuite" => P.suites = p.suites
  /\ t = "testsuite" =>
       P.suites = Append(p.suites, IF l = "name" THEN n ELSE 0)
  /\ t \notin Outcomes \cup {"testcase"} => P.current = p.current
  /\ t = "testcase" => P.current =
       [node |-> n, outcome |-> "passed", message |-> Nowhere,
        suite |-> IF l = "classname" THEN n
                  ELSE IF p.suites = <<>> THEN 0 ELSE Last(p.suites)]
  /\ t \in Outcomes /\ p.current # NoCase =>
       /\ P.capturing = (l = "none")
       /\ P.current =
            [p.current EXCEPT !.outcome = t,
               !.message = IF l = "none" THEN Nowhere ELSE <<n, 0>>]

\* Opened says so, field by field.
LEMMA OpenedFields ==
  ASSUME NEW d, NEW p \in Parsers(d), NEW n \in Nat \ {0}, NEW t, NEW l
  PROVE  FieldsOf(p, n, t, l, Opened(p, n, t, l))
<1> DEFINE P == Opened(p, n, t, l)
<1>1. p = [cases |-> p.cases, suites |-> p.suites, current |-> p.current,
           capturing |-> p.capturing]
  BY DEF Parsers
<1>2. "testsuite" \notin Outcomes /\ "testcase" \notin Outcomes
  BY DEF Outcomes
<1>3. CASE t = "testsuite"
  BY <1>1, <1>2, <1>3 DEF Opened, FieldsOf
<1>4. CASE t = "testcase"
  BY <1>1, <1>2, <1>4 DEF Opened, FieldsOf
<1>5. CASE t \in Outcomes
  BY <1>1, <1>2, <1>5 DEF Opened, FieldsOf
<1>6. CASE t \notin Outcomes \cup {"testsuite", "testcase"}
  BY <1>1, <1>6 DEF Opened, FieldsOf
<1>7. QED
  BY <1>3, <1>4, <1>5, <1>6

\* Element e begins: D, O and P are the document, the open elements and the
\* parser after its start tag.
Opening(d, o, k, p, q, e, n, D, O, P) ==
  /\ Good(d, o, k, p, q)
  /\ Fitting(d, o, e)
  /\ Widened(d, o, e, n, D, O)
  /\ P = Opened(p, n, e.tag, e.label)

\* Where element e, the n-th, begins.
BegunIn(d, o, e, n) ==
  /\ e.tag \in Tags /\ e.parent \in Nat /\ e.parent < n
  /\ o # <<>> => /\ Len(o) \in DOMAIN o
                 /\ Last(o) = o[Len(o)] /\ Last(o) \in DOMAIN d
                 /\ Last(o) \in ToSet(o) /\ e.parent = Last(o)
                 /\ d[Last(o)].tag \in Tags
                 /\ e.tag \in MayContain(d[Last(o)].tag)
                 /\ d[Last(o)].tag \notin Outcomes \cup {"other"}
  /\ o = <<>> => e.parent = 0 /\ e.tag \in MayContain("file")
  /\ e.tag = "testsuites" => o = <<>>
  /\ e.tag = "testsuite" =>
       o = <<>> \/ d[Last(o)].tag \in {"testsuites", "testsuite"}
  /\ e.tag = "testcase" => o # <<>> /\ d[Last(o)].tag = "testsuite"
  /\ e.tag \in Outcomes => o # <<>> /\ d[Last(o)].tag = "testcase"
  /\ e.tag = "other" =>
       o # <<>> /\ d[Last(o)].tag \in {"testsuite", "testcase"}

\* What the parser knows when it begins.
Ready(d, o, p, e) ==
  /\ p.capturing = FALSE
  /\ e.tag = "testsuites" => p.suites = <<>>
  /\ e.tag \in {"testsuite", "testcase"} =>
       Len(o) = Base(d, o) + Len(p.suites)
  /\ e.tag = "testcase" =>
       /\ p.suites # <<>> /\ Last(p.suites) = NameOf(d, Last(o))
       /\ \A i \in DOMAIN o : d[o[i]].tag # "testcase"
  /\ e.tag \in Outcomes =>
       /\ p.current.node = Last(o) /\ p.current # NoCase

\* What the parser makes of its start tag.
ParsedAs(d, o, p, e, n, D, P) ==
  /\ P.capturing = (e.tag \in Outcomes /\ e.label = "none")
  /\ P.suites = IF e.tag # "testsuite" THEN p.suites
                ELSE Append(p.suites, NameOf(D, n))
  /\ e.tag \notin Outcomes \cup {"testcase"} => P.current = p.current
  /\ e.tag = "testcase" =>
       /\ P.current.node = n /\ P.current.outcome = "passed"
       /\ P.current.message = Nowhere
       /\ P.current.suite = IF e.label = "classname" THEN n
                            ELSE NameOf(d, Last(o))
  /\ e.tag \in Outcomes =>
       /\ P.current.node = p.current.node
       /\ P.current.outcome = e.tag
       /\ P.current.suite = p.current.suite
       /\ P.current.message = IF e.label = "none" THEN Nowhere ELSE <<n, 0>>
  /\ P \in Parsers(D)
  /\ P.cases = p.cases

\* An element begins where MayContain allows it.
LEMMA BeginsIn ==
  ASSUME NEW d, NEW o, NEW k, NEW p, NEW q, NEW e, NEW n, NEW D, NEW O, NEW P,
         Opening(d, o, k, p, q, e, n, D, O, P)
  PROVE  BegunIn(d, o, e, n)
<1>1. d \in Seq(Elements) /\ o \in Seq(DOMAIN d) /\ e \in Elements
  BY DEF Opening, Good, Typed, Fitting
<1>2. e.parent = IF o = <<>> THEN 0 ELSE Last(o)
  BY DEF Opening, Fitting
<1>3. e.tag \in MayContain(IF o = <<>> THEN "file" ELSE d[Last(o)].tag)
  BY DEF Opening, Fitting
<1>4. n = Len(d) + 1 /\ \A m \in DOMAIN d : m < n
  BY DEF Opening, Widened
<1>5. /\ "file" \notin Tags
      /\ {"testsuites", "testsuite", "testcase", "other"} \cap Outcomes = {}
  BY DEF Tags, Outcomes
<1>6. Len(d) \in Nat
  BY <1>1
<1>7. CASE o = <<>>
  <2>1. e.parent = 0 /\ e.tag \in MayContain("file")
    BY <1>2, <1>3, <1>7
  <2>2. e.tag \in {"testsuites", "testsuite"} /\ e.tag \in Tags
    BY <2>1, Placement
  <2>3. QED
    BY <1>4, <1>5, <1>6, <1>7, <2>1, <2>2 DEF BegunIn
<1>8. CASE o # <<>>
  <2>1. /\ Len(o) \in DOMAIN o /\ Last(o) = o[Len(o)]
        /\ Last(o) \in DOMAIN d /\ Last(o) \in ToSet(o)
    BY <1>1, <1>8, LastMember
  <2>2. d[Last(o)].tag \in Tags
    BY <1>1, <2>1, ElementFields
  <2>3. e.parent = Last(o) /\ e.tag \in MayContain(d[Last(o)].tag)
    BY <1>2, <1>3, <1>8
  <2>4. e.parent \in Nat /\ e.parent < n
    BY <1>1, <1>4, <2>1, <2>3, ElementFields
  <2>5. PICK t, c : t = d[Last(o)].tag /\ c = e.tag
    OBVIOUS
  <2>6. /\ c \in Tags /\ c # "testsuites"
        /\ c = "testsuite" => t \in {"testsuites", "testsuite"}
        /\ c = "testcase" => t = "testsuite"
        /\ c \in Outcomes => t = "testcase"
        /\ c = "other" => t \in {"testsuite", "testcase"}
        /\ t \notin Outcomes \cup {"other"}
    BY <1>5, <2>2, <2>3, <2>5, Placement
  <2>7. QED
    BY <1>5, <1>8, <2>1, <2>2, <2>3, <2>4, <2>5, <2>6 DEF BegunIn
<1>9. QED
  BY <1>7, <1>8

\* The parser is ready for it.
LEMMA BeginsWith ==
  ASSUME NEW d, NEW o, NEW k, NEW p, NEW q, NEW e, NEW n, NEW D, NEW O, NEW P,
         Opening(d, o, k, p, q, e, n, D, O, P),
         BegunIn(d, o, e, n)
  PROVE  Ready(d, o, p, e)
<1>1. /\ d \in Seq(Elements) /\ o \in Seq(DOMAIN d) /\ p \in Parsers(d)
      /\ Nested(d, o) /\ Stacked(d, o, p) /\ Current(d, o, p)
  BY DEF Opening, Good, Typed
<1>2. {"testsuites", "testsuite", "testcase", "other"} \cap Outcomes = {}
  BY DEF Outcomes
<1>3. p.capturing = FALSE
  BY <1>1, ParserFields DEF BegunIn, Current
<1>4. /\ Len(o) \in Nat /\ DOMAIN o = 1..Len(o) /\ Len(p.suites) \in Nat
      /\ DOMAIN p.suites = 1..Len(p.suites)
      /\ o = <<>> => Len(o) = 0
      /\ p.suites = <<>> <=> Len(p.suites) = 0
  BY <1>1, ParserFields
<1>5. Base(d, o) \in {0, 1} /\ (o = <<>> => Base(d, o) = 0)
  BY DEF Base
<1>6. Base(d, o) + Len(p.suites) <= Len(o)
  BY <1>1 DEF Stacked
<1>7. e.tag = "testsuites" => p.suites = <<>>
  BY <1>4, <1>5, <1>6 DEF BegunIn
<1>8. ASSUME o # <<>>, d[Last(o)].tag = "testsuite"
      PROVE  Len(o) = Base(d, o) + Len(p.suites) /\ p.suites # <<>>
  <2>1. Len(o) \in DOMAIN o /\ d[o[Len(o)]].tag = "testsuite"
    BY <1>8 DEF BegunIn
  <2>2. Base(d, o) < Len(o) /\ Len(o) <= Base(d, o) + Len(p.suites)
    BY <1>1, <2>1 DEF Stacked
  <2>3. QED
    BY <1>4, <1>5, <1>6, <2>2
<1>9. ASSUME o # <<>>, d[Last(o)].tag = "testsuites"
      PROVE  Len(o) = Base(d, o) + Len(p.suites)
  <2>1. Len(o) \in DOMAIN o /\ d[o[Len(o)]].tag = "testsuites"
    BY <1>9 DEF BegunIn
  <2>2. Len(o) = 1
    BY <1>1, <2>1, Places
  <2>3. Base(d, o) = 1
    BY <1>9, <2>1, <2>2 DEF Base
  <2>4. QED
    BY <1>4, <1>6, <2>2, <2>3
<1>10. e.tag \in {"testsuite", "testcase"} =>
         Len(o) = Base(d, o) + Len(p.suites)
  <2>1. CASE o = <<>>
    BY <1>4, <1>5, <1>6, <2>1
  <2>2. CASE o # <<>>
    BY <1>8, <1>9, <2>2 DEF BegunIn
  <2>3. QED
    BY <2>1, <2>2
<1>11. ASSUME e.tag = "testcase"
       PROVE  /\ p.suites # <<>> /\ Last(p.suites) = NameOf(d, Last(o))
              /\ \A i \in DOMAIN o : d[o[i]].tag # "testcase"
  <2>1. /\ o # <<>> /\ d[Last(o)].tag = "testsuite" /\ Last(o) = o[Len(o)]
        /\ Len(o) = Base(d, o) + Len(p.suites) /\ p.suites # <<>>
    BY <1>8, <1>11 DEF BegunIn
  <2>2. Len(p.suites) \in DOMAIN p.suites
    BY <1>4, <2>1
  <2>3. p.suites[Len(p.suites)] = NameOf(d, o[Base(d, o) + Len(p.suites)])
    BY <1>1, <2>2 DEF Stacked
  <2>4. Last(p.suites) = NameOf(d, Last(o))
    BY <2>1, <2>3 DEF Last
  <2>5. \A i \in DOMAIN o : d[o[i]].tag # "testcase"
    BY <1>1, <1>2, <2>1, Places
  <2>6. QED
    BY <2>1, <2>4, <2>5
<1>12. ASSUME e.tag \in Outcomes
       PROVE  p.current.node = Last(o) /\ p.current # NoCase
  <2>1. /\ Len(o) \in DOMAIN o /\ Last(o) = o[Len(o)] /\ Last(o) \in DOMAIN d
        /\ d[o[Len(o)]].tag = "testcase"
    BY <1>12 DEF BegunIn
  <2>2. p.current.node = Last(o)
    BY <1>1, <2>1 DEF Current
  <2>3. NoCase.node = 0 /\ Last(o) # 0
    BY <1>1, <2>1, ElementFields DEF NoCase
  <2>4. QED
    BY <2>2, <2>3
<1>13. QED
  BY <1>3, <1>7, <1>10, <1>11, <1>12 DEF Ready

\* The parser takes the start tag in.
LEMMA OpenedParser ==
  ASSUME NEW d, NEW o, NEW k, NEW p, NEW q, NEW e, NEW n, NEW D, NEW O, NEW P,
         Opening(d, o, k, p, q, e, n, D, O, P),
         BegunIn(d, o, e, n), Ready(d, o, p, e)
  PROVE  ParsedAs(d, o, p, e, n, D, P)
<1>1. /\ d \in Seq(Elements) /\ p \in Parsers(d) /\ n \in Nat \ {0}
      /\ DOMAIN D = DOMAIN d \cup {n} /\ D[n] = e
      /\ P = Opened(p, n, e.tag, e.label)
  BY DEF Opening, Good, Typed, Widened
<1>2. PICK t, l : t = e.tag /\ l = e.label
  OBVIOUS
<1>3. /\ P = [cases |-> P.cases, suites |-> P.suites, current |-> P.current,
              capturing |-> P.capturing]
      /\ P.cases = p.cases
      /\ t \notin Outcomes => P.capturing = p.capturing
      /\ t # "testsuite" => P.suites = p.suites
      /\ t = "testsuite" =>
           P.suites = Append(p.suites, IF l = "name" THEN n ELSE 0)
      /\ t \notin Outcomes \cup {"testcase"} => P.current = p.current
      /\ t = "testcase" => P.current =
           [node |-> n, outcome |-> "passed", message |-> Nowhere,
            suite |-> IF l = "classname" THEN n
                      ELSE IF p.suites = <<>> THEN 0 ELSE Last(p.suites)]
      /\ t \in Outcomes /\ p.current # NoCase =>
           /\ P.capturing = (l = "none")
           /\ P.current =
                [p.current EXCEPT !.outcome = t,
                   !.message = IF l = "none" THEN Nowhere ELSE <<n, 0>>]
  <2>1. P = Opened(p, n, t, l)
    BY <1>1, <1>2
  <2>2. FieldsOf(p, n, t, l, Opened(p, n, t, l))
    BY <1>1, OpenedFields
  <2>3. QED
    BY <2>1, <2>2 DEF FieldsOf
<1>4. /\ p.capturing = FALSE
      /\ t = "testcase" =>
           p.suites # <<>> /\ Last(p.suites) = NameOf(d, Last(o))
      /\ t \in Outcomes => p.current # NoCase
  <2>1. /\ p.capturing = FALSE
        /\ e.tag = "testcase" =>
             p.suites # <<>> /\ Last(p.suites) = NameOf(d, Last(o))
        /\ e.tag \in Outcomes => p.current # NoCase
    BY DEF Ready
  <2>2. QED
    BY <1>2, <2>1
<1>5. /\ p.suites \in Seq({0} \cup DOMAIN D) /\ p.cases \in Seq(Cases)
      /\ p.current \in Cases
  <2>1. /\ p.suites \in Seq({0} \cup DOMAIN d) /\ p.cases \in Seq(Cases)
        /\ p.current \in Cases
    BY <1>1, ParserFields
  <2>2. {0} \cup DOMAIN d \subseteq {0} \cup DOMAIN D
    BY <1>1
  <2>3. p.suites \in Seq({0} \cup DOMAIN D)
    BY <2>1, <2>2, WiderSeq
  <2>4. QED
    BY <2>1, <2>3
<1>6. P.capturing = (t \in Outcomes /\ l = "none")
  BY <1>3, <1>4
<1>7. /\ P.suites = IF t # "testsuite" THEN p.suites
                     ELSE Append(p.suites, NameOf(D, n))
      /\ P.suites \in Seq({0} \cup DOMAIN D)
  <2>1. NameOf(D, n) = IF l = "name" THEN n ELSE 0
    BY <1>1, <1>2 DEF NameOf
  <2>2. NameOf(D, n) \in {0} \cup DOMAIN D
    BY <1>1, <2>1
  <2>3. P.suites = IF t # "testsuite" THEN p.suites
                   ELSE Append(p.suites, NameOf(D, n))
    BY <1>3, <2>1
  <2>4. QED
    BY <1>5, <2>2, <2>3
<1>8. ASSUME t = "testcase"
      PROVE  /\ P.current.node = n /\ P.current.outcome = "passed"
             /\ P.current.message = Nowhere
             /\ P.current.suite = IF l = "classname" THEN n
                                  ELSE NameOf(d, Last(o))
             /\ P.current \in Cases
  <2>1. P.current = [node |-> n, outcome |-> "passed", message |-> Nowhere,
                     suite |-> IF l = "classname" THEN n
                               ELSE NameOf(d, Last(o))]
    BY <1>3, <1>4, <1>8
  <2>2. NameOf(d, Last(o)) \in Nat
    <3>1. e.tag = "testcase" => Last(o) \in DOMAIN d
      BY DEF BegunIn
    <3>2. QED
      BY <1>1, <1>2, <1>8, <3>1, ElementFields DEF NameOf
  <2>3. QED
    BY <1>1, <2>1, <2>2 DEF Cases, Nowhere
<1>9. ASSUME t \in Outcomes
      PROVE  /\ P.current.node = p.current.node
             /\ P.current.outcome = t
             /\ P.current.suite = p.current.suite
             /\ P.current.message = IF l = "none" THEN Nowhere ELSE <<n, 0>>
             /\ P.current \in Cases
  <2>1. PICK m : m = IF l = "none" THEN Nowhere ELSE <<n, 0>>
    OBVIOUS
  <2>2. m \in Nat \X Nat
    BY <1>1, <2>1 DEF Nowhere
  <2>3. P.current = [p.current EXCEPT !.outcome = t, !.message = m]
    BY <1>3, <1>4, <1>9, <2>1
  <2>4. QED
    BY <1>5, <1>9, <2>1, <2>2, <2>3 DEF Cases
<1>10. P.current \in Cases
  BY <1>3, <1>5, <1>8, <1>9
<1>11. P \in Parsers(D)
  <2>1. P.cases \in Seq(Cases) /\ P.capturing \in BOOLEAN
    BY <1>3, <1>5, <1>6
  <2>2. QED
    BY <1>3, <1>7, <1>10, <2>1 DEF Parsers
<1>12. QED
  BY <1>2, <1>3, <1>6, <1>7, <1>8, <1>9, <1>11 DEF ParsedAs

\* A start tag keeps the shape of the state.
LEMMA OpenedShape ==
  ASSUME NEW d, NEW o, NEW k, NEW p, NEW q, NEW e, NEW n, NEW D, NEW O, NEW P,
         Opening(d, o, k, p, q, e, n, D, O, P),
         BegunIn(d, o, e, n), Ready(d, o, p, e),
         ParsedAs(d, o, p, e, n, D, P)
  PROVE  Typed(D, O, k, P, q) /\ Rooted(D) /\ Nested(D, O)
<1>1. /\ Typed(d, o, k, p, q) /\ Rooted(d) /\ Nested(d, o)
      /\ Widened(d, o, e, n, D, O)
  BY DEF Opening, Good
<1>2. Typed(D, O, k, P, q)
  BY <1>1 DEF ParsedAs, Typed, Widened
<1>3. Rooted(D)
  BY <1>1 DEF BegunIn, Rooted, Widened
<1>4. \A i \in DOMAIN O :
        IF i = 1 THEN D[O[i]].tag \in MayContain("file")
        ELSE D[O[i]].tag \in MayContain(D[O[i - 1]].tag)
  <2>1. ASSUME NEW i \in DOMAIN o
        PROVE  IF i = 1 THEN D[O[i]].tag \in MayContain("file")
               ELSE D[O[i]].tag \in MayContain(D[O[i - 1]].tag)
    <3>1. i # 1 => i - 1 \in DOMAIN o
      BY <1>1 DEF Widened
    <3>2. D[O[i]] = d[o[i]] /\ (i # 1 => D[O[i - 1]] = d[o[i - 1]])
      BY <1>1, <3>1 DEF Widened
    <3>3. QED
      BY <1>1, <3>2 DEF Nested
  <2>2. IF Len(O) = 1 THEN D[O[Len(O)]].tag \in MayContain("file")
        ELSE D[O[Len(O)]].tag \in MayContain(D[O[Len(O) - 1]].tag)
    <3>1. D[O[Len(O)]] = e
      BY <1>1 DEF Widened
    <3>2. CASE o = <<>>
      BY <1>1, <3>1, <3>2 DEF BegunIn, Widened
    <3>3. CASE o # <<>>
      <4>1. /\ Len(O) # 1 /\ Len(O) - 1 = Len(o) /\ Len(o) \in DOMAIN o
            /\ Last(o) = o[Len(o)] /\ e.tag \in MayContain(d[Last(o)].tag)
        BY <1>1, <3>3 DEF BegunIn, Widened
      <4>2. D[O[Len(O) - 1]] = d[Last(o)]
        BY <1>1, <4>1 DEF Widened
      <4>3. QED
        BY <3>1, <4>1, <4>2
    <3>4. QED
      BY <3>2, <3>3
  <2>3. QED
    BY <1>1, <2>1, <2>2 DEF Widened
<1>5. \A i, j \in DOMAIN O : i < j => O[i] < O[j]
  BY <1>1 DEF Nested, Widened
<1>6. QED
  BY <1>2, <1>3, <1>4, <1>5 DEF Nested

\* A start tag keeps the stack of suites and the current test case in line with
\* the open elements.
LEMMA OpenedStack ==
  ASSUME NEW d, NEW o, NEW k, NEW p, NEW q, NEW e, NEW n, NEW D, NEW O, NEW P,
         Opening(d, o, k, p, q, e, n, D, O, P),
         BegunIn(d, o, e, n), Ready(d, o, p, e),
         ParsedAs(d, o, p, e, n, D, P)
  PROVE  Stacked(D, O, P)
<1>1. /\ Stacked(d, o, p) /\ Widened(d, o, e, n, D, O) /\ p \in Parsers(d)
  BY DEF Opening, Good, Typed
<1>2. /\ Len(p.suites) \in Nat /\ DOMAIN p.suites = 1..Len(p.suites)
      /\ Base(d, o) \in {0, 1}
  BY <1>1, ParserFields DEF Base
<1>3. /\ Len(o) \in Nat /\ DOMAIN o = 1..Len(o) /\ Len(O) = Len(o) + 1
      /\ DOMAIN O = DOMAIN o \cup {Len(O)} /\ D[O[Len(O)]] = e
      /\ \A i \in DOMAIN o : O[i] = o[i] /\ D[O[i]] = d[o[i]]
      /\ o = <<>> <=> Len(o) = 0
  BY <1>1 DEF Widened
<1>4. \A i \in DOMAIN o : NameOf(D, O[i]) = NameOf(d, o[i])
  BY <1>3 DEF NameOf
<1>5. /\ Base(d, o) + Len(p.suites) <= Len(o)
      /\ \A i \in DOMAIN o : d[o[i]].tag = "testsuite"
           <=> Base(d, o) < i /\ i <= Base(d, o) + Len(p.suites)
      /\ \A j \in DOMAIN p.suites : p.suites[j] = NameOf(d, o[Base(d, o) + j])
  BY <1>1 DEF Stacked
<1>6. P.suites = IF e.tag # "testsuite" THEN p.suites
                  ELSE Append(p.suites, NameOf(D, n))
  BY DEF ParsedAs
<1>7. CASE e.tag = "testsuites"
  <2>1. o = <<>> /\ p.suites = <<>> /\ P.suites = <<>>
    <3>1. e.tag = "testsuites" => o = <<>>
      BY DEF BegunIn
    <3>2. e.tag = "testsuites" => p.suites = <<>>
      BY DEF Ready
    <3>3. QED
      BY <1>7, <1>6, <3>1, <3>2
  <2>2. Base(D, O) = 1 /\ Len(O) = 1
    BY <1>1, <1>3, <1>7, <2>1 DEF Base, Widened
  <2>3. Len(P.suites) = 0 /\ DOMAIN P.suites = {}
    BY <2>1
  <2>4. QED
    BY <1>3, <1>7, <2>1, <2>2, <2>3 DEF Stacked
<1>8. e.tag # "testsuites" => Base(D, O) = Base(d, o)
  <2>1. CASE o = <<>>
    BY <1>1, <1>3, <2>1 DEF Base, Widened
  <2>2. CASE o # <<>>
    <3>1. O # <<>> /\ 1 \in DOMAIN o
      BY <1>1, <1>3, <2>2 DEF Widened
    <3>2. QED
      BY <1>3, <2>2, <3>1 DEF Base
  <2>3. QED
    BY <2>1, <2>2
<1>9. CASE e.tag = "testsuite"
  <2>1. /\ P.suites = Append(p.suites, NameOf(D, n)) /\ O[Len(O)] = n
        /\ Len(o) = Base(d, o) + Len(p.suites)
    <3>1. e.tag = "testsuite" => Len(o) = Base(d, o) + Len(p.suites)
      BY DEF Ready
    <3>2. QED
      BY <1>1, <1>9, <1>6, <3>1 DEF Widened
  <2>2. /\ Len(P.suites) = Len(p.suites) + 1
        /\ DOMAIN P.suites = DOMAIN p.suites \cup {Len(p.suites) + 1}
        /\ P.suites[Len(p.suites) + 1] = NameOf(D, n)
        /\ \A j \in DOMAIN p.suites : P.suites[j] = p.suites[j]
    <3>1. /\ p.suites \in Seq({0} \cup DOMAIN D)
          /\ NameOf(D, n) \in {0} \cup DOMAIN D
      <4>1. p.suites \in Seq({0} \cup DOMAIN d)
        BY <1>1, ParserFields
      <4>2. {0} \cup DOMAIN d \subseteq {0} \cup DOMAIN D
        BY <1>1 DEF Widened
      <4>3. n \in DOMAIN D
        BY <1>1 DEF Widened
      <4>4. QED
        BY <4>1, <4>2, <4>3, WiderSeq DEF NameOf
    <3>2. QED
      BY <2>1, <3>1, AppendMembers
  <2>3. Base(D, O) + Len(P.suites) = Len(O) /\ Base(D, O) = Base(d, o)
    BY <1>2, <1>3, <1>8, <1>9, <2>1, <2>2
  <2>4. \A i \in DOMAIN O : D[O[i]].tag = "testsuite"
          <=> Base(D, O) < i /\ i <= Base(D, O) + Len(P.suites)
    BY <1>2, <1>3, <1>5, <1>9, <2>1, <2>2, <2>3
  <2>5. \A j \in DOMAIN P.suites : P.suites[j] = NameOf(D, O[Base(D, O) + j])
    <3>1. ASSUME NEW j \in DOMAIN p.suites
          PROVE  P.suites[j] = NameOf(D, O[Base(D, O) + j])
      <4>1. Base(d, o) + j \in DOMAIN o
        BY <1>2, <1>3, <2>1
      <4>2. QED
        BY <1>4, <1>5, <2>2, <2>3, <4>1
    <3>2. P.suites[Len(p.suites) + 1] =
            NameOf(D, O[Base(D, O) + (Len(p.suites) + 1)])
      BY <1>2, <1>3, <2>1, <2>2, <2>3
    <3>3. QED
      BY <2>2, <3>1, <3>2
  <2>6. QED
    BY <1>3, <2>3, <2>4, <2>5 DEF Stacked
<1>10. CASE e.tag \notin {"testsuites", "testsuite"}
  <2>1. P.suites = p.suites /\ Base(D, O) = Base(d, o)
    BY <1>8, <1>10, <1>6
  <2>2. \A i \in DOMAIN O : D[O[i]].tag = "testsuite"
          <=> Base(D, O) < i /\ i <= Base(D, O) + Len(P.suites)
    BY <1>2, <1>3, <1>5, <1>10, <2>1
  <2>3. \A j \in DOMAIN P.suites : P.suites[j] = NameOf(D, O[Base(D, O) + j])
    <3>1. \A j \in DOMAIN p.suites : Base(d, o) + j \in DOMAIN o
      BY <1>2, <1>3, <1>5
    <3>2. QED
      BY <1>4, <1>5, <2>1, <3>1
  <2>4. Base(D, O) + Len(P.suites) <= Len(O)
    BY <1>2, <1>3, <1>5, <2>1
  <2>5. QED
    BY <2>2, <2>3, <2>4 DEF Stacked
<1>11. QED
  BY <1>7, <1>9, <1>10

\* A start tag keeps the current test case in line with the open elements.
LEMMA OpenedCurrent ==
  ASSUME NEW d, NEW o, NEW k, NEW p, NEW q, NEW e, NEW n, NEW D, NEW O, NEW P,
         Opening(d, o, k, p, q, e, n, D, O, P),
         BegunIn(d, o, e, n), Ready(d, o, p, e),
         ParsedAs(d, o, p, e, n, D, P)
  PROVE  Current(D, O, P)
<1>1. /\ Rooted(d) /\ Current(d, o, p) /\ Widened(d, o, e, n, D, O)
      /\ p.current \in Cases
  BY ParserFields DEF Opening, Good, Typed
<1>2. /\ DOMAIN O = DOMAIN o \cup {Len(O)} /\ D[O[Len(O)]] = e
      /\ O[Len(O)] = n /\ Last(O) = n /\ O # <<>> /\ D[n] = e
      /\ \A i \in DOMAIN o : O[i] = o[i] /\ D[O[i]] = d[o[i]]
      /\ DOMAIN D = DOMAIN d \cup {n} /\ n \in DOMAIN D
      /\ \A m \in DOMAIN d : m < n /\ D[m] = d[m]
      /\ n \in Nat /\ DOMAIN d \subseteq Nat
  BY <1>1 DEF Widened
<1>3. \A i \in DOMAIN O : D[O[i]].tag = "testcase" => O[i] = P.current.node
  <2>1. CASE e.tag = "testcase"
    BY <1>2, <2>1 DEF Ready, ParsedAs
  <2>2. CASE e.tag # "testcase"
    <3>1. P.current.node = p.current.node
      BY <2>2 DEF ParsedAs
    <3>2. QED
      BY <1>1, <1>2, <2>2, <3>1 DEF Current
  <2>3. QED
    BY <2>1, <2>2
<1>4. P.current = NoCase
      \/ \E i \in DOMAIN O : O[i] = P.current.node /\ D[O[i]].tag = "testcase"
  <2>1. CASE e.tag = "testcase"
    BY <1>2, <2>1 DEF ParsedAs
  <2>2. CASE e.tag \in Outcomes
    <3>1. \E i \in DOMAIN o : o[i] = p.current.node /\ d[o[i]].tag = "testcase"
      BY <1>1, <2>2 DEF Current, Ready
    <3>2. P.current.node = p.current.node
      BY <2>2 DEF ParsedAs
    <3>3. QED
      BY <1>2, <3>1, <3>2
  <2>3. CASE e.tag \notin Outcomes \cup {"testcase"}
    <3>1. P.current = p.current
      BY <2>3 DEF ParsedAs
    <3>2. CASE p.current = NoCase
      BY <3>1, <3>2
    <3>3. CASE \E i \in DOMAIN o :
                 o[i] = p.current.node /\ d[o[i]].tag = "testcase"
      BY <1>2, <3>1, <3>3
    <3>4. QED
      BY <1>1, <3>2, <3>3 DEF Current
  <2>4. QED
    BY <2>1, <2>2, <2>3
<1>5. ASSUME e.tag \in Outcomes
      PROVE  Latest(D, P.current.node, n)
  <2>1. P.current.node = Last(o) /\ e.parent = Last(o)
    BY <1>5 DEF BegunIn, Ready, ParsedAs
  <2>2. n \in VerdictsOf(D, P.current.node)
    BY <1>2, <1>5, <2>1 DEF VerdictsOf
  <2>3. \A x \in VerdictsOf(D, P.current.node) : x <= n
    BY <1>2 DEF VerdictsOf
  <2>4. QED
    BY <2>2, <2>3 DEF Latest
<1>6. P.capturing => e.tag \in Outcomes /\ e.label = "none"
  BY DEF ParsedAs
<1>7. QED
  BY <1>2, <1>3, <1>4, <1>5, <1>6 DEF Current

\* A start tag completes no test case.
LEMMA OpenedList ==
  ASSUME NEW d, NEW o, NEW k, NEW p, NEW q, NEW e, NEW n, NEW D, NEW O, NEW P,
         Opening(d, o, k, p, q, e, n, D, O, P),
         BegunIn(d, o, e, n), Ready(d, o, p, e),
         ParsedAs(d, o, p, e, n, D, P)
  PROVE  Listed(D, O, k, P, q)
<1>1. /\ Listed(d, o, k, p, q) /\ Widened(d, o, e, n, D, O)
      /\ k \subseteq DOMAIN d
  BY DEF Opening, Good, Typed
<1>2. /\ DOMAIN D = DOMAIN d \cup {n} /\ n \notin DOMAIN d
      /\ \A m \in DOMAIN d : m < n /\ D[m] = d[m]
      /\ ToSet(O) = ToSet(o) \cup {n}
  BY <1>1 DEF Widened
<1>3. {q[i].node : i \in DOMAIN q} =
        {m \in DOMAIN d : d[m].tag = "testcase" /\ m \notin k \cup ToSet(o)}
  BY <1>1 DEF Listed
<1>4. {m \in DOMAIN d : d[m].tag = "testcase" /\ m \notin k \cup ToSet(o)} =
        {m \in DOMAIN D : D[m].tag = "testcase" /\ m \notin k \cup ToSet(O)}
  BY <1>2
<1>5. ASSUME P.current # NoCase, NEW i \in DOMAIN q
      PROVE  q[i].node < P.current.node
  <2>1. q[i].node \in DOMAIN d
    BY <1>3, <1>5
  <2>2. CASE e.tag = "testcase"
    BY <1>2, <2>1, <2>2 DEF ParsedAs
  <2>3. CASE e.tag # "testcase"
    <3>1. p.current # NoCase /\ P.current.node = p.current.node
      BY <1>5, <2>3 DEF ParsedAs, Ready
    <3>2. QED
      BY <1>1, <3>1 DEF Listed
  <2>4. QED
    BY <2>2, <2>3
<1>6. ToSet(O) \cap k = {}
  BY <1>1, <1>2 DEF Listed
<1>7. \A i, j \in DOMAIN q : i < j => q[i].node < q[j].node
  BY <1>1 DEF Listed
<1>8. QED
  BY <1>3, <1>4, <1>5, <1>6, <1>7 DEF Listed

\* What is read of a test case holds of a longer document that has no further
\* verdict of it.
LEMMA WrittenStill ==
  ASSUME NEW d \in Seq(Elements), NEW n, NEW D, NEW c,
         DOMAIN D = DOMAIN d \cup {n}, \A m \in DOMAIN d : D[m] = d[m],
         n \notin DOMAIN d,
         D[n].parent = c.node => D[n].tag \notin Outcomes,
         Rooted(d), Written(d, c)
  PROVE  Written(D, c)
<1>1. c.node \in DOMAIN d /\ d[c.node].tag = "testcase"
  BY DEF Written
<1>2. c.node \in DOMAIN D /\ D[c.node] = d[c.node]
  BY <1>1
<1>3. VerdictsOf(D, c.node) = VerdictsOf(d, c.node)
  BY DEF VerdictsOf
<1>4. \A m : Latest(d, c.node, m) => /\ Latest(D, c.node, m)
                                     /\ m \in DOMAIN D /\ D[m] = d[m]
  <2>1. \A m \in VerdictsOf(d, c.node) : m \in DOMAIN d
    BY DEF VerdictsOf
  <2>2. QED
    BY <1>3, <2>1 DEF Latest
<1>5. OutcomeOf(D, c)
  <2>1. CASE VerdictsOf(d, c.node) = {} /\ c.outcome = "passed"
    BY <1>3, <2>1 DEF OutcomeOf
  <2>2. CASE \E m \in DOMAIN d : Latest(d, c.node, m) /\ c.outcome = d[m].tag
    BY <1>4, <2>2 DEF OutcomeOf
  <2>3. QED
    BY <2>1, <2>2 DEF Written, OutcomeOf
<1>6. SuiteOf(D, c)
  <2>1. d[c.node].parent \in DOMAIN d
    BY <1>1 DEF Rooted
  <2>2. NameOf(D, D[c.node].parent) = NameOf(d, d[c.node].parent)
    BY <1>2, <2>1 DEF NameOf
  <2>3. QED
    BY <1>2, <2>2 DEF Written, SuiteOf
<1>7. MessageOf(D, c)
  BY <1>4 DEF Written, MessageOf
<1>8. QED
  BY <1>1, <1>2, <1>5, <1>6, <1>7 DEF Written

\* A start tag leaves every test case collected, and the current one, what the
\* document says.
LEMMA OpenedCases ==
  ASSUME NEW d, NEW o, NEW k, NEW p, NEW q, NEW e, NEW n, NEW D, NEW O, NEW P,
         Opening(d, o, k, p, q, e, n, D, O, P),
         BegunIn(d, o, e, n), Ready(d, o, p, e),
         ParsedAs(d, o, p, e, n, D, P),
         Latest(D, P.current.node, n) \/ e.tag \notin Outcomes
  PROVE  Faithful(D, P, q)
<1>1. /\ Rooted(d) /\ Listed(d, o, k, p, q) /\ Faithful(d, p, q)
      /\ Widened(d, o, e, n, D, O)
  BY DEF Opening, Good
<1>2. /\ d \in Seq(Elements) /\ n \in Nat
      /\ DOMAIN D = DOMAIN d \cup {n} /\ n \notin DOMAIN d /\ D[n] = e
      /\ \A m \in DOMAIN d : D[m] = d[m] /\ m < n
  BY <1>1 DEF Widened
<1>3. \A i \in DOMAIN q : Written(D, q[i])
  <2>1. SUFFICES ASSUME NEW i \in DOMAIN q
                 PROVE  Written(D, q[i])
    OBVIOUS
  <2>2. Written(d, q[i])
    BY <1>1 DEF Faithful
  <2>3. e.tag \in Outcomes => e.parent # q[i].node
    <3>1. q[i].node \notin ToSet(o)
      BY <1>1 DEF Listed
    <3>2. e.tag \in Outcomes => e.parent \in ToSet(o)
      BY DEF BegunIn
    <3>3. QED
      BY <3>1, <3>2
  <2>4. QED
    BY <1>1, <1>2, <2>2, <2>3, WrittenStill
<1>4. CASE e.tag = "testcase"
  <2>1. /\ P.current.node = n /\ P.current.outcome = "passed"
        /\ P.current.message = Nowhere
        /\ P.current.suite = IF e.label = "classname" THEN n
                             ELSE NameOf(d, Last(o))
    BY <1>4 DEF ParsedAs
  <2>2. VerdictsOf(D, n) = {}
    <3>1. e.parent < n /\ e.tag \notin Outcomes
      BY <1>4 DEF BegunIn, Outcomes
    <3>2. \A m \in DOMAIN d : d[m].parent # n
      BY <1>1, <1>2, ElementFields DEF Rooted
    <3>3. QED
      BY <1>2, <3>1, <3>2 DEF VerdictsOf
  <2>3. SuiteOf(D, P.current)
    <3>1. e.parent = Last(o) /\ Last(o) \in DOMAIN d
      BY <1>4 DEF BegunIn
    <3>2. NameOf(D, e.parent) = NameOf(d, Last(o))
      BY <1>2, <3>1 DEF NameOf
    <3>3. QED
      BY <1>2, <2>1, <3>2 DEF SuiteOf
  <2>4. OutcomeOf(D, P.current) /\ MessageOf(D, P.current)
    BY <2>1, <2>2 DEF OutcomeOf, MessageOf
  <2>5. Written(D, P.current)
    BY <1>2, <1>4, <2>1, <2>3, <2>4 DEF Written
  <2>6. QED
    BY <1>3, <2>5 DEF Faithful
<1>5. CASE e.tag \in Outcomes
  <2>1. /\ p.current # NoCase /\ P.current.node = p.current.node
        /\ P.current.outcome = e.tag /\ P.current.suite = p.current.suite
        /\ P.current.message = IF e.label = "none" THEN Nowhere ELSE <<n, 0>>
    BY <1>5 DEF Ready, ParsedAs
  <2>2. Written(d, p.current)
    BY <1>1, <2>1 DEF Faithful
  <2>3. /\ P.current.node \in DOMAIN D /\ D[P.current.node] = d[P.current.node]
        /\ d[P.current.node].tag = "testcase" /\ P.current.node \in DOMAIN d
    BY <1>2, <2>1, <2>2 DEF Written
  <2>4. SuiteOf(D, P.current)
    <3>1. d[P.current.node].parent \in DOMAIN d
      BY <1>1, <2>3 DEF Rooted
    <3>2. NameOf(D, D[P.current.node].parent) =
            NameOf(d, d[p.current.node].parent)
      BY <1>2, <2>1, <2>3, <3>1 DEF NameOf
    <3>3. QED
      BY <2>1, <2>2, <2>3, <3>2 DEF Written, SuiteOf
  <2>5. OutcomeOf(D, P.current)
    BY <1>2, <1>5, <2>1 DEF OutcomeOf
  <2>6. MessageOf(D, P.current)
    <3>1. P.current.message # Nowhere => /\ e.label # "none"
                                        /\ P.current.message = <<n, 0>>
      BY <2>1
    <3>2. QED
      BY <1>2, <1>5, <3>1 DEF MessageOf
  <2>7. QED
    BY <1>3, <2>3, <2>4, <2>5, <2>6 DEF Faithful, Written
<1>6. CASE e.tag \notin Outcomes \cup {"testcase"}
  <2>1. P.current = p.current
    BY <1>6 DEF ParsedAs
  <2>2. p.current # NoCase => Written(d, p.current)
    BY <1>1 DEF Faithful
  <2>3. p.current # NoCase => Written(D, p.current)
    BY <1>1, <1>2, <1>6, <2>2, WrittenStill
  <2>4. QED
    BY <1>3, <2>1, <2>3 DEF Faithful
<1>7. QED
  BY <1>4, <1>5, <1>6

\* A start tag keeps the state good (open_element).
LEMMA Opens ==
  ASSUME NEW d, NEW o, NEW k, NEW p, NEW q, NEW e,
         Good(d, o, k, p, q), Fitting(d, o, e)
  PROVE  LET n == Len(d) + 1
         IN  Good(Append(d, e), Append(o, n), k,
                  Opened(p, n, e.tag, e.label), q)
<1> DEFINE n == Len(d) + 1
           D == Append(d, e)
           O == Append(o, n)
           P == Opened(p, n, e.tag, e.label)
<1>1. Widened(d, o, e, n, D, O)
  BY Extended DEF Good, Typed, Fitting
<1> HIDE DEF n, D, O, P
<1>2. Opening(d, o, k, p, q, e, n, D, O, P)
  BY <1>1 DEF Opening, P
<1>3. BegunIn(d, o, e, n)
  BY <1>2, BeginsIn
<1>4. Ready(d, o, p, e)
  BY <1>2, <1>3, BeginsWith
<1>5. ParsedAs(d, o, p, e, n, D, P)
  BY <1>2, <1>3, <1>4, OpenedParser
<1>6. Typed(D, O, k, P, q) /\ Rooted(D) /\ Nested(D, O)
  BY <1>2, <1>3, <1>4, <1>5, OpenedShape
<1>7. Stacked(D, O, P)
  BY <1>2, <1>3, <1>4, <1>5, OpenedStack
<1>8. Current(D, O, P)
  BY <1>2, <1>3, <1>4, <1>5, OpenedCurrent
<1>9. Listed(D, O, k, P, q)
  BY <1>2, <1>3, <1>4, <1>5, OpenedList
<1>10. Faithful(D, P, q)
  <2>1. Last(O) = n /\ O # <<>> /\ D[n] = e
    BY <1>1 DEF Widened
  <2>2. Latest(D, P.current.node, n) \/ e.tag \notin Outcomes
    BY <1>8, <2>1 DEF Current
  <2>3. QED
    BY <1>2, <1>3, <1>4, <1>5, <2>2, OpenedCases
<1>11. Good(D, O, k, P, q)
  BY <1>6, <1>7, <1>8, <1>9, <1>10 DEF Good
<1>12. QED
  BY <1>11 DEF n, D, O, P

-----------------------------------------------------------------------------
(* An end tag.                                                             *)

\* The innermost element, of tag t, ends: O, P and Q are the open elements, the
\* parser and the list of test cases after its end tag.
Closing(d, o, k, p, q, t, O, P, Q) ==
  /\ Good(d, o, k, p, q)
  /\ o # <<>>
  /\ t = d[Last(o)].tag
  /\ O = Front(o)
  /\ P = Ended(p, t)
  /\ Q = IF t = "testcase" THEN Append(q, p.current) ELSE q

\* The open elements after an end tag, and what its element was.
Narrowed(d, o, t, O) ==
  /\ Last(o) = o[Len(o)] /\ Last(o) \in DOMAIN d /\ Last(o) \in ToSet(o)
  /\ Len(o) \in DOMAIN o /\ t = d[o[Len(o)]].tag /\ t \in Tags
  /\ O \in Seq(DOMAIN d)
  /\ Len(O) = Len(o) - 1
  /\ Len(o) \in Nat \ {0} /\ DOMAIN o = 1..Len(o) /\ DOMAIN O = 1..Len(O)
  /\ \A i \in DOMAIN O : i \in DOMAIN o /\ i < Len(o) /\ O[i] = o[i]
  /\ \A i \in DOMAIN o : i \in DOMAIN O \/ i = Len(o)
  /\ ToSet(O) = ToSet(o) \ {Last(o)}
  /\ \A i \in DOMAIN O : d[O[i]].tag \notin Outcomes \cup {"other"}
  /\ t \in {"testsuites", "testsuite", "testcase"} =>
       \A i \in DOMAIN O : d[O[i]].tag # "testcase"

\* What the parser makes of an end tag.
ClosedAs(d, o, p, t, P) ==
  /\ P \in Parsers(d)
  /\ P.capturing = FALSE
  /\ t = "testsuite" =>
       /\ p.suites # <<>> /\ P.suites = Front(p.suites)
       /\ Len(o) = Base(d, o) + Len(p.suites)
  /\ t # "testsuite" => P.suites = p.suites
  /\ t = "testcase" =>
       /\ p.current # NoCase /\ p.current.node = Last(o) /\ P.current = NoCase
       /\ P.cases = Append(p.cases, p.current)
  /\ t # "testcase" => P.current = p.current /\ P.cases = p.cases

\* An end tag takes away the innermost element.
LEMMA EndsIn ==
  ASSUME NEW d, NEW o, NEW k, NEW p, NEW q, NEW t, NEW O, NEW P, NEW Q,
         Closing(d, o, k, p, q, t, O, P, Q)
  PROVE  Narrowed(d, o, t, O)
<1>1. /\ d \in Seq(Elements) /\ o \in Seq(DOMAIN d) /\ o # <<>> /\ Nested(d, o)
      /\ t = d[Last(o)].tag /\ O = Front(o)
  BY DEF Closing, Good, Typed
<1>2. /\ Len(o) \in Nat \ {0} /\ DOMAIN o = 1..Len(o) /\ Len(o) \in DOMAIN o
      /\ Last(o) = o[Len(o)] /\ Last(o) \in DOMAIN d /\ Last(o) \in ToSet(o)
  BY <1>1, LastMember
<1>3. /\ O \in Seq(DOMAIN d)
      /\ Len(O) = Len(o) - 1 /\ DOMAIN O = 1..(Len(o) - 1)
      /\ \A i \in DOMAIN O : i \in DOMAIN o /\ i < Len(o) /\ O[i] = o[i]
  BY <1>1, FrontMembers
<1>4. \A i \in DOMAIN o : i \in DOMAIN O \/ i = Len(o)
  BY <1>2, <1>3
<1>5. ToSet(O) = ToSet(o) \ {Last(o)}
  <2>1. DOMAIN d \subseteq Nat
    BY <1>1
  <2>2. \A i \in DOMAIN O : O[i] # Last(o)
    <3> TAKE i \in DOMAIN O
    <3>1. O[i] = o[i] /\ i \in DOMAIN o /\ i < Len(o) /\ o[i] < o[Len(o)]
      BY <1>1, <1>2, <1>3 DEF Nested
    <3>2. o[i] \in Nat
      BY <1>1, <2>1, <3>1
    <3>3. QED
      BY <1>2, <3>1, <3>2
  <2>3. QED
    BY <1>2, <1>3, <1>4, <2>2 DEF ToSet
<1>6. t = d[o[Len(o)]].tag /\ t \in Tags
  BY <1>1, <1>2, ElementFields
<1>7. \A i \in DOMAIN O : d[O[i]].tag \notin Outcomes \cup {"other"}
  <2> TAKE i \in DOMAIN O
  <2>1. O[i] = o[i] /\ i \in DOMAIN o /\ i # Len(o)
    BY <1>2, <1>3
  <2>2. QED
    BY <1>1, <2>1, Places
<1>8. ASSUME t \in {"testsuites", "testsuite", "testcase"}, NEW i \in DOMAIN O
      PROVE  d[O[i]].tag # "testcase"
  <2>1. O[i] = o[i] /\ i \in DOMAIN o /\ i # Len(o)
    BY <1>2, <1>3
  <2>2. t \notin Outcomes \cup {"other"}
    BY <1>8 DEF Outcomes
  <2>3. QED
    BY <1>1, <2>1, <2>2, Places
<1>9. DOMAIN O = 1..Len(O)
  BY <1>3
<1>10. QED
  BY <1>2, <1>3, <1>4, <1>5, <1>6, <1>7, <1>8, <1>9 DEF Narrowed

\* The parser takes the end tag in.
LEMMA EndsAs ==
  ASSUME NEW d, NEW o, NEW k, NEW p, NEW q, NEW t, NEW O, NEW P, NEW Q,
         Closing(d, o, k, p, q, t, O, P, Q), Narrowed(d, o, t, O)
  PROVE  ClosedAs(d, o, p, t, P)
<1>1. /\ d \in Seq(Elements) /\ o \in Seq(DOMAIN d) /\ p \in Parsers(d)
      /\ Stacked(d, o, p) /\ Current(d, o, p) /\ P = Ended(p, t)
  BY DEF Closing, Good, Typed
<1>2. /\ p.cases \in Seq(Cases) /\ p.suites \in Seq({0} \cup DOMAIN d)
      /\ p.current \in Cases /\ p.capturing \in BOOLEAN /\ Len(p.suites) \in Nat
      /\ p = [cases |-> p.cases, suites |-> p.suites, current |-> p.current,
              capturing |-> p.capturing]
  BY <1>1, ParserFields DEF Parsers
<1>3. t \notin Outcomes => p.capturing = FALSE
  BY <1>1, <1>2 DEF Current, Narrowed
<1>4. {"testsuites", "testsuite", "testcase", "other"} \cap Outcomes = {}
  BY DEF Outcomes
<1>5. NoCase \in Cases /\ NoCase.node = 0
  BY DEF NoCase, Cases, Nowhere
<1>6. CASE t = "testcase"
  <2>1. p.current.node = Last(o) /\ Last(o) # 0
    BY <1>1, <1>6, ElementFields DEF Current, Narrowed
  <2>2. p.current # NoCase
    BY <1>5, <2>1
  <2>3. P = [cases |-> Append(p.cases, p.current), suites |-> p.suites,
             current |-> NoCase, capturing |-> FALSE]
    <3>1. PICK s : s = Silent(p)
      OBVIOUS
    <3>2. s = [cases |-> p.cases, suites |-> p.suites,
               current |-> p.current, capturing |-> FALSE]
      BY <1>2, <3>1 DEF Silent
    <3>3. P = Pushed(s)
      BY <1>1, <1>4, <1>6, <3>1 DEF Ended
    <3>4. Pushed(s) =
            [s EXCEPT !.cases = Append(@, s.current), !.current = NoCase]
      BY <2>2, <3>2 DEF Pushed
    <3>5. QED
      BY <3>2, <3>3, <3>4
  <2>4. P \in Parsers(d)
    BY <1>2, <1>5, <2>3 DEF Parsers
  <2>5. QED
    BY <1>6, <2>1, <2>2, <2>3, <2>4 DEF ClosedAs
<1>7. CASE t = "testsuite"
  <2>1. /\ Base(d, o) < Len(o) /\ Len(o) <= Base(d, o) + Len(p.suites)
        /\ Base(d, o) + Len(p.suites) <= Len(o)
    BY <1>1, <1>7 DEF Stacked, Narrowed
  <2>2. Base(d, o) \in {0, 1} /\ Len(o) \in Nat
    BY DEF Base, Narrowed
  <2>3. Len(o) = Base(d, o) + Len(p.suites) /\ p.suites # <<>>
    BY <1>2, <2>1, <2>2
  <2>4. P = [cases |-> p.cases, suites |-> Front(p.suites),
             current |-> p.current, capturing |-> FALSE]
    BY <1>1, <1>2, <1>3, <1>4, <1>7, <2>3 DEF Ended, Popped
  <2>5. Front(p.suites) \in Seq({0} \cup DOMAIN d)
    BY <1>2, <2>3, FrontMembers
  <2>6. P \in Parsers(d)
    BY <1>2, <2>4, <2>5 DEF Parsers
  <2>7. QED
    BY <1>7, <2>3, <2>4, <2>6 DEF ClosedAs
<1>8. CASE t \notin {"testcase", "testsuite"}
  <2>1. P = [cases |-> p.cases, suites |-> p.suites,
             current |-> p.current, capturing |-> FALSE]
    BY <1>1, <1>2, <1>3, <1>8 DEF Ended, Silent
  <2>2. P \in Parsers(d)
    BY <1>2, <2>1 DEF Parsers
  <2>3. QED
    BY <1>8, <2>1, <2>2 DEF ClosedAs
<1>9. QED
  BY <1>6, <1>7, <1>8

\* An end tag keeps the shape of the state and the stack of suites.
LEMMA ClosedShape ==
  ASSUME NEW d, NEW o, NEW k, NEW p, NEW q, NEW t, NEW O, NEW P, NEW Q,
         Closing(d, o, k, p, q, t, O, P, Q), Narrowed(d, o, t, O),
         ClosedAs(d, o, p, t, P)
  PROVE  Typed(d, O, k, P, Q) /\ Rooted(d) /\ Nested(d, O) /\ Stacked(d, O, P)
<1>1. /\ Typed(d, o, k, p, q) /\ Rooted(d) /\ Nested(d, o) /\ Stacked(d, o, p)
      /\ Q = IF t = "testcase" THEN Append(q, p.current) ELSE q
      /\ p.current \in Cases /\ Len(p.suites) \in Nat
      /\ p.suites \in Seq({0} \cup DOMAIN d)
  BY ParserFields DEF Closing, Good, Typed
<1>2. Typed(d, O, k, P, Q)
  <2>1. Q \in Seq(Cases)
    BY <1>1 DEF Typed
  <2>2. QED
    BY <1>1, <2>1 DEF Typed, Narrowed, ClosedAs
<1>3. Nested(d, O)
  <2>1. \A i \in DOMAIN O : i # 1 => i - 1 \in DOMAIN O
    BY DEF Narrowed
  <2>2. QED
    BY <1>1, <2>1 DEF Nested, Narrowed
<1>4. DOMAIN p.suites = 1..Len(p.suites) /\ Base(d, o) \in {0, 1}
  BY <1>1 DEF Base
<1>5. CASE O = <<>>
  <2>1. Len(O) = 0 /\ DOMAIN O = {} /\ Base(d, O) = 0
    BY <1>5 DEF Base
  <2>2. Len(o) = 1
    BY <2>1 DEF Narrowed
  <2>3. P.suites = <<>>
    <3>1. CASE t = "testsuite"
      <4>1. p.suites # <<>> /\ P.suites = Front(p.suites)
        BY <3>1 DEF ClosedAs
      <4>2. 1 = Base(d, o) + Len(p.suites)
        BY <2>2, <3>1 DEF ClosedAs
      <4>3. Len(p.suites) # 0
        BY <1>1, <4>1
      <4>4. Len(p.suites) = 1
        <5>1. PICK b \in {0, 1}, l \in Nat : b = Base(d, o) /\ l = Len(p.suites)
          BY <1>1, <1>4
        <5>2. 1 = b + l /\ l # 0
          BY <4>2, <4>3, <5>1
        <5>3. l = 1
          BY ONLY <5>2, b \in {0, 1}, l \in Nat
        <5>4. QED
          BY <5>1, <5>3
      <4>5. QED
        BY <4>1, <4>4 DEF Front
    <3>2. CASE t # "testsuite"
      <4>1. ~ (Base(d, o) < 1 /\ 1 <= Base(d, o) + Len(p.suites))
        BY <1>1, <2>2, <3>2 DEF Stacked, Narrowed
      <4>2. Base(d, o) + Len(p.suites) <= 1
        BY <1>1, <2>2 DEF Stacked
      <4>3. Len(p.suites) = 0
        BY <1>1, <1>4, <4>1, <4>2
      <4>4. QED
        BY <1>1, <3>2, <4>3 DEF ClosedAs
    <3>3. QED
      BY <3>1, <3>2
  <2>4. QED
    BY <1>1, <1>2, <1>3, <2>1, <2>3 DEF Stacked
<1>6. CASE O # <<>>
  <2>1. Len(o) > 1 /\ 1 \in DOMAIN O /\ o # <<>>
    BY <1>6 DEF Narrowed
  <2>2. Base(d, O) = Base(d, o)
    BY <1>6, <2>1 DEF Base, Narrowed
  <2>3. \A i \in DOMAIN o : d[o[i]].tag = "testsuite"
           <=> Base(d, o) < i /\ i <= Base(d, o) + Len(p.suites)
    BY <1>1 DEF Stacked
  <2>4. \A j \in DOMAIN p.suites : p.suites[j] = NameOf(d, o[Base(d, o) + j])
    BY <1>1 DEF Stacked
  <2>5. CASE t = "testsuite"
    <3>1. /\ Len(P.suites) = Len(p.suites) - 1
          /\ DOMAIN P.suites = 1..(Len(p.suites) - 1)
          /\ \A j \in DOMAIN P.suites : P.suites[j] = p.suites[j]
          /\ Len(o) = Base(d, o) + Len(p.suites)
      BY <1>1, <2>5, FrontMembers DEF ClosedAs
    <3>2. Base(d, O) + Len(P.suites) = Len(O)
      BY <1>1, <1>4, <2>2, <3>1 DEF Narrowed
    <3>3. \A i \in DOMAIN O : d[O[i]].tag = "testsuite"
            <=> Base(d, O) < i /\ i <= Base(d, O) + Len(P.suites)
      BY <1>1, <1>4, <2>2, <2>3, <3>1, <3>2 DEF Narrowed
    <3>4. \A j \in DOMAIN P.suites : P.suites[j] = NameOf(d, O[Base(d, O) + j])
      <4> TAKE j \in DOMAIN P.suites
      <4>1. j \in DOMAIN p.suites /\ Base(d, o) + j \in DOMAIN O
        BY <1>1, <1>4, <3>1 DEF Narrowed
      <4>2. QED
        BY <2>2, <2>4, <3>1, <4>1 DEF Narrowed
    <3>5. QED
      BY <1>1, <1>2, <1>3, <3>2, <3>3, <3>4 DEF Stacked, Narrowed
  <2>6. CASE t # "testsuite"
    <3>1. P.suites = p.suites
      BY <2>6 DEF ClosedAs
    <3>2. ~ (Base(d, o) < Len(o) /\ Len(o) <= Base(d, o) + Len(p.suites))
      BY <2>3, <2>6 DEF Narrowed
    <3>3. Base(d, O) + Len(P.suites) <= Len(O)
      <4>1. Base(d, o) < Len(o) /\ Len(o) \in Nat /\ Len(O) = Len(o) - 1
        BY <1>4, <2>1 DEF Narrowed
      <4>2. QED
        BY <1>1, <1>4, <2>2, <3>1, <3>2, <4>1
    <3>4. \A i \in DOMAIN O : d[O[i]].tag = "testsuite"
            <=> Base(d, O) < i /\ i <= Base(d, O) + Len(P.suites)
      BY <2>2, <2>3, <3>1 DEF Narrowed
    <3>5. \A j \in DOMAIN P.suites : P.suites[j] = NameOf(d, O[Base(d, O) + j])
      <4> TAKE j \in DOMAIN P.suites
      <4>1. Base(d, o) + j \in DOMAIN O
        BY <1>1, <1>4, <2>2, <3>1, <3>3 DEF Narrowed
      <4>2. QED
        BY <2>2, <2>4, <3>1, <4>1 DEF Narrowed
    <3>6. QED
      BY <1>1, <1>2, <1>3, <3>3, <3>4, <3>5 DEF Stacked
  <2>7. QED
    BY <2>5, <2>6
<1>7. QED
  BY <1>5, <1>6

\* An end tag keeps the current test case in line with the open elements.
LEMMA ClosedCurrent ==
  ASSUME NEW d, NEW o, NEW k, NEW p, NEW q, NEW t, NEW O, NEW P, NEW Q,
         Closing(d, o, k, p, q, t, O, P, Q), Narrowed(d, o, t, O),
         ClosedAs(d, o, p, t, P)
  PROVE  Current(d, O, P)
<1>1. Current(d, o, p)
  BY DEF Closing, Good
<1>2. \A i \in DOMAIN O : d[O[i]].tag = "testcase" => O[i] = P.current.node
  <2>1. CASE t = "testcase"
    BY <2>1 DEF Narrowed
  <2>2. CASE t # "testcase"
    BY <1>1, <2>2 DEF Current, Narrowed, ClosedAs
  <2>3. QED
    BY <2>1, <2>2
<1>3. P.current = NoCase
      \/ \E i \in DOMAIN O : O[i] = P.current.node /\ d[O[i]].tag = "testcase"
  <2>1. CASE t = "testcase"
    BY <2>1 DEF ClosedAs
  <2>2. CASE t # "testcase"
    <3>1. P.current = p.current
      BY <2>2 DEF ClosedAs
    <3>2. ASSUME NEW i \in DOMAIN o, d[o[i]].tag = "testcase"
          PROVE  i \in DOMAIN O /\ O[i] = o[i]
      BY <2>2, <3>2 DEF Narrowed
    <3>3. QED
      BY <1>1, <3>1, <3>2 DEF Current
  <2>3. QED
    BY <2>1, <2>2
<1>4. O # <<>> => d[Last(O)].tag \notin Outcomes
  BY LastMember DEF Narrowed
<1>5. P.capturing = FALSE
  BY DEF ClosedAs
<1>6. QED
  BY <1>2, <1>3, <1>4, <1>5 DEF Current

\* The end tag of a test case adds it to the list, any other adds nothing.
LEMMA ClosedList ==
  ASSUME NEW d, NEW o, NEW k, NEW p, NEW q, NEW t, NEW O, NEW P, NEW Q,
         Closing(d, o, k, p, q, t, O, P, Q), Narrowed(d, o, t, O),
         ClosedAs(d, o, p, t, P)
  PROVE  Listed(d, O, k, P, Q) /\ Faithful(d, P, Q)
<1>1. /\ Listed(d, o, k, p, q) /\ Faithful(d, p, q) /\ q \in Seq(Cases)
      /\ p.current \in Cases
      /\ Q = IF t = "testcase" THEN Append(q, p.current) ELSE q
  BY ParserFields DEF Closing, Good, Typed
<1>2. ToSet(O) = ToSet(o) \ {Last(o)} /\ Last(o) \in ToSet(o)
  BY DEF Narrowed
<1>3. Last(o) \in DOMAIN d /\ d[Last(o)].tag = t
  BY DEF Narrowed
<1>4. /\ {q[i].node : i \in DOMAIN q} =
           {m \in DOMAIN d : d[m].tag = "testcase" /\ m \notin k \cup ToSet(o)}
      /\ \A i, j \in DOMAIN q : i < j => q[i].node < q[j].node
      /\ p.current # NoCase => \A i \in DOMAIN q : q[i].node < p.current.node
      /\ ToSet(o) \cap k = {}
  BY <1>1 DEF Listed
<1>5. ToSet(O) \cap k = {}
  BY <1>2, <1>4
<1>6. CASE t = "testcase"
  <2>1. /\ p.current # NoCase /\ p.current.node = Last(o) /\ P.current = NoCase
    BY <1>6 DEF ClosedAs
  <2>2. /\ Len(q) \in Nat /\ DOMAIN q = 1..Len(q)
        /\ DOMAIN Q = DOMAIN q \cup {Len(q) + 1}
        /\ Q[Len(q) + 1] = p.current
        /\ \A i \in DOMAIN q : Q[i] = q[i] /\ i < Len(q) + 1
    BY <1>1, <1>6, AppendMembers
  <2>3. {Q[i].node : i \in DOMAIN Q} =
          {q[i].node : i \in DOMAIN q} \cup {Last(o)}
    BY <2>1, <2>2
  <2>4. {m \in DOMAIN d : d[m].tag = "testcase" /\ m \notin k \cup ToSet(O)} =
        {m \in DOMAIN d : d[m].tag = "testcase" /\ m \notin k \cup ToSet(o)}
          \cup {Last(o)}
    BY <1>2, <1>3, <1>4, <1>6
  <2>5. \A i, j \in DOMAIN Q : i < j => Q[i].node < Q[j].node
    <3> SUFFICES ASSUME NEW i \in DOMAIN Q, NEW j \in DOMAIN Q, i < j
                 PROVE  Q[i].node < Q[j].node
      OBVIOUS
    <3>1. i \in DOMAIN q
      BY <2>2
    <3>2. CASE j \in DOMAIN q
      BY <1>4, <2>2, <3>1, <3>2
    <3>3. CASE j = Len(q) + 1
      BY <1>4, <2>1, <2>2, <3>1, <3>3
    <3>4. QED
      BY <2>2, <3>2, <3>3
  <2>6. Written(d, p.current)
    BY <1>1, <2>1 DEF Faithful
  <2>7. \A i \in DOMAIN Q : Written(d, Q[i])
    BY <1>1, <2>2, <2>6 DEF Faithful
  <2>8. QED
    BY <1>4, <1>5, <2>1, <2>3, <2>4, <2>5, <2>7 DEF Listed, Faithful
<1>7. CASE t # "testcase"
  <2>1. P.current = p.current /\ Q = q
    BY <1>1, <1>7 DEF ClosedAs
  <2>2. {m \in DOMAIN d : d[m].tag = "testcase" /\ m \notin k \cup ToSet(O)} =
        {m \in DOMAIN d : d[m].tag = "testcase" /\ m \notin k \cup ToSet(o)}
    BY <1>2, <1>3, <1>7
  <2>3. QED
    BY <1>1, <1>4, <1>5, <2>1, <2>2 DEF Listed, Faithful
<1>8. QED
  BY <1>6, <1>7

\* An end tag keeps the state good (Event::End).
LEMMA Closes ==
  ASSUME NEW d, NEW o, NEW k, NEW p, NEW q, Good(d, o, k, p, q), o # <<>>
  PROVE  LET t == d[Last(o)].tag
             Q == IF t = "testcase" THEN Append(q, p.current) ELSE q
         IN  /\ Good(d, Front(o), k, Ended(p, t), Q)
             /\ Ended(p, t).cases = IF t = "testcase"
                                    THEN Append(p.cases, p.current) ELSE p.cases
<1> DEFINE t == d[Last(o)].tag
           Q == IF t = "testcase" THEN Append(q, p.current) ELSE q
           O == Front(o)
           P == Ended(p, t)
<1>1. Closing(d, o, k, p, q, t, O, P, Q)
  BY DEF Closing
<1> HIDE DEF t, Q, O, P
<1>2. Narrowed(d, o, t, O)
  BY <1>1, EndsIn
<1>3. ClosedAs(d, o, p, t, P)
  BY <1>1, <1>2, EndsAs
<1>4. Typed(d, O, k, P, Q) /\ Rooted(d) /\ Nested(d, O) /\ Stacked(d, O, P)
  BY <1>1, <1>2, <1>3, ClosedShape
<1>5. Current(d, O, P)
  BY <1>1, <1>2, <1>3, ClosedCurrent
<1>6. Listed(d, O, k, P, Q) /\ Faithful(d, P, Q)
  BY <1>1, <1>2, <1>3, ClosedList
<1>7. Good(d, O, k, P, Q)
  BY <1>4, <1>5, <1>6 DEF Good
<1>8. P.cases = IF t = "testcase" THEN Append(p.cases, p.current) ELSE p.cases
  BY <1>3 DEF ClosedAs
<1>9. QED
  BY <1>7, <1>8 DEF t, Q, O, P

\* A start tag that closes itself keeps the state good, since the parser
\* captures text only between the tags of a verdict element (Event::Empty).
LEMMA OpensAndCloses ==
  ASSUME NEW d, NEW o, NEW k, NEW p, NEW q, NEW e,
         Good(d, o, k, p, q), Fitting(d, o, e)
  PROVE  LET P == Opened(p, Len(d) + 1, e.tag, e.label)
             Q == IF e.tag = "testcase" THEN Append(q, P.current) ELSE q
         IN  /\ Good(Append(d, e), o, k, EndedEmpty(P, e.tag), Q)
             /\ EndedEmpty(P, e.tag).cases =
                  IF e.tag = "testcase" THEN Append(P.cases, P.current)
                  ELSE P.cases
<1> DEFINE n == Len(d) + 1
           D == Append(d, e)
           O == Append(o, n)
           P == Opened(p, n, e.tag, e.label)
           Q == IF e.tag = "testcase" THEN Append(q, P.current) ELSE q
<1>1. Good(D, O, k, P, q)
  BY Opens
<1>2. Widened(d, o, e, n, D, O)
  BY Extended DEF Good, Typed, Fitting
<1>3. o \in Seq(DOMAIN D) /\ n \in DOMAIN D
  <2>1. DOMAIN d \subseteq DOMAIN D /\ o \in Seq(DOMAIN d) /\ n \in DOMAIN D
    BY <1>2 DEF Widened
  <2>2. QED
    BY <2>1, WiderSeq
<1>4. Front(O) = o
  BY <1>3 DEF Front
<1> HIDE DEF n, D, O, P
<1>5. O # <<>> /\ Last(O) = n /\ D[n] = e
  BY <1>2 DEF Widened
<1>6. D[Last(O)].tag = e.tag
  BY <1>5
<1>7. /\ Good(D, o, k, Ended(P, e.tag), Q)
      /\ Ended(P, e.tag).cases = IF e.tag = "testcase"
                                 THEN Append(P.cases, P.current) ELSE P.cases
  <2>1. /\ Good(D, Front(O), k, Ended(P, D[Last(O)].tag),
                IF D[Last(O)].tag = "testcase" THEN Append(q, P.current) ELSE q)
        /\ Ended(P, D[Last(O)].tag).cases =
             IF D[Last(O)].tag = "testcase"
             THEN Append(P.cases, P.current) ELSE P.cases
    BY <1>1, <1>5, Closes
  <2>2. QED
    BY <1>4, <1>6, <2>1
<1>8. EndedEmpty(P, e.tag) = Ended(P, e.tag)
  <2>1. P \in Parsers(D) /\ (e.tag \notin Outcomes => P.capturing = FALSE)
    BY <1>1, <1>6, ParserFields DEF Good, Typed, Current
  <2>2. P.capturing = FALSE => Silent(P) = P
    BY <2>1 DEF Silent, Parsers
  <2>3. e.tag \notin Outcomes => Silent(P) = P
    BY <2>1, <2>2
  <2>4. "testcase" \notin Outcomes /\ "testsuite" \notin Outcomes
    BY DEF Outcomes
  <2>5. QED
    BY <2>3, <2>4 DEF EndedEmpty, Ended
<1>9. QED
  BY <1>7, <1>8 DEF n, D, O, P

-----------------------------------------------------------------------------
(* Text, and the end of a file.                                            *)

\* Parser P is p after a piece of text at a place.
HeardAs(d, p, place, P) ==
  /\ P \in Parsers(d)
  /\ P.suites = p.suites /\ P.cases = p.cases
  /\ P.current.node = p.current.node
  /\ P.current.outcome = p.current.outcome
  /\ P.current.suite = p.current.suite
  /\ P.current = NoCase <=> p.current = NoCase
  /\ P.capturing => p.capturing
  /\ \/ P.current.message = p.current.message
     \/ p.capturing /\ P.current.message = place

\* Text changes no more than the message of the current test case.
LEMMA HearsAs ==
  ASSUME NEW d, NEW p \in Parsers(d), NEW place \in Nat \X Nat, NEW piece,
         p.current.node # 0 \/ p.current = NoCase
  PROVE  HeardAs(d, p, place, Heard(p, place, piece))
<1> DEFINE P == Heard(p, place, piece)
<1>1. /\ p.cases \in Seq(Cases) /\ p.suites \in Seq({0} \cup DOMAIN d)
      /\ p.current \in Cases /\ p.capturing \in BOOLEAN
      /\ p = [cases |-> p.cases, suites |-> p.suites, current |-> p.current,
              capturing |-> p.capturing]
  BY ParserFields DEF Parsers
<1>2. CASE P = p
  BY <1>2 DEF HeardAs
<1>3. CASE P = Silent(p)
  <2>1. P = [cases |-> p.cases, suites |-> p.suites, current |-> p.current,
             capturing |-> FALSE]
    BY <1>1, <1>3 DEF Silent
  <2>2. P \in Parsers(d)
    BY <1>1, <2>1 DEF Parsers
  <2>3. QED
    BY <2>1, <2>2 DEF HeardAs
<1>4. CASE /\ P = [Silent(p) EXCEPT !.current.message = place]
           /\ p.capturing /\ p.current # NoCase
  <2>1. PICK c : c = [p.current EXCEPT !.message = place]
    OBVIOUS
  <2>2. /\ c \in Cases /\ c.node = p.current.node
        /\ c.outcome = p.current.outcome /\ c.suite = p.current.suite
        /\ c.message = place
    BY <1>1, <2>1 DEF Cases
  <2>3. P = [cases |-> p.cases, suites |-> p.suites, current |-> c,
             capturing |-> FALSE]
    BY <1>1, <1>4, <2>1 DEF Silent
  <2>4. P \in Parsers(d)
    BY <1>1, <2>2, <2>3 DEF Parsers
  <2>5. c # NoCase
    BY <1>4, <2>2 DEF NoCase
  <2>6. QED
    BY <1>4, <2>2, <2>3, <2>4, <2>5 DEF HeardAs
<1>5. QED
  BY <1>2, <1>3, <1>4 DEF Heard

\* A document in which an element has other pieces of text.
Reworded(d, D) ==
  /\ d \in Seq(Elements) /\ D \in Seq(Elements)
  /\ DOMAIN D = DOMAIN d
  /\ \A m \in DOMAIN d : /\ D[m].tag = d[m].tag /\ D[m].label = d[m].label
                         /\ D[m].parent = d[m].parent

\* What the document says of a test case does not depend on them.
LEMMA WrittenAnyway ==
  ASSUME NEW d, NEW D, Reworded(d, D), Rooted(d), NEW c, Written(d, c)
  PROVE  Written(D, c)
<1>1. /\ DOMAIN D = DOMAIN d
      /\ \A m \in DOMAIN d : /\ D[m].tag = d[m].tag /\ D[m].label = d[m].label
                             /\ D[m].parent = d[m].parent
  BY DEF Reworded
<1>2. c.node \in DOMAIN d /\ d[c.node].tag = "testcase"
  BY DEF Written
<1>3. VerdictsOf(D, c.node) = VerdictsOf(d, c.node)
  BY <1>1 DEF VerdictsOf
<1>4. \A m : Latest(d, c.node, m) => Latest(D, c.node, m) /\ m \in DOMAIN d
  BY <1>3 DEF Latest, VerdictsOf
<1>5. OutcomeOf(D, c)
  <2>1. CASE VerdictsOf(d, c.node) = {} /\ c.outcome = "passed"
    BY <1>3, <2>1 DEF OutcomeOf
  <2>2. CASE \E m \in DOMAIN d : Latest(d, c.node, m) /\ c.outcome = d[m].tag
    BY <1>1, <1>4, <2>2 DEF OutcomeOf
  <2>3. QED
    BY <2>1, <2>2 DEF Written, OutcomeOf
<1>6. SuiteOf(D, c)
  <2>1. d[c.node].parent \in DOMAIN d
    BY <1>2 DEF Rooted
  <2>2. NameOf(D, D[c.node].parent) = NameOf(d, d[c.node].parent)
    BY <1>1, <1>2, <2>1 DEF NameOf
  <2>3. QED
    BY <1>1, <1>2, <2>2 DEF Written, SuiteOf
<1>7. MessageOf(D, c)
  BY <1>1, <1>4 DEF Written, MessageOf
<1>8. QED
  BY <1>1, <1>2, <1>5, <1>6, <1>7 DEF Written

\* Element n has other pieces of text.
Worded(d, n, pieces) == [d EXCEPT ![n].pieces = pieces]

\* The state is good after piece j of the text of the innermost element.
GoodAfter(d, o, k, p, q, pieces, j, piece) ==
  LET n == Last(o)
      P == Heard(p, <<n, j>>, piece)
  IN  Good(Worded(d, n, pieces), o, k, P, q) /\ P.cases = p.cases

\* Text keeps the state good (Event::Text, Event::CData).
LEMMA Hears ==
  ASSUME NEW d, NEW o, NEW k, NEW p, NEW q, Good(d, o, k, p, q), o # <<>>,
         NEW pieces \in Seq(Pieces), NEW j \in Nat \ {0}, NEW piece
  PROVE  GoodAfter(d, o, k, p, q, pieces, j, piece)
<1> DEFINE n == Last(o)
           place == <<n, j>>
           P == Heard(p, place, piece)
           D == Worded(d, n, pieces)
<1>1. /\ Typed(d, o, k, p, q) /\ Rooted(d) /\ Nested(d, o) /\ Stacked(d, o, p)
      /\ Current(d, o, p) /\ Listed(d, o, k, p, q) /\ Faithful(d, p, q)
  BY DEF Good
<1>2. /\ d \in Seq(Elements) /\ o \in Seq(DOMAIN d) /\ p \in Parsers(d)
      /\ DOMAIN d \subseteq Nat \ {0}
  BY <1>1 DEF Typed
<1>3. /\ n \in DOMAIN d /\ Len(o) \in DOMAIN o /\ n = o[Len(o)]
      /\ place \in Nat \X Nat
  BY <1>2, LastMember
<1>4. Reworded(d, D)
  <2>1. \A m \in DOMAIN d : d[m] \in Elements
    BY <1>2
  <2>2. /\ DOMAIN D = DOMAIN d
        /\ \A m \in DOMAIN d :
             D[m] = IF m = n THEN [d[n] EXCEPT !.pieces = pieces] ELSE d[m]
    BY <1>2, <1>3 DEF Worded
  <2>3. [d[n] EXCEPT !.pieces = pieces] \in Elements
    BY <1>3, <2>1 DEF Elements
  <2>4. /\ [d[n] EXCEPT !.pieces = pieces].tag = d[n].tag
        /\ [d[n] EXCEPT !.pieces = pieces].label = d[n].label
        /\ [d[n] EXCEPT !.pieces = pieces].parent = d[n].parent
    BY <1>3, <2>1 DEF Elements
  <2>5. D \in Seq(Elements)
    BY <1>2, <1>3, <2>3 DEF Worded
  <2>6. QED
    BY <1>2, <2>2, <2>4, <2>5 DEF Reworded
<1>5. HeardAs(d, p, place, P)
  <2>1. p.current.node # 0 \/ p.current = NoCase
    BY <1>1, <1>2 DEF Current
  <2>2. QED
    BY <1>2, <1>3, <2>1, HearsAs
<1> HIDE DEF P, D, place, n
<1>6. /\ DOMAIN D = DOMAIN d
      /\ \A m \in DOMAIN d : /\ D[m].tag = d[m].tag /\ D[m].label = d[m].label
                             /\ D[m].parent = d[m].parent
      /\ \A i \in DOMAIN o : o[i] \in DOMAIN d /\ D[o[i]].tag = d[o[i]].tag
  BY <1>2, <1>4 DEF Reworded
<1>7. Typed(D, o, k, P, q)
  <2>1. Parsers(D) = Parsers(d)
    BY <1>6 DEF Parsers
  <2>2. QED
    BY <1>1, <1>4, <1>5, <1>6, <2>1 DEF Typed, Reworded, HeardAs
<1>8. Rooted(D)
  BY <1>1, <1>6 DEF Rooted
<1>9. Nested(D, o)
  <2>1. \A i \in DOMAIN o : i # 1 => i - 1 \in DOMAIN o
    BY <1>2
  <2>2. QED
    BY <1>1, <1>6, <2>1 DEF Nested
<1>10. Stacked(D, o, P)
  <2>1. 1 \in DOMAIN o
    BY <1>2, <1>3
  <2>2. Base(D, o) = Base(d, o)
    BY <1>6, <2>1 DEF Base
  <2>3. \A i \in DOMAIN p.suites : Base(d, o) + i \in DOMAIN o
    <3>1. /\ Len(p.suites) \in Nat /\ DOMAIN p.suites = 1..Len(p.suites)
          /\ Base(d, o) \in {0, 1} /\ DOMAIN o = 1..Len(o) /\ Len(o) \in Nat
      BY <1>2, ParserFields DEF Base
    <3>2. Base(d, o) + Len(p.suites) <= Len(o)
      BY <1>1 DEF Stacked
    <3>3. QED
      BY <3>1, <3>2
  <2>4. \A i \in DOMAIN p.suites :
          NameOf(D, o[Base(d, o) + i]) = NameOf(d, o[Base(d, o) + i])
    BY <1>6, <2>3 DEF NameOf
  <2>5. P.suites = p.suites
    BY <1>5 DEF HeardAs
  <2>6. QED
    BY <1>1, <1>6, <2>2, <2>4, <2>5 DEF Stacked
<1>11. \A x, m : Latest(d, x, m) <=> Latest(D, x, m)
  BY <1>6 DEF Latest, VerdictsOf
<1>12. Current(D, o, P)
  BY <1>1, <1>3, <1>5, <1>6, <1>11 DEF Current, HeardAs, n
<1>13. Listed(D, o, k, P, q)
  BY <1>1, <1>5, <1>6 DEF Listed, HeardAs
<1>14. Faithful(D, P, q)
  <2>1. \A i \in DOMAIN q : Written(D, q[i])
    BY <1>1, <1>4, WrittenAnyway DEF Faithful
  <2>2. ASSUME P.current # NoCase
        PROVE  Written(D, P.current)
    <3>1. p.current # NoCase /\ Written(d, p.current)
      BY <1>1, <1>5, <2>2 DEF HeardAs, Faithful
    <3>2. Written(D, p.current)
      BY <1>1, <1>4, <3>1, WrittenAnyway
    <3>3. /\ P.current.node = p.current.node
          /\ P.current.outcome = p.current.outcome
          /\ P.current.suite = p.current.suite
      BY <1>5 DEF HeardAs
    <3>4. MessageOf(D, P.current)
      <4>1. CASE P.current.message = p.current.message
        BY <3>2, <3>3, <4>1 DEF Written, MessageOf
      <4>2. CASE p.capturing /\ P.current.message = place
        <5>1. /\ Latest(D, P.current.node, n) /\ D[n].label = "none"
          BY <1>1, <1>3, <1>6, <1>11, <3>3, <4>2 DEF Current, n
        <5>2. place[1] = n /\ place[2] = j
          BY DEF place
        <5>3. QED
          BY <4>2, <5>1, <5>2 DEF MessageOf
      <4>3. QED
        BY <1>5, <4>1, <4>2 DEF HeardAs
    <3>5. QED
      BY <3>2, <3>3, <3>4 DEF Written, OutcomeOf, SuiteOf
  <2>3. QED
    BY <2>1, <2>2 DEF Faithful
<1>15. Good(D, o, k, P, q) /\ P.cases = p.cases
  BY <1>5, <1>7, <1>8, <1>9, <1>10, <1>12, <1>13, <1>14 DEF Good, HeardAs
<1>16. QED
  BY <1>15 DEF P, D, place, n, GoodAfter

\* The end of a file keeps the state good, inside open elements too
\* (Event::Eof).
LEMMA Cuts ==
  ASSUME NEW d, NEW o, NEW k, NEW p, NEW q, Good(d, o, k, p, q)
  PROVE  Good(d, <<>>, k \cup ToSet(o), NewParser, q)
<1>1. /\ Typed(d, o, k, p, q) /\ Rooted(d) /\ Listed(d, o, k, p, q)
      /\ Faithful(d, p, q)
  BY DEF Good
<1>2. ToSet(o) \subseteq DOMAIN d /\ ToSet(<<>>) = {}
  BY <1>1 DEF Typed, ToSet
<1>3. NoCase \in Cases
  BY DEF NoCase, Cases, Nowhere
<1>4. NewParser \in Parsers(d)
  BY <1>3 DEF NewParser, Parsers
<1>5. /\ NewParser.current = NoCase /\ NewParser.suites = <<>>
      /\ NewParser.capturing = FALSE
  BY DEF NewParser
<1>6. Typed(d, <<>>, k \cup ToSet(o), NewParser, q)
  BY <1>1, <1>2, <1>4 DEF Typed
<1>7. /\ Nested(d, <<>>) /\ Stacked(d, <<>>, NewParser)
      /\ Current(d, <<>>, NewParser)
  BY <1>5 DEF Nested, Stacked, Current, Base
<1>8. Listed(d, <<>>, k \cup ToSet(o), NewParser, q)
  BY <1>1, <1>2, <1>5 DEF Listed
<1>9. Faithful(d, NewParser, q)
  BY <1>1, <1>5 DEF Faithful
<1>10. QED
  BY <1>1, <1>6, <1>7, <1>8, <1>9 DEF Good

-----------------------------------------------------------------------------
(* The score.                                                              *)

\* What \div is by comparison with multiples of the divisor.
LEMMA Quotient ==
  ASSUME NEW a \in Nat, NEW b \in Nat \ {0}, NEW q \in Nat,
         b * q <= a, a < b * (q + 1)
  PROVE  a \div b = q
OBVIOUS

\* The quotient lies between those multiples.
LEMMA Division ==
  ASSUME NEW a \in Nat, NEW b \in Nat \ {0}
  PROVE  a \div b \in Nat /\ b * (a \div b) <= a /\ a < b * (a \div b + 1)
OBVIOUS

\* The score is a quotient unless nothing is graded.
LEMMA ScoreQuotient ==
  ASSUME NEW passed \in Nat, NEW gradable \in Nat \ {0}
  PROVE  /\ 2 * 10000 * passed + gradable \in Nat
         /\ 2 * gradable \in Nat \ {0}
         /\ Score(passed, gradable) =
              (2 * 10000 * passed + gradable) \div (2 * gradable)
<1>1. gradable # 0
  OBVIOUS
<1>2. Score(passed, gradable) =
        (2 * 10000 * passed + gradable) \div (2 * gradable)
  BY <1>1 DEF Score
<1>3. QED
  BY <1>2

\* A score is between 0.00 and 100.00 (ResponsePayload::graded).
THEOREM ScoreInRange ==
  ASSUME NEW passed \in Nat, NEW gradable \in Nat, passed <= gradable
  PROVE  Score(passed, gradable) \in Nat /\ Score(passed, gradable) <= 10000
<1>1. CASE gradable = 0
  BY <1>1 DEF Score
<1>2. CASE gradable # 0
  <2>1. PICK a \in Nat, b \in Nat \ {0} :
          /\ a = 2 * 10000 * passed + gradable
          /\ b = 2 * gradable
          /\ Score(passed, gradable) = a \div b
    BY <1>2, ScoreQuotient
  <2>2. PICK q \in Nat : q = Score(passed, gradable) /\ b * q <= a
    BY <2>1, Division
  <2>3. a < b * 10001
    BY <1>2, <2>1
  <2>4. q <= 10000
    <3>1. ASSUME q > 10000 PROVE b * 10001 <= b * q
      BY <3>1
    <3>2. ASSUME b * 10001 <= b * q PROVE FALSE
      BY <2>2, <2>3, <3>2
    <3>3. QED
      BY <3>1, <3>2
  <2>5. q = Score(passed, gradable)
    BY <2>2
  <2>6. QED
    BY <2>4, <2>5
<1>3. QED
  BY <1>1, <1>2

\* Below 20000 graded tests the score of ResponsePayload::graded and its status
\* agree, whatever the counts are: 100.00 is a pass, and 0.00 means that no
\* test passed.
THEOREM ScoreTellsVerdict ==
  ASSUME NEW passed \in Nat, NEW failed \in Nat, passed + failed < 20000
  PROVE  LET score == Score(passed, passed + failed)
         IN  /\ score = 10000 <=> Verdict(passed, failed) = "passed"
             /\ score = 0 <=> passed = 0
<1>1. CASE passed + failed = 0
  BY <1>1 DEF Score, Verdict
<1>2. CASE passed + failed # 0
  <2>1. PICK g \in Nat \ {0} : g = passed + failed
    BY <1>2
  <2>2. PICK a \in Nat, b \in Nat \ {0} :
          /\ a = 2 * 10000 * passed + g
          /\ b = 2 * g
          /\ Score(passed, g) = a \div b
    BY ScoreQuotient
  <2>3. a \div b = 10000 <=> failed = 0
    <3>1. CASE failed = 0
      <4>1. b * 10000 <= a /\ a < b * (10000 + 1)
        BY <2>1, <2>2, <3>1
      <4>2. QED
        BY <3>1, <4>1, Quotient
    <3>2. CASE failed > 0
      <4>1. a < b * 10000
        BY <2>1, <2>2, <3>2
      <4>2. QED
        BY <3>2, <4>1, Division
    <3>3. QED
      BY <3>1, <3>2
  <2>4. a \div b = 0 <=> passed = 0
    <3>1. CASE passed = 0
      <4>1. b * 0 <= a /\ a < b * (0 + 1)
        BY <2>1, <2>2, <3>1
      <4>2. QED
        BY <3>1, <4>1, Quotient
    <3>2. CASE passed > 0
      <4>1. a >= b
        BY <2>1, <2>2, <3>2
      <4>2. QED
        BY <3>2, <4>1, Division
    <3>3. QED
      BY <3>1, <3>2
  <2>5. Verdict(passed, failed) = "passed" <=> failed = 0
    BY <1>2 DEF Verdict
  <2>6. QED
    BY <2>1, <2>2, <2>3, <2>4, <2>5
<1>3. QED
  BY <1>1, <1>2

\* The bound is exact: from 20000 graded tests on, one failure is rounded away,
\* and ResponsePayload::graded gives 100.00 to a run that only partially passed.
THEOREM ScoreHidesOneFailure ==
  ASSUME NEW gradable \in Nat, gradable >= 20000
  PROVE  /\ Score(gradable - 1, gradable) = 10000
         /\ Verdict(gradable - 1, 1) = "partially_passed"
<1> DEFINE a == 2 * 10000 * (gradable - 1) + gradable
           b == 2 * gradable
<1>1. a \in Nat /\ b \in Nat \ {0} /\ b * 10000 <= a /\ a < b * (10000 + 1)
  OBVIOUS
<1>2. a \div b = 10000
  BY <1>1, Quotient
<1>3. Score(gradable - 1, gradable) = 10000
  BY <1>2 DEF Score
<1>4. Verdict(gradable - 1, 1) = "partially_passed"
  BY DEF Verdict
<1>5. QED
  BY <1>3, <1>4

-----------------------------------------------------------------------------
(* The result.                                                             *)

\* The counts of a list of test cases are numbers.
LEMMA Counts ==
  ASSUME NEW list \in Seq(Cases), NEW outcomes
  PROVE  Count(list, outcomes) \in Nat
<1> DEFINE S == {i \in DOMAIN list : list[i].outcome \in outcomes}
<1>1. Len(list) \in Nat /\ DOMAIN list = 1..Len(list)
  OBVIOUS
<1>2. IsFiniteSet(1..Len(list))
  BY <1>1, FS_Interval
<1>3. IsFiniteSet(S)
  BY <1>1, <1>2, FS_Subset
<1>4. QED
  BY <1>3, FS_CardinalityType DEF Count

\* What is sent of a list of test cases (ResponsePayload::graded).
LEMMA ResultOf ==
  ASSUME NEW list \in Seq(Cases), NEW other \in OtherReports
  PROVE  LET r == Result(list, other)
         IN  /\ r.passed = Count(list, {"passed"}) + other.passed
             /\ r.skipped = Count(list, {"skipped"}) + other.skipped
             /\ r.failed = Count(list, {"failure", "error"}) + other.failed
             /\ r.passed \in Nat /\ r.failed \in Nat /\ r.skipped \in Nat
             /\ r.total = r.passed + r.failed + r.skipped
             /\ r.detail <= MaxDetail
             /\ r.status = Verdict(r.passed, r.failed)
             /\ r.score = Score(r.passed, r.passed + r.failed)
<1> DEFINE passed  == Count(list, {"passed"}) + other.passed
           skipped == Count(list, {"skipped"}) + other.skipped
           failed  == Count(list, {"failure", "error"}) + other.failed
           total   == passed + failed + skipped
<1>1. other.passed \in Nat /\ other.failed \in Nat /\ other.skipped \in Nat
  BY ReportAssumption
<1>2. passed \in Nat /\ skipped \in Nat /\ failed \in Nat
  BY <1>1, Counts
<1>3. total \in Nat
  BY <1>2
<1>4. Trimmed(total) <= MaxDetail
  BY <1>3, ReportAssumption DEF Trimmed
<1>5. Result(list, other) =
        [status |-> Verdict(passed, failed), total |-> total,
         passed |-> passed, failed |-> failed, skipped |-> skipped,
         score |-> Score(passed, passed + failed), detail |-> Trimmed(total)]
  BY DEF Result, Graded, Gradable
<1> HIDE DEF passed, skipped, failed, total
<1>6. QED
  BY <1>2, <1>4, <1>5 DEF passed, skipped, failed, total

\* The score of any counts is in range.
LEMMA ScoreOfCounts ==
  ASSUME NEW r, r.passed \in Nat, r.failed \in Nat,
         r.score = Score(r.passed, r.passed + r.failed)
  PROVE  r.score \in Nat /\ r.score <= 10000
<1>1. PICK passed \in Nat, gradable \in Nat :
        passed = r.passed /\ gradable = r.passed + r.failed
  OBVIOUS
<1>2. passed <= gradable
  BY <1>1
<1>3. Score(passed, gradable) \in Nat /\ Score(passed, gradable) <= 10000
  BY <1>2, ScoreInRange
<1>4. QED
  BY <1>1, <1>3

\* The status and the score of a result are as TypeOK says.
LEMMA ResultTyped ==
  ASSUME NEW list \in Seq(Cases), NEW other \in OtherReports
  PROVE  /\ Result(list, other).status \in
              {"passed", "partially_passed", "failed"}
         /\ Result(list, other).score \in Nat
         /\ Result(list, other).score <= 10000
<1>1. PICK r : r = Result(list, other)
  OBVIOUS
<1>2. /\ r.passed \in Nat /\ r.failed \in Nat
      /\ r.status = Verdict(r.passed, r.failed)
      /\ r.score = Score(r.passed, r.passed + r.failed)
  BY <1>1, ResultOf
<1>3. r.status \in {"passed", "partially_passed", "failed"}
  BY <1>2 DEF Verdict
<1>4. r.score \in Nat /\ r.score <= 10000
  BY <1>2, ScoreOfCounts
<1>5. QED
  BY <1>1, <1>3, <1>4

-----------------------------------------------------------------------------
(* The specification.                                                      *)

\* What holds of the files read so far.
Reading ==
  /\ all \in Seq(Cases)
  /\ Good(doc, open, cut, parser, all \o parser.cases)
  /\ step = "next" => open = <<>> /\ parser = NewParser
  /\ step = "done" /\ payload.status # "run_failed" =>
       open = <<>> /\ parser = NewParser

\* The counts are those of the list, which Reading ties to the document.
CountsOfList ==
  step = "done" /\ payload.status # "run_failed" =>
    \E other \in OtherReports :
      /\ payload.passed = Count(all, {"passed"}) + other.passed
      /\ payload.skipped = Count(all, {"skipped"}) + other.skipped
      /\ payload.failed = Count(all, {"failure", "error"}) + other.failed
      /\ payload.total = payload.passed + payload.failed + payload.skipped
      /\ payload.detail <= MaxDetail

\* What holds of the numbers.
Numbers ==
  /\ step \in {"next", "parse", "done"}
  /\ files \in 0..MaxFiles
  /\ Len(doc) <= MaxElements
  /\ payload.status \in
       {"none", "passed", "partially_passed", "failed", "run_failed"}
  /\ payload.score \in Nat /\ payload.score <= 10000
  /\ CountsOfList
  /\ ScoreAgrees

IInv == Reading /\ Numbers

\* The initial state is good.
LEMMA InitInv == Init => IInv
<1> SUFFICES ASSUME Init PROVE IInv
  OBVIOUS
<1>1. /\ step = "next" /\ files = 0 /\ doc = <<>> /\ open = <<>> /\ cut = {}
      /\ parser = NewParser /\ all = <<>> /\ payload = NoPayload
  BY DEF Init
<1>2. NoCase \in Cases
  BY DEF NoCase, Cases, Nowhere
<1>3. /\ NewParser.cases = <<>> /\ NewParser.suites = <<>>
      /\ NewParser.current = NoCase /\ NewParser.capturing = FALSE
      /\ NewParser \in Parsers(<<>>)
  BY <1>2 DEF NewParser, Parsers
<1>4. all \o parser.cases = <<>>
  BY <1>1, <1>3
<1>5. Typed(<<>>, <<>>, {}, NewParser, <<>>)
  BY <1>3 DEF Typed
<1>6. Rooted(<<>>) /\ Nested(<<>>, <<>>)
  BY DEF Rooted, Nested
<1>7. Stacked(<<>>, <<>>, NewParser) /\ Current(<<>>, <<>>, NewParser)
  BY <1>3 DEF Stacked, Current, Base
<1>8. Listed(<<>>, <<>>, {}, NewParser, <<>>) /\ Faithful(<<>>, NewParser, <<>>)
  BY <1>3 DEF Listed, Faithful, ToSet
<1>9. Reading
  BY <1>1, <1>4, <1>5, <1>6, <1>7, <1>8 DEF Reading, Good
<1>10. Numbers
  BY <1>1, ReportAssumption DEF Numbers, CountsOfList, ScoreAgrees, NoPayload
<1>11. QED
  BY <1>9, <1>10 DEF IInv

\* A run that failed gets no result, and keeps what was read.
LEMMA FailInv ==
  ASSUME IInv, Fail
  PROVE  IInv'
<1>1. /\ step' = "done" /\ payload' = [NoPayload EXCEPT !.status = "run_failed"]
      /\ files' = files /\ doc' = doc /\ open' = open /\ cut' = cut
      /\ parser' = parser /\ all' = all
  BY DEF Fail, document
<1>2. Reading'
  BY <1>1 DEF IInv, Reading
<1>3. /\ payload'.status = "run_failed" /\ payload'.score = 0
      /\ payload'.passed = 0 /\ payload'.failed = 0
  BY <1>1 DEF NoPayload
<1>4. CountsOfList'
  BY <1>3 DEF CountsOfList
<1>5. ScoreAgrees'
  BY <1>3 DEF ScoreAgrees
<1>6. Numbers'
  BY <1>1, <1>3, <1>4, <1>5 DEF IInv, Numbers
<1>7. QED
  BY <1>2, <1>6 DEF IInv

\* Before the end there is no result.
LEMMA NoNumbers ==
  ASSUME Numbers, step' \in {"next", "parse"}, files' \in 0..MaxFiles,
         payload' = payload, Len(doc') <= MaxElements
  PROVE  Numbers'
BY DEF Numbers, CountsOfList, ScoreAgrees

\* The next file starts with a parser of its own (collect_reports).
LEMMA ReadFileInv ==
  ASSUME IInv, ReadFile
  PROVE  IInv'
<1>1. CASE Fail
  BY <1>1, FailInv
<1>2. CASE /\ files' = files + 1
           /\ step' = "parse"
           /\ UNCHANGED <<document, parser, all, payload>>
  <2>1. /\ doc' = doc /\ open' = open /\ cut' = cut
        /\ parser' = parser /\ all' = all /\ payload' = payload
    BY <1>2 DEF document
  <2>2. Reading'
    BY <1>2, <2>1 DEF IInv, Reading
  <2>3. files' \in 0..MaxFiles
    BY <1>2, ReportAssumption DEF ReadFile, IInv, Numbers
  <2>4. Numbers'
    BY <1>2, <2>1, <2>3, NoNumbers DEF IInv, Numbers
  <2>5. QED
    BY <2>2, <2>4 DEF IInv
<1>3. QED
  BY <1>1, <1>2 DEF ReadFile

\* A start tag, or one that closes itself, adds an element that fits.
LEMMA ElementInv ==
  ASSUME IInv, NEW tag \in Tags, NEW label \in Labels(tag),
         NEW empty \in BOOLEAN, Element(tag, label, empty)
  PROVE  IInv'
<1> DEFINE n == Len(doc) + 1
           e == [tag |-> tag, label |-> label, file |-> files, pieces |-> <<>>,
                 parent |-> IF open = <<>> THEN 0 ELSE Last(open)]
           P == Opened(parser, n, tag, label)
           q == all \o parser.cases
<1>1. /\ step = "parse" /\ Len(doc) < MaxElements /\ Fits(tag)
      /\ doc' = Append(doc, e)
      /\ open' = IF empty THEN open ELSE Append(open, n)
      /\ parser' = IF empty THEN EndedEmpty(P, tag) ELSE P
      /\ step' = step /\ files' = files /\ cut' = cut /\ all' = all
      /\ payload' = payload
  BY DEF Element
<1>2. /\ Good(doc, open, cut, parser, q) /\ all \in Seq(Cases)
      /\ doc \in Seq(Elements) /\ open \in Seq(DOMAIN doc)
      /\ parser \in Parsers(doc) /\ files \in Nat
  BY ReportAssumption DEF IInv, Reading, Numbers, Good, Typed
<1>3. e \in Elements
  <2>1. label \in {"none", "name", "classname", "message", "type"}
    BY DEF Labels
  <2>2. (IF open = <<>> THEN 0 ELSE Last(open)) \in Nat
    <3>1. open # <<>> => Last(open) \in DOMAIN doc
      BY <1>2, LastMember
    <3>2. QED
      BY <1>2, <3>1, ElementFields
  <2>3. <<>> \in Seq(Pieces)
    OBVIOUS
  <2>4. QED
    BY <1>2, <2>1, <2>2, <2>3 DEF Elements
<1>4. /\ e.tag = tag /\ e.label = label
      /\ e.parent = IF open = <<>> THEN 0 ELSE Last(open)
  OBVIOUS
<1> HIDE DEF e
<1>5. Fitting(doc, open, e)
  BY <1>1, <1>3, <1>4 DEF Fitting, Fits
<1>6. Good(Append(doc, e), Append(open, n), cut, P, q)
  BY <1>2, <1>4, <1>5, Opens
<1>7. P.cases = parser.cases /\ P.cases \in Seq(Cases) /\ P.current \in Cases
  <2>1. FieldsOf(parser, n, tag, label, P)
    BY <1>2, OpenedFields
  <2>2. P \in Parsers(Append(doc, e))
    BY <1>6 DEF Good, Typed
  <2>3. QED
    BY <2>1, <2>2, ParserFields DEF FieldsOf
<1>8. Good(doc', open', cut', parser', all' \o parser'.cases)
  <2>1. CASE empty = FALSE
    BY <1>1, <1>6, <1>7, <2>1
  <2>2. CASE empty = TRUE
    <3>1. /\ Good(Append(doc, e), open, cut, EndedEmpty(P, tag),
                  IF tag = "testcase" THEN Append(q, P.current) ELSE q)
          /\ EndedEmpty(P, tag).cases =
               IF tag = "testcase" THEN Append(P.cases, P.current) ELSE P.cases
      BY <1>2, <1>4, <1>5, OpensAndCloses
    <3>2. all \o EndedEmpty(P, tag).cases =
            IF tag = "testcase" THEN Append(q, P.current) ELSE q
      <4>1. all \o Append(P.cases, P.current) = Append(q, P.current)
        <5>1. PICK cases \in Seq(Cases), c \in Cases :
                cases = P.cases /\ cases = parser.cases /\ c = P.current
          BY <1>7
        <5>2. all \o Append(cases, c) = Append(all \o cases, c)
          BY <1>2, AppendConcat
        <5>3. QED
          BY <5>1, <5>2
      <4>2. QED
        BY <1>7, <3>1, <4>1
    <3>3. QED
      BY <1>1, <2>2, <3>1, <3>2
  <2>3. QED
    BY <2>1, <2>2
<1>9. Reading'
  BY <1>1, <1>2, <1>8 DEF Reading
<1>10. Len(doc') <= MaxElements
  BY <1>1, <1>2, <1>3, AppendMembers, ReportAssumption
<1>11. Numbers'
  BY <1>1, <1>10, NoNumbers DEF IInv, Numbers
<1>12. QED
  BY <1>9, <1>11 DEF IInv

\* A piece of text.
LEMMA TextInv ==
  ASSUME IInv, NEW piece \in Pieces, Text(piece)
  PROVE  IInv'
<1> DEFINE n == Last(open)
           j == Len(doc[n].pieces) + 1
           P == Heard(parser, <<n, j>>, piece)
           pieces == Append(doc[n].pieces, piece)
<1>1. /\ step = "parse" /\ open # <<>>
      /\ doc' = [doc EXCEPT ![n].pieces = Append(@, piece)]
      /\ parser' = P
      /\ step' = step /\ files' = files /\ open' = open /\ cut' = cut
      /\ all' = all /\ payload' = payload
  BY DEF Text
<1>2. /\ Good(doc, open, cut, parser, all \o parser.cases) /\ all \in Seq(Cases)
      /\ doc \in Seq(Elements) /\ open \in Seq(DOMAIN doc)
      /\ Len(doc) <= MaxElements
  BY DEF IInv, Reading, Numbers, Good, Typed
<1>3. n \in DOMAIN doc
  BY <1>1, <1>2, LastMember
<1>4. doc[n].pieces \in Seq(Pieces)
  BY <1>2, <1>3, ElementFields
<1>5. pieces \in Seq(Pieces) /\ j \in Nat \ {0}
  BY <1>4
<1>6. doc' = Worded(doc, n, pieces)
  BY <1>1 DEF Worded
<1>7. /\ Good(Worded(doc, n, pieces), open, cut, P, all \o parser.cases)
      /\ P.cases = parser.cases
  <2>1. PICK x \in Seq(Pieces), i \in Nat \ {0} : x = pieces /\ i = j
    BY <1>5
  <2>2. GoodAfter(doc, open, cut, parser, all \o parser.cases, x, i, piece)
    BY <1>1, <1>2, <2>1, Hears
  <2>3. QED
    BY <2>1, <2>2 DEF GoodAfter
<1>8. Reading'
  BY <1>1, <1>2, <1>6, <1>7 DEF Reading
<1>9. Len(doc') = Len(doc)
  BY <1>1, <1>2, <1>3
<1>10. Numbers'
  BY <1>1, <1>2, <1>9, NoNumbers DEF IInv, Numbers
<1>11. QED
  BY <1>8, <1>10 DEF IInv

\* An end tag.
LEMMA EndTagInv ==
  ASSUME IInv, EndTag
  PROVE  IInv'
<1> DEFINE t == doc[Last(open)].tag
           q == all \o parser.cases
<1>1. /\ step = "parse" /\ open # <<>> /\ open' = Front(open)
      /\ parser' = Ended(parser, t)
      /\ step' = step /\ files' = files /\ doc' = doc /\ cut' = cut
      /\ all' = all /\ payload' = payload
  BY DEF EndTag
<1>2. /\ Good(doc, open, cut, parser, q) /\ all \in Seq(Cases)
      /\ parser \in Parsers(doc) /\ Len(doc) <= MaxElements
  BY DEF IInv, Reading, Numbers, Good, Typed
<1>3. /\ Good(doc, Front(open), cut, Ended(parser, t),
              IF t = "testcase" THEN Append(q, parser.current) ELSE q)
      /\ Ended(parser, t).cases =
           IF t = "testcase" THEN Append(parser.cases, parser.current)
           ELSE parser.cases
  BY <1>1, <1>2, Closes
<1>4. parser.cases \in Seq(Cases) /\ parser.current \in Cases
  BY <1>2, ParserFields
<1>5. all \o Ended(parser, t).cases =
        IF t = "testcase" THEN Append(q, parser.current) ELSE q
  <2>1. all \o Append(parser.cases, parser.current) = Append(q, parser.current)
    BY <1>2, <1>4, AppendConcat
  <2>2. QED
    BY <1>3, <2>1
<1>6. Reading'
  BY <1>1, <1>2, <1>3, <1>5 DEF Reading
<1>7. Numbers'
  BY <1>1, <1>2, NoNumbers DEF IInv, Numbers
<1>8. QED
  BY <1>6, <1>7 DEF IInv

\* The end of a file, inside open elements too.
LEMMA EofInv ==
  ASSUME IInv, Eof
  PROVE  IInv'
<1>1. /\ step' = "next" /\ all' = all \o parser.cases /\ doc' = doc
      /\ cut' = cut \cup ToSet(open) /\ open' = <<>> /\ parser' = NewParser
      /\ files' = files /\ payload' = payload
  BY DEF Eof
<1>2. /\ Good(doc, open, cut, parser, all \o parser.cases) /\ all \in Seq(Cases)
      /\ all \o parser.cases \in Seq(Cases)
  BY DEF IInv, Reading, Good, Typed
<1>3. Good(doc, <<>>, cut \cup ToSet(open), NewParser, all \o parser.cases)
  BY <1>2, Cuts
<1>4. all' \o parser'.cases = all \o parser.cases
  BY <1>1, <1>2 DEF NewParser
<1>5. Reading'
  BY <1>1, <1>2, <1>3, <1>4 DEF Reading
<1>6. Numbers'
  BY <1>1, NoNumbers DEF IInv, Numbers
<1>7. QED
  BY <1>5, <1>6 DEF IInv

\* The result is counted and scored.
LEMMA FinishInv ==
  ASSUME IInv, Finish
  PROVE  IInv'
<1>1. PICK other \in OtherReports :
        IF Result(all, other).total = 0 THEN Fail
        ELSE /\ step' = "done"
             /\ payload' = Result(all, other)
             /\ UNCHANGED <<files, document, parser, all>>
  BY DEF Finish
<1>2. CASE Result(all, other).total = 0
  BY <1>1, <1>2, FailInv
<1>3. CASE Result(all, other).total # 0
  <2>1. /\ step' = "done" /\ payload' = Result(all, other)
        /\ files' = files /\ doc' = doc /\ open' = open /\ cut' = cut
        /\ parser' = parser /\ all' = all
    BY <1>1, <1>3 DEF document
  <2>2. all \in Seq(Cases)
    BY DEF IInv, Reading
  <2>3. Reading'
    <3>1. open = <<>> /\ parser = NewParser
      BY DEF Finish, IInv, Reading
    <3>2. QED
      BY <2>1, <3>1 DEF IInv, Reading
  <2>4. /\ payload'.passed = Count(all, {"passed"}) + other.passed
        /\ payload'.skipped = Count(all, {"skipped"}) + other.skipped
        /\ payload'.failed = Count(all, {"failure", "error"}) + other.failed
        /\ payload'.passed \in Nat /\ payload'.failed \in Nat
        /\ payload'.total = payload'.passed + payload'.failed + payload'.skipped
        /\ payload'.detail <= MaxDetail
        /\ payload'.status = Verdict(payload'.passed, payload'.failed)
        /\ payload'.score =
             Score(payload'.passed, payload'.passed + payload'.failed)
    BY <2>1, <2>2, ResultOf
  <2>5. CountsOfList'
    BY <2>1, <2>4 DEF CountsOfList
  <2>6. ScoreAgrees'
    BY <2>4, ScoreTellsVerdict DEF ScoreAgrees
  <2>7. /\ payload'.status \in {"passed", "partially_passed", "failed"}
        /\ payload'.score \in Nat /\ payload'.score <= 10000
    <3>1. /\ Result(all, other).status \in
               {"passed", "partially_passed", "failed"}
          /\ Result(all, other).score \in Nat
          /\ Result(all, other).score <= 10000
      BY <2>2, ResultTyped
    <3>2. QED
      BY <2>1, <3>1
  <2>8. Numbers'
    <3>1. files' \in 0..MaxFiles /\ Len(doc') <= MaxElements
      BY <2>1 DEF IInv, Numbers
    <3>2. QED
      BY <2>1, <2>5, <2>6, <2>7, <3>1 DEF Numbers
  <2>9. QED
    BY <2>3, <2>8 DEF IInv
<1>4. QED
  BY <1>2, <1>3

\* Every step keeps the invariant.
LEMMA NextInv == IInv /\ [Next]_vars => IInv'
<1> SUFFICES ASSUME IInv, [Next]_vars PROVE IInv'
  OBVIOUS
<1>1. CASE ReadFile
  BY <1>1, ReadFileInv
<1>2. ASSUME NEW tag \in Tags, NEW label \in Labels(tag), NEW empty \in BOOLEAN,
             Element(tag, label, empty)
      PROVE  IInv'
  BY <1>2, ElementInv
<1>3. ASSUME NEW piece \in Pieces, Text(piece)
      PROVE  IInv'
  BY <1>3, TextInv
<1>4. CASE EndTag
  BY <1>4, EndTagInv
<1>5. CASE Eof
  BY <1>5, EofInv
<1>6. CASE Malformed
  BY <1>6, FailInv DEF Malformed
<1>7. CASE Finish
  BY <1>7, FinishInv
<1>8. CASE UNCHANGED vars
  <2>1. /\ step' = step /\ files' = files /\ doc' = doc /\ open' = open
        /\ cut' = cut /\ parser' = parser /\ all' = all /\ payload' = payload
    BY <1>8 DEF vars, document
  <2>2. Reading'
    BY <2>1 DEF IInv, Reading
  <2>3. CountsOfList' /\ ScoreAgrees'
    BY <2>1 DEF IInv, Numbers, CountsOfList, ScoreAgrees
  <2>4. Numbers'
    BY <2>1, <2>3 DEF IInv, Numbers
  <2>5. QED
    BY <2>2, <2>4 DEF IInv
<1>9. QED
  BY <1>1, <1>2, <1>3, <1>4, <1>5, <1>6, <1>7, <1>8 DEF Next

\* The invariant holds throughout.
LEMMA Invariant == Spec => []IInv
<1>1. QED
  BY InitInv, NextInv, PTL DEF Spec

\* The variables keep their types: above all, the stack of suites never grows
\* beyond the open elements (parse_junit_xml).
THEOREM TypeCorrect == Spec => []TypeOK
<1>1. IInv => TypeOK
  <2> SUFFICES ASSUME IInv PROVE TypeOK
    OBVIOUS
  <2>1. /\ doc \in Seq(Elements) /\ open \in Seq(DOMAIN doc)
        /\ cut \subseteq DOMAIN doc /\ parser \in Parsers(doc)
        /\ Stacked(doc, open, parser) /\ all \in Seq(Cases)
    BY DEF IInv, Reading, Good, Typed
  <2>2. Len(parser.suites) <= Len(open)
    <3>1. Len(parser.suites) \in Nat /\ Len(open) \in Nat
      BY <2>1, ParserFields
    <3>2. Base(doc, open) + Len(parser.suites) <= Len(open)
      BY <2>1 DEF Stacked
    <3>3. Base(doc, open) \in {0, 1}
      BY DEF Base
    <3>4. QED
      BY <3>1, <3>2, <3>3
  <2>3. /\ step \in {"next", "parse", "done"}
        /\ files \in 0..MaxFiles
        /\ Len(doc) <= MaxElements
        /\ payload.status \in
             {"none", "passed", "partially_passed", "failed", "run_failed"}
        /\ payload.score \in Nat /\ payload.score <= 10000
    BY DEF IInv, Numbers
  <2>4. QED
    BY <2>1, <2>2, <2>3 DEF TypeOK, Parsers
<1>2. QED
  BY <1>1, Invariant, PTL

\* The test cases of the earlier files are what their part of the document
\* says, in every state.
LEMMA AllWritten ==
  ASSUME IInv
  PROVE  /\ DOMAIN doc \subseteq Nat
         /\ \A i \in DOMAIN all : Written(doc, all[i])
<1>1. /\ all \in Seq(Cases) /\ parser.cases \in Seq(Cases)
      /\ Faithful(doc, parser, all \o parser.cases) /\ doc \in Seq(Elements)
  BY ParserFields DEF IInv, Reading, Good, Typed
<1>2. \A i \in DOMAIN all : /\ i \in DOMAIN (all \o parser.cases)
                            /\ (all \o parser.cases)[i] = all[i]
  BY <1>1
<1>3. QED
  BY <1>1, <1>2 DEF Faithful

\* Between two files and in the end, the list is what the document says: each
\* test case that is complete, once, with the outcome of its last verdict
\* element.
LEMMA ListIsRead ==
  ASSUME IInv, open = <<>>, parser = NewParser
  PROVE  /\ {all[i].node : i \in DOMAIN all} = TestCases
         /\ \A i, j \in DOMAIN all : i < j => all[i].node < all[j].node
         /\ \A i \in DOMAIN all :
              /\ Written(doc, all[i])
              /\ all[i].outcome = WentAs(all[i].node)
<1>1. all \in Seq(Cases) /\ parser.cases = <<>>
  BY DEF IInv, Reading, NewParser
<1>2. all \o parser.cases = all
  BY <1>1
<1>3. Listed(doc, <<>>, cut, parser, all)
  BY <1>2 DEF IInv, Reading, Good
<1>4. {all[i].node : i \in DOMAIN all} = TestCases
  <2>1. ToSet(<<>>) = {}
    BY DEF ToSet
  <2>2. QED
    BY <1>3, <2>1 DEF Listed, TestCases
<1>5. \A i, j \in DOMAIN all : i < j => all[i].node < all[j].node
  BY <1>3 DEF Listed
<1>6. ASSUME NEW i \in DOMAIN all
      PROVE  /\ Written(doc, all[i])
             /\ all[i].outcome = WentAs(all[i].node)
  <2> DEFINE c == all[i]
             n == c.node
  <2>1. Written(doc, c) /\ DOMAIN doc \subseteq Nat
    BY AllWritten
  <2> HIDE DEF c
  <2>2. Verdicts(n) = VerdictsOf(doc, n) /\ Verdicts(n) \subseteq Nat
    BY <2>1 DEF Verdicts, VerdictsOf
  <2>3. ASSUME NEW m, Latest(doc, n, m)
        PROVE  Verdicts(n) # {} /\ Max(Verdicts(n)) = m
    BY <2>2, <2>3, MaxIs DEF Latest
  <2>4. c.outcome = WentAs(n)
    BY <2>1, <2>2, <2>3 DEF Written, OutcomeOf, WentAs
  <2>5. QED
    BY <2>1, <2>4 DEF c
<1>7. QED
  BY <1>4, <1>5, <1>6

\* However suites are nested, and wherever files are cut off, each test case is
\* collected once and in order, with the outcome of its last verdict element
\* and the suite it is in (parse_junit_xml, collect_reports).
THEOREM ReadsAsWritten == Spec => []ReadAsWritten
<1>1. IInv => ReadAsWritten
  <2> SUFFICES ASSUME IInv, step = "next" PROVE ReadAsWritten
    BY DEF ReadAsWritten
  <2>1. open = <<>> /\ parser = NewParser
    BY DEF IInv, Reading
  <2>2. ASSUME NEW i \in DOMAIN all
        PROVE  LET c == all[i]
                   n == c.node
               IN  /\ c.outcome = WentAs(n)
                   /\ c.suite =
                        CASE doc[n].label = "classname" -> n
                          [] doc[n].label # "classname"
                             /\ doc[doc[n].parent].label = "name"
                             -> doc[n].parent
                          [] OTHER -> 0
    BY <2>1, ListIsRead DEF Written, SuiteOf, NameOf
  <2>3. QED
    BY <2>1, <2>2, ListIsRead DEF ReadAsWritten
<1>2. QED
  BY <1>1, Invariant, PTL

\* A message is that of the last verdict element of its own test case: an
\* attribute if it has one, else a piece of its text (capturing_message).
THEOREM MessagesAreOwn == Spec => []MessageIsOwn
<1>1. IInv => MessageIsOwn
  <2> SUFFICES ASSUME IInv, NEW i \in DOMAIN all, all[i].message # Nowhere
               PROVE  LET c == all[i]
                          m == c.message[1]
                      IN  /\ m \in Verdicts(c.node)
                          /\ m = Max(Verdicts(c.node))
                          /\ doc[m].label # "none" <=> c.message[2] = 0
    BY DEF MessageIsOwn
  <2>1. Written(doc, all[i]) /\ DOMAIN doc \subseteq Nat
    BY AllWritten
  <2>2. PICK c : c = all[i]
    OBVIOUS
  <2>3. /\ Latest(doc, c.node, c.message[1])
        /\ doc[c.message[1]].label # "none" <=> c.message[2] = 0
    BY <2>1, <2>2 DEF Written, MessageOf
  <2>4. /\ Verdicts(c.node) = VerdictsOf(doc, c.node)
        /\ Verdicts(c.node) \subseteq Nat
    BY <2>1 DEF Verdicts, VerdictsOf
  <2>5. /\ c.message[1] \in Verdicts(c.node)
        /\ Max(Verdicts(c.node)) = c.message[1]
    BY <2>3, <2>4, MaxIs DEF Latest
  <2>6. QED
    BY <2>2, <2>3, <2>5
<1>2. QED
  BY <1>1, Invariant, PTL

\* Each test case of the document is counted once: the list enumerates them.
LEMMA CountIsOfCases ==
  ASSUME IInv, open = <<>>, parser = NewParser, NEW outcomes
  PROVE  /\ Count(all, outcomes) = Cardinality(CasesThat(outcomes))
         /\ IsFiniteSet(CasesThat(outcomes))
<1> DEFINE S == {i \in DOMAIN all : all[i].outcome \in outcomes}
           f == [i \in S |-> all[i].node]
<1>1. /\ {all[i].node : i \in DOMAIN all} = TestCases
      /\ \A i, j \in DOMAIN all : i < j => all[i].node < all[j].node
      /\ \A i \in DOMAIN all : /\ all[i].node \in DOMAIN doc
                               /\ all[i].outcome = WentAs(all[i].node)
  BY ListIsRead DEF Written
<1>2. /\ DOMAIN doc \subseteq Nat
      /\ DOMAIN all = 1..Len(all) /\ Len(all) \in Nat
  BY AllWritten DEF IInv, Reading
<1>3. IsFiniteSet(S)
  <2>1. IsFiniteSet(1..Len(all))
    BY <1>2, FS_Interval
  <2>2. QED
    BY <1>2, <2>1, FS_Subset
<1>4. f \in Bijection(S, CasesThat(outcomes))
  <2>1. f \in [S -> CasesThat(outcomes)]
    BY <1>1 DEF CasesThat
  <2>2. ASSUME NEW i \in S, NEW j \in S, f[i] = f[j]
        PROVE  i = j
    <3>1. /\ i \in Nat /\ j \in Nat /\ all[i].node = all[j].node
          /\ all[i].node \in Nat
      BY <1>1, <1>2, <2>2
    <3>2. ~(i < j) /\ ~(j < i)
      BY <1>1, <3>1
    <3>3. QED
      BY <3>1, <3>2
  <2>3. ASSUME NEW n \in CasesThat(outcomes)
        PROVE  \E i \in S : f[i] = n
    <3>1. n \in TestCases /\ WentAs(n) \in outcomes
      BY DEF CasesThat
    <3>2. PICK i \in DOMAIN all : all[i].node = n
      BY <1>1, <3>1
    <3>3. i \in S
      BY <1>1, <3>1, <3>2
    <3>4. QED
      BY <3>2, <3>3
  <2>4. QED
    BY <2>1, <2>2, <2>3, Fun_IsBij
<1>5. ExistsBijection(S, CasesThat(outcomes))
  BY <1>4 DEF ExistsBijection
<1>6. QED
  BY <1>3, <1>5, FS_Bijection DEF Count

\* However suites are nested and files cut off, and however few details are sent
\* along, the counts of a result are those of all test cases that the files
\* report in full, each counted once and as its last verdict element says.
THEOREM CountsAreExact == Spec => []CountsExact
<1>1. IInv => CountsExact
  <2> SUFFICES ASSUME IInv, step = "done", payload.status # "run_failed"
               PROVE  CountsExact
    BY DEF CountsExact
  <2> DEFINE P == CasesThat({"passed"})
             K == CasesThat({"skipped"})
             F == CasesThat({"failure", "error"})
  <2>1. open = <<>> /\ parser = NewParser
    BY DEF IInv, Reading
  <2>2. PICK other \in OtherReports :
          /\ payload.passed = Count(all, {"passed"}) + other.passed
          /\ payload.skipped = Count(all, {"skipped"}) + other.skipped
          /\ payload.failed = Count(all, {"failure", "error"}) + other.failed
          /\ payload.total = payload.passed + payload.failed + payload.skipped
          /\ payload.detail <= MaxDetail
    BY DEF IInv, Numbers, CountsOfList
  <2>3. /\ Count(all, {"passed"}) = Cardinality(P) /\ IsFiniteSet(P)
        /\ Count(all, {"skipped"}) = Cardinality(K) /\ IsFiniteSet(K)
        /\ Count(all, {"failure", "error"}) = Cardinality(F) /\ IsFiniteSet(F)
    BY <2>1, CountIsOfCases
  <2>4. TestCases = (P \cup K) \cup F
    <3>1. ASSUME NEW n \in TestCases
          PROVE  WentAs(n) \in {"passed", "skipped", "failure", "error"}
      <4>1. PICK i \in DOMAIN all : all[i].node = n
        BY <2>1, ListIsRead
      <4>2. Written(doc, all[i]) /\ all[i].outcome = WentAs(n)
        BY <2>1, <4>1, ListIsRead
      <4>3. QED
        BY <4>2 DEF Written, OutcomeOf, Latest, VerdictsOf, Outcomes
    <3>2. QED
      BY <3>1 DEF CasesThat
  <2>5. P \cap K = {} /\ (P \cup K) \cap F = {}
    BY DEF CasesThat
  <2> HIDE DEF P, K, F
  <2>6. Cardinality(TestCases) = Cardinality(P) + Cardinality(K) + Cardinality(F)
    <3>1. /\ Cardinality(P \cup K) =
               Cardinality(P) + Cardinality(K) - Cardinality(P \cap K)
          /\ IsFiniteSet(P \cup K)
      BY <2>3, FS_Union
    <3>2. Cardinality((P \cup K) \cup F) =
            Cardinality(P \cup K) + Cardinality(F)
              - Cardinality((P \cup K) \cap F)
      BY <2>3, <3>1, FS_Union
    <3>3. Cardinality(P \cap K) = 0 /\ Cardinality((P \cup K) \cap F) = 0
      BY <2>5, FS_EmptySet
    <3>4. /\ Cardinality(P) \in Nat /\ Cardinality(K) \in Nat
          /\ Cardinality(F) \in Nat
      BY <2>3, FS_CardinalityType
    <3>5. QED
      BY <2>4, <3>1, <3>2, <3>3, <3>4
  <2>7. /\ other.passed \in Nat /\ other.skipped \in Nat /\ other.failed \in Nat
        /\ Cardinality(P) \in Nat /\ Cardinality(K) \in Nat
        /\ Cardinality(F) \in Nat
    BY <2>3, FS_CardinalityType, ReportAssumption
  <2>8. payload.total = Cardinality(TestCases)
                          + other.passed + other.skipped + other.failed
    BY <2>2, <2>3, <2>6, <2>7
  <2>9. QED
    BY <2>2, <2>3, <2>8 DEF CountsExact, P, K, F
<1>2. QED
  BY <1>1, Invariant, PTL

\* The score and the status of a result agree, below 20000 graded tests
\* (ResponsePayload::graded).
THEOREM ScoresAgree == Spec => []ScoreAgrees
<1>1. IInv => ScoreAgrees
  BY DEF IInv, Numbers
<1>2. QED
  BY <1>1, Invariant, PTL
=============================================================================
