-------------------------------- MODULE Report --------------------------------
(***************************************************************************)
(* From the report files of a run to its result: parse_junit_xml reads     *)
(* each file event by event, collect_reports appends what it found, and    *)
(* ResponsePayload::graded counts and scores it.                           *)
(*                                                                         *)
(* A file is written while it is read: it may nest elements in any way the *)
(* JUnit schema allows and be cut off anywhere.  A text is told by its     *)
(* place, <<element, piece>>, where piece 0 is an attribute.  The lengths  *)
(* of texts and the durations of tests are left out.                       *)
(***************************************************************************)
EXTENDS Integers, Sequences, SequencesExt

CONSTANTS
  MaxElements,  \* bound on the elements of all files
  MaxPieces,    \* bound on the pieces of text in an element
  MaxFiles,     \* bound on the number of files
  MaxDetail,    \* MAX_TESTCASE_DETAIL
  OtherReports  \* counts of test cases in files that are not written out

ASSUME ReportAssumption ==
  /\ MaxElements \in Nat /\ MaxPieces \in Nat /\ MaxFiles \in Nat
  /\ MaxDetail \in Nat
  /\ OtherReports \subseteq [passed : Nat, failed : Nat, skipped : Nat]

VARIABLES
  step,     \* next (file), parse, or done
  files,    \* how many files were begun
  doc,      \* the elements of all files, in the order in which they begin
  open,     \* those that are open, the innermost last
  cut,      \* those that were open when their file ended
  parser,   \* the local variables of parse_junit_xml
  all,      \* collect_reports: the test cases of the files before this one
  payload   \* the counts and the verdict of the ResponsePayload

document == <<doc, open, cut>>
vars     == <<step, files, doc, open, cut, parser, all, payload>>

Outcomes == {"failure", "error", "skipped"}
Tags     == {"testsuites", "testsuite", "testcase", "other"} \cup Outcomes

\* What may stand inside an element, and at the top of a file.
MayContain(tag) ==
  CASE tag = "file" -> {"testsuites", "testsuite"}
    [] tag = "testsuites" -> {"testsuite"}
    [] tag = "testsuite" -> {"testsuite", "testcase", "other"}
    [] tag = "testcase" -> Outcomes \cup {"other"}
    [] OTHER -> {}

\* Those attributes of an element that the parser looks for, at most one of
\* which is there.
Labels(tag) ==
  CASE tag = "testsuite" -> {"none", "name"}
    [] tag = "testcase" -> {"none", "classname"}
    [] tag \in Outcomes -> {"none", "message", "type"}
    [] OTHER -> {"none"}

\* Text or CDATA, CDATA that is blank, and an entity reference, which the
\* reader reports as an event of its own and the parser passes over.
Pieces == {"text", "blank", "ref"}

Elements ==
  [tag : Tags, label : {"none", "name", "classname", "message", "type"},
   file : Nat, pieces : Seq(Pieces), parent : Nat]

\* What the parser makes of a test case: its suite and its message are told by
\* the element and the place they were read from.
Cases ==
  [node : Nat, suite : Nat, outcome : {"none", "passed"} \cup Outcomes,
   message : Nat \X Nat]

Nowhere   == <<0, 0>>
NoCase    == [node |-> 0, suite |-> 0, outcome |-> "none", message |-> Nowhere]
NewParser == [cases |-> <<>>, suites |-> <<>>, current |-> NoCase,
              capturing |-> FALSE]
NoPayload == [status |-> "none", passed |-> 0, failed |-> 0, skipped |-> 0,
              total |-> 0, score |-> 0, detail |-> 0]

\* The score is in hundredths.
TypeOK ==
  /\ step \in {"next", "parse", "done"}
  /\ files \in 0..MaxFiles
  /\ doc \in Seq(Elements) /\ Len(doc) <= MaxElements
  /\ open \in Seq(DOMAIN doc)
  /\ cut \subseteq DOMAIN doc
  /\ parser \in [cases : Seq(Cases), suites : Seq({0} \cup DOMAIN doc),
                 current : Cases, capturing : BOOLEAN]
  /\ Len(parser.suites) <= Len(open)
  /\ all \in Seq(Cases)
  /\ payload.status \in
       {"none", "passed", "partially_passed", "failed", "run_failed"}
  /\ payload.score \in Nat /\ payload.score <= 10000

-----------------------------------------------------------------------------
(* The parser.                                                             *)

\* open_element: an unnamed suite hides the name of an outer one.
Opened(p, n, tag, label) ==
  CASE tag = "testsuite" ->
         [p EXCEPT !.suites = Append(@, IF label = "name" THEN n ELSE 0)]
    [] tag = "testcase" ->
         [p EXCEPT !.current =
            [node |-> n, outcome |-> "passed", message |-> Nowhere,
             suite |-> IF label = "classname" THEN n
                       ELSE IF p.suites = <<>> THEN 0 ELSE Last(p.suites)]]
    [] tag \in Outcomes /\ p.current # NoCase ->
         [p EXCEPT !.current.outcome = tag,
                   !.current.message = IF label = "none" THEN Nowhere ELSE <<n, 0>>,
                   !.capturing = (label = "none")]
    [] OTHER -> p

Silent(p) == [p EXCEPT !.capturing = FALSE]

Pushed(p) ==
  IF p.current = NoCase THEN p
  ELSE [p EXCEPT !.cases = Append(@, p.current), !.current = NoCase]

Popped(p) == IF p.suites = <<>> THEN p ELSE [p EXCEPT !.suites = Front(@)]

\* Mutant of Ended: a suite stays on the stack.
EndedKeepsSuite(p, tag) ==
  CASE tag = "testcase" -> Pushed(Silent(p))
    [] tag \in Outcomes -> Silent(p)
    [] OTHER -> p

\* Event::End
Ended(p, tag) ==
  CASE tag = "testcase" -> Pushed(Silent(p))
    [] tag = "testsuite" -> Popped(p)
    [] tag \in Outcomes -> Silent(p)
    [] OTHER -> p

\* Mutant of EndedEmpty: what Start has set stays.
EndedEmptyCaptures(p, tag) ==
  CASE tag = "testcase" -> Pushed(p)
    [] tag = "testsuite" -> Popped(p)
    [] OTHER -> p

\* The second half of Event::Empty
EndedEmpty(p, tag) ==
  CASE tag = "testcase" -> Pushed(Silent(p))
    [] tag = "testsuite" -> Popped(Silent(p))
    [] OTHER -> Silent(p)

\* Event::Text, Event::CData and set_message
Heard(p, place, piece) ==
  IF ~p.capturing \/ piece = "ref" THEN p
  ELSE IF p.current = NoCase \/ piece = "blank" THEN Silent(p)
  ELSE [Silent(p) EXCEPT !.current.message = place]

-----------------------------------------------------------------------------
Init ==
  /\ step = "next"
  /\ files = 0
  /\ doc = <<>>
  /\ open = <<>>
  /\ cut = {}
  /\ parser = NewParser
  /\ all = <<>>
  /\ payload = NoPayload

\* Err with run_failed
Fail ==
  /\ step' = "done"
  /\ payload' = [NoPayload EXCEPT !.status = "run_failed"]
  /\ UNCHANGED <<files, document, parser, all>>

\* collect_reports: the next file is read.
ReadFile ==
  /\ step = "next"
  /\ files < MaxFiles
  /\ \/ /\ files' = files + 1
        /\ step' = "parse"
        /\ UNCHANGED <<document, parser, all, payload>>
     \/ Fail

\* A file has one root.
Fits(tag) ==
  IF open = <<>> THEN /\ tag \in MayContain("file")
                      /\ \A n \in DOMAIN doc : doc[n].file # files
  ELSE tag \in MayContain(doc[Last(open)].tag)

\* A start tag, or one that closes itself.
Element(tag, label, empty) ==
  /\ step = "parse"
  /\ Len(doc) < MaxElements
  /\ Fits(tag)
  /\ label \in Labels(tag)
  /\ LET n == Len(doc) + 1
         p == Opened(parser, n, tag, label)
     IN  /\ doc' = Append(doc,
              [tag |-> tag, label |-> label, file |-> files, pieces |-> <<>>,
               parent |-> IF open = <<>> THEN 0 ELSE Last(open)])
         /\ open' = IF empty THEN open ELSE Append(open, n)
         /\ parser' = IF empty THEN EndedEmpty(p, tag) ELSE p
  /\ UNCHANGED <<step, files, cut, all, payload>>

Text(piece) ==
  /\ step = "parse"
  /\ open # <<>>
  /\ LET n == Last(open)
         k == Len(doc[n].pieces) + 1
     IN  /\ MayContain(doc[n].tag) = {} /\ doc[n].tag # "file"
         /\ k <= MaxPieces
         /\ doc' = [doc EXCEPT ![n].pieces = Append(@, piece)]
         /\ parser' = Heard(parser, <<n, k>>, piece)
  /\ UNCHANGED <<step, files, open, cut, all, payload>>

EndTag ==
  /\ step = "parse"
  /\ open # <<>>
  /\ open' = Front(open)
  /\ parser' = Ended(parser, doc[Last(open)].tag)
  /\ UNCHANGED <<step, files, doc, cut, all, payload>>

\* The reader accepts the end of a file inside open elements.  The next file
\* gets a parser of its own.
Eof ==
  /\ step = "parse"
  /\ step' = "next"
  /\ all' = all \o parser.cases
  /\ cut' = cut \cup ToSet(open)
  /\ open' = <<>>
  /\ parser' = NewParser
  /\ UNCHANGED <<files, doc, payload>>

\* Anything that is no XML.
Malformed == step = "parse" /\ Fail

-----------------------------------------------------------------------------
(* The result.                                                             *)

Count(list, outcomes) ==
  Cardinality({i \in DOMAIN list : list[i].outcome \in outcomes})

\* Mutant of Gradable: skipped tests are counted.
GradableOfTotal(passed, failed, skipped) == passed + failed + skipped

Gradable(passed, failed, skipped) == passed + failed

\* The quotient is rounded to the nearest hundredth of a per cent.
Score(passed, gradable) ==
  IF gradable = 0 THEN 0 ELSE (2 * 10000 * passed + gradable) \div (2 * gradable)

Verdict(passed, failed) ==
  CASE passed + failed = 0 -> "failed"
    [] passed + failed > 0 /\ failed = 0 -> "passed"
    [] failed > 0 /\ passed = 0 -> "failed"
    [] OTHER -> "partially_passed"

\* ResponsePayload::graded of the list, other files' test cases included.
Graded(list, other) ==
  LET passed  == Count(list, {"passed"}) + other.passed
      skipped == Count(list, {"skipped"}) + other.skipped
      failed  == Count(list, {"failure", "error"}) + other.failed
  IN  [status |-> Verdict(passed, failed),
       total |-> passed + failed + skipped,
       passed |-> passed, failed |-> failed, skipped |-> skipped,
       score |-> Score(passed, Gradable(passed, failed, skipped)),
       detail |-> passed + failed + skipped]

Trimmed(n) == IF n > MaxDetail THEN MaxDetail ELSE n

\* Mutant of Result: what is graded is the trimmed list.
ResultOfTrimmed(list, other) == Graded(SubSeq(list, 1, Trimmed(Len(list))), other)

\* evaluate_grader_task trims the list of details after it was counted.
Result(list, other) == [Graded(list, other) EXCEPT !.detail = Trimmed(@)]

\* The end of grade_task: no report or no test case is no verdict.
Finish ==
  /\ step = "next"
  /\ \E other \in OtherReports :
       LET result == Result(all, other)
       IN  IF result.total = 0 THEN Fail
           ELSE /\ step' = "done"
                /\ payload' = result
                /\ UNCHANGED <<files, document, parser, all>>

-----------------------------------------------------------------------------
Next ==
  \/ ReadFile
  \/ \E tag \in Tags :
       \E label \in Labels(tag), empty \in BOOLEAN : Element(tag, label, empty)
  \/ \E piece \in Pieces : Text(piece)
  \/ EndTag
  \/ Eof
  \/ Malformed
  \/ Finish

Spec == Init /\ [][Next]_vars

-----------------------------------------------------------------------------
(* Properties.                                                             *)

\* The test cases that the files report in full.
TestCases == {n \in DOMAIN doc : doc[n].tag = "testcase" /\ n \notin cut}

\* The elements of a test case that say how it went.
Verdicts(n) == {m \in DOMAIN doc : doc[m].parent = n /\ doc[m].tag \in Outcomes}

\* How a test case went by the document: as the last of them says.
WentAs(n) ==
  IF Verdicts(n) = {} THEN "passed" ELSE doc[Max(Verdicts(n))].tag

\* Every test case of every file is collected once and in order, with the
\* outcome its last verdict element says, and is put down to its class, or to
\* the suite it is in, however suites are nested or files cut off
\* (parse_junit_xml, collect_reports).
ReadAsWritten ==
  step = "next" =>
    /\ {all[i].node : i \in DOMAIN all} = TestCases
    /\ \A i, j \in DOMAIN all : i < j => all[i].node < all[j].node
    /\ \A i \in DOMAIN all :
         LET c == all[i]
             n == c.node
         IN  /\ c.outcome = WentAs(n)
             /\ c.suite = CASE doc[n].label = "classname" -> n
                            [] doc[n].label # "classname"
                               /\ doc[doc[n].parent].label = "name" -> doc[n].parent
                            [] OTHER -> 0

\* A test case carries no message but that of its own verdict element: not the
\* output of the test, not another test's message (capturing_message).
MessageIsOwn ==
  \A i \in DOMAIN all :
    LET c == all[i]
        m == c.message[1]
    IN  c.message # Nowhere => /\ m \in Verdicts(c.node)
                               /\ m = Max(Verdicts(c.node))
                               /\ doc[m].label # "none" <=> c.message[2] = 0

\* If its verdict element has no message attribute but a body, the message of
\* a test case is that body, the whole of it (the comment on
\* capturing_message).
MessageIsBody ==
  \A i \in DOMAIN all :
    Verdicts(all[i].node) # {} =>
      LET m    == Max(Verdicts(all[i].node))
          body == {k \in DOMAIN doc[m].pieces : doc[m].pieces[k] # "blank"}
      IN  doc[m].label # "message" /\ body # {} =>
            all[i].message[1] = m /\ body = {all[i].message[2]}

\* The test cases of the files that went in one of these ways.
CasesThat(outcomes) == {n \in TestCases : WentAs(n) \in outcomes}

\* A result counts every test case of every file once, by what the files say
\* of it and not by what is sent: no test is lost or counted twice where suites
\* are nested, files end early or the details are cut (parse_junit_xml,
\* collect_reports, the comment on MAX_TESTCASE_DETAIL).
CountsExact ==
  step = "done" /\ payload.status # "run_failed" =>
    \E other \in OtherReports :
      /\ payload.passed = Cardinality(CasesThat({"passed"})) + other.passed
      /\ payload.skipped = Cardinality(CasesThat({"skipped"})) + other.skipped
      /\ payload.failed =
           Cardinality(CasesThat({"failure", "error"})) + other.failed
      /\ payload.total = Cardinality(TestCases)
                           + other.passed + other.skipped + other.failed
      /\ payload.detail <= MaxDetail

\* Below 20000 graded tests the rounded score and the status agree: 100.00 is
\* a pass and 0.00 means that no test passed (ResponsePayload::graded).
ScoreAgrees ==
  step = "done" /\ payload.passed + payload.failed < 20000 =>
    /\ payload.score = 10000 <=> payload.status = "passed"
    /\ payload.score = 0 <=> payload.passed = 0
=============================================================================
