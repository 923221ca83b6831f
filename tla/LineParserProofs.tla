-------------------------- MODULE LineParserProofs --------------------------
(***************************************************************************)
(* The instructions of every recipe take its lines in turn and leave no    *)
(* line of code behind, whatever the lines are and however many: an        *)
(* instruction is whole, its heredocs are as they are in the file, and     *)
(* both parsers agree about the directives of a recipe that is accepted.   *)
(***************************************************************************)
EXTENDS LineParser, TLAPS, WellFoundedInduction

Node == [start : Nat, end : Nat, words : Seq(Nat), heredocs : Seq(Seq(Nat)), comments : Seq(Nat)]

Inside == {"continue", "node", "heredoc"}

TypeOK ==
    /\ file \in Files
    /\ phase \in {"line", "parsed", "failed"} \cup Inside
    /\ currentLine \in 0..Count
    /\ start \in Nat
    /\ words \in Seq(Nat) /\ content \in Seq(Nat) /\ heredocs \in Seq(Seq(Nat)) /\ comments \in Seq(Nat)
    /\ nodes \in Seq(Node)

\* The lines that belong to an instruction, or to none, for good.
Before == IF phase \in Inside THEN start - 1 ELSE currentLine

Ascending == \A i, j \in 1..Len(nodes) : i < j => nodes[i].end < nodes[j].start

Placed(l) ==
    \/ Line(l).kind \in {"blank", "comment", "directive"}
    \/ \E i \in 1..Len(nodes) : l \in nodes[i].start..nodes[i].end

\* EveryLineIsPlaced for the lines that have been read.
Ranges ==
    /\ phase \in Inside => start \in 1..currentLine
    /\ Ascending
    /\ phase # "failed" => \A i \in 1..Len(nodes) : nodes[i].end <= Before
    /\ phase # "failed" => \A l \in 1..Before : Placed(l)
    /\ phase = "parsed" => currentLine = Count

IInv == TypeOK /\ Ranges

LEMMA LengthIsANumber == ASSUME NEW f \in Files PROVE Len(f.lines) \in Nat
BY FilesAssumption

LEMMA InitHolds == Init => IInv
<1> SUFFICES ASSUME Init PROVE IInv
  OBVIOUS
<1>1. Count \in Nat
  BY LengthIsANumber DEF Init, Count
<1>2. TypeOK
  BY <1>1 DEF Init, TypeOK, Inside
<1>3. Ranges
  BY <1>1 DEF Init, Ranges, Ascending, Inside, Before
<1> QED
  BY <1>2, <1>3 DEF IInv

LEMMA CountType == ASSUME TypeOK PROVE Count \in Nat
BY LengthIsANumber DEF TypeOK, Count

\* A child whose first line is the one after all the others.
LEMMA ChildIsPlaced ==
    ASSUME IInv, phase \in Inside, NEW end \in start..Count, currentLine <= end, NEW contents \in Seq(Seq(Nat)),
           AddChild(end, contents), currentLine' = end, UNCHANGED <<file, start, words>>,
           content' \in Seq(Nat), heredocs' \in Seq(Seq(Nat))
    PROVE  IInv'
<1> DEFINE new == [start |-> start, end |-> end, words |-> words, heredocs |-> contents, comments |-> comments]
<1>1. Count \in Nat /\ Count' = Count /\ currentLine \in Nat /\ start \in Nat \ {0} /\ end \in Nat
  BY CountType DEF IInv, TypeOK, Count, Ranges
<1>2. new \in Node
  BY <1>1 DEF IInv, TypeOK, Node
<1>3. nodes' = Append(nodes, new) /\ nodes \in Seq(Node) /\ nodes' \in Seq(Node)
  BY <1>2 DEF AddChild, IInv, TypeOK
<1>4. Len(nodes') = Len(nodes) + 1 /\ nodes'[Len(nodes) + 1] = new /\ \A i \in 1..Len(nodes) : nodes'[i] = nodes[i]
  BY <1>3
<1>5. Len(nodes) \in Nat /\ \A i \in 1..Len(nodes) : nodes[i].start \in Nat /\ nodes[i].end \in Nat
  <2>1. Len(nodes) \in Nat /\ \A i \in 1..Len(nodes) : nodes[i] \in Node
    BY <1>3
  <2> QED BY <2>1 DEF Node
<1>6. \A i \in 1..Len(nodes) : nodes[i].end <= start - 1
  BY DEF IInv, Ranges, Before, Inside
<1>7. TypeOK'
  BY <1>1, <1>3 DEF AddChild, TypeOK, IInv, Inside
<1>8. Ascending'
  <2> SUFFICES ASSUME NEW i \in 1..Len(nodes'), NEW j \in 1..Len(nodes'), i < j PROVE nodes'[i].end < nodes'[j].start
    BY DEF Ascending
  <2>1. nodes[i].end <= start - 1 /\ nodes'[i] = nodes[i] /\ i \in 1..Len(nodes)
    BY <1>4, <1>5, <1>6
  <2>2. CASE j = Len(nodes) + 1
    BY <1>1, <1>4, <1>5, <2>1, <2>2
  <2>3. CASE j # Len(nodes) + 1
    <3>1. j \in 1..Len(nodes)
      BY <1>4, <1>5, <2>3
    <3>2. nodes[i].end < nodes[j].start /\ nodes'[j] = nodes[j]
      BY <1>4, <2>1, <3>1 DEF IInv, Ranges, Ascending
    <3> QED BY <2>1, <3>2
  <2> QED BY <2>2, <2>3
<1>9. phase' = "line" /\ Before' = end
  BY DEF AddChild, Before, Inside
<1>10. \A i \in 1..Len(nodes') : nodes'[i].end <= end
  <2> SUFFICES ASSUME NEW i \in 1..Len(nodes') PROVE nodes'[i].end <= end
    OBVIOUS
  <2>1. CASE i = Len(nodes) + 1
    BY <1>1, <1>4, <2>1
  <2>2. CASE i # Len(nodes) + 1
    <3>1. i \in 1..Len(nodes) /\ nodes[i].end <= start - 1 /\ nodes[i].end \in Nat
      <4>1. i \in 1..Len(nodes)
        BY <1>4, <1>5, <2>2
      <4> QED BY <1>5, <1>6, <4>1
    <3> QED BY <1>1, <1>4, <3>1
  <2> QED BY <2>1, <2>2
<1>11. \A l \in 1..end : Placed(l)'
  <2> SUFFICES ASSUME NEW l \in 1..end PROVE Placed(l)'
    OBVIOUS
  <2>1. CASE l < start
    <3>1. Placed(l)
      BY <1>1, <2>1 DEF IInv, Ranges, Before, Inside
    <3> QED BY <1>3, <1>4, <3>1 DEF Placed, Line
  <2>2. CASE l >= start
    BY <1>1, <1>3, <1>4, <2>2 DEF Placed
  <2> QED BY <1>1, <2>1, <2>2
<1> QED BY <1>7, <1>8, <1>9, <1>10, <1>11 DEF IInv, Ranges, Inside

\* A step that reads one more line outside an instruction.
LEMMA LineIsPlaced ==
    ASSUME IInv, phase = "line", Scan, Line(Upcoming).kind \in {"blank", "comment", "directive"},
           currentLine' = Upcoming, phase' = phase, UNCHANGED <<file, instruction, docs, nodes>>, comments' \in Seq(Nat)
    PROVE  IInv'
<1>1. Count \in Nat /\ Count' = Count /\ currentLine \in Nat /\ Upcoming \in 1..Count
  BY CountType DEF IInv, TypeOK, Count, Scan, Upcoming
<1>2. TypeOK'
  BY <1>1 DEF TypeOK, IInv, instruction, docs
<1>3. Before = currentLine /\ Before' = Upcoming
  BY DEF Before, Inside
<1>4. Ascending'
  BY DEF IInv, Ranges, Ascending
<1>5. \A i \in 1..Len(nodes) : nodes[i].end \in Nat
  <2>1. \A i \in 1..Len(nodes) : nodes[i] \in Node
    BY DEF IInv, TypeOK
  <2> QED BY <2>1 DEF Node
<1>6. \A i \in 1..Len(nodes) : nodes[i].end <= Upcoming
  <2> SUFFICES ASSUME NEW i \in 1..Len(nodes) PROVE nodes[i].end <= Upcoming
    OBVIOUS
  <2>1. nodes[i].end <= currentLine
    BY <1>3 DEF IInv, Ranges
  <2> QED BY <1>1, <1>5, <2>1 DEF Upcoming
<1>7. \A l \in 1..Upcoming : Placed(l)'
  <2> SUFFICES ASSUME NEW l \in 1..Upcoming PROVE Placed(l)'
    OBVIOUS
  <2>1. CASE l = Upcoming
    BY <2>1 DEF Placed, Line
  <2>2. CASE l # Upcoming
    <3>1. l \in 1..currentLine
      BY <1>1, <2>2 DEF Upcoming
    <3> QED BY <1>3, <3>1 DEF IInv, Ranges, Placed, Line
  <2> QED BY <2>1, <2>2
<1> QED BY <1>2, <1>3, <1>4, <1>6, <1>7 DEF IInv, Ranges, Inside

\* A step inside an instruction that leaves the instructions as they are.
LEMMA InsideIsPlaced ==
    ASSUME IInv, phase \in Inside, phase' \in Inside, currentLine' \in currentLine..Count,
           UNCHANGED <<file, start, comments, nodes>>,
           words' \in Seq(Nat), content' \in Seq(Nat), heredocs' \in Seq(Seq(Nat))
    PROVE  IInv'
<1>1. Count \in Nat /\ Count' = Count /\ currentLine \in Nat /\ start \in 1..currentLine
  BY CountType DEF IInv, TypeOK, Ranges, Count
<1>2. TypeOK'
  BY <1>1 DEF TypeOK, IInv
<1>3. Before' = Before /\ start \in 1..currentLine'
  BY <1>1 DEF Before
<1>4. Ascending' /\ \A l : Placed(l)' <=> Placed(l)
  BY DEF IInv, Ranges, Ascending, Placed, Line
<1> QED BY <1>2, <1>3, <1>4 DEF IInv, Ranges, Inside

LEMMA FailIsPlaced == ASSUME IInv, NEW lines, Fail(lines) PROVE IInv'
BY DEF Fail, IInv, TypeOK, Ranges, Ascending, Count, instruction, docs, Inside

LEMMA NextHolds == IInv /\ [Next]_vars => IInv'
<1> SUFFICES ASSUME IInv, [Next]_vars PROVE IInv'
  OBVIOUS
<1>1. Count \in Nat /\ currentLine \in 0..Count /\ (Scan => Upcoming \in 1..Count /\ Upcoming \in Nat)
  BY CountType DEF IInv, TypeOK, Scan, Upcoming
<1>2. comments \in Seq(Nat) /\ words \in Seq(Nat) /\ content \in Seq(Nat) /\ heredocs \in Seq(Seq(Nat))
  BY DEF IInv, TypeOK
<1>3. CASE SkipLine
  <2>1. comments' \in Seq(Nat)
    BY <1>1, <1>2, <1>3 DEF SkipLine
  <2> QED BY <1>3, <2>1, LineIsPlaced DEF SkipLine
<1>4. CASE Directive
  <2>1. comments' \in Seq(Nat) /\ Line(Upcoming).kind = "directive"
    BY <1>1, <1>2, <1>4 DEF Directive, Done
  <2> QED BY <1>4, <2>1, LineIsPlaced DEF Directive
<1>5. CASE DirectiveFails
  BY <1>5, FailIsPlaced DEF DirectiveFails
<1>6. CASE StartInstruction
  <2>1. words' \in Seq(Nat) /\ start' = Upcoming /\ currentLine' = Upcoming /\ phase' \in Inside /\ phase = "line"
    BY <1>1, <1>6 DEF StartInstruction, StartLine, NextPhase, Inside
  <2>2. UNCHANGED <<file, comments, content, heredocs, nodes>>
    BY <1>6 DEF StartInstruction, docs
  <2>3. TypeOK'
    BY <1>1, <1>6, <2>1, <2>2 DEF StartInstruction, TypeOK, IInv, Count, Inside
  <2>4. Before = currentLine /\ Before' = currentLine /\ start' \in 1..currentLine'
    BY <1>1, <1>6, <2>1 DEF StartInstruction, Before, Inside, Upcoming
  <2>5. Ascending' /\ \A l : Placed(l)' <=> Placed(l)
    BY <2>2 DEF IInv, Ranges, Ascending, Placed, Line
  <2> QED BY <2>1, <2>2, <2>3, <2>4, <2>5 DEF IInv, Ranges, Inside
<1>7. CASE ContinueInstruction
  <2>1. phase \in Inside /\ phase' \in Inside /\ words' \in Seq(Nat) /\ currentLine' \in currentLine..Count
    <3>1. phase = "continue" /\ Scan /\ currentLine' = Upcoming /\ Upcoming \in currentLine..Count
      BY <1>1, <1>7 DEF ContinueInstruction, Upcoming
    <3>2. CASE Line(Upcoming).kind = "code"
      <4>1. words' = Append(words, Upcoming) /\ phase' = NextPhase(Upcoming)
        BY <1>7, <3>2 DEF ContinueInstruction, IsComment
      <4> QED BY <1>1, <1>2, <3>1, <4>1 DEF NextPhase, Inside
    <3>3. CASE Line(Upcoming).kind # "code"
      <4>1. UNCHANGED <<phase, words>>
        BY <1>7, <3>3 DEF ContinueInstruction
      <4> QED BY <1>2, <3>1, <4>1 DEF Inside
    <3> QED BY <3>2, <3>3
  <2> QED BY <1>2, <1>7, <2>1, InsideIsPlaced DEF ContinueInstruction, docs
<1>8. CASE EndOfInstruction
  <2>1. phase \in Inside /\ phase' \in Inside /\ currentLine' \in currentLine..Count
    BY <1>1, <1>8 DEF EndOfInstruction, Inside
  <2> QED BY <1>2, <1>8, <2>1, InsideIsPlaced DEF EndOfInstruction, docs, instruction
<1>9. CASE NodeFails
  BY <1>9, FailIsPlaced DEF NodeFails
<1>10. CASE NewNode
  <2>1. heredocs' \in Seq(Seq(Nat)) /\ content' \in Seq(Nat) /\ UNCHANGED <<file, currentLine, instruction>>
    BY <1>10 DEF NewNode
  <2>2. phase \in Inside /\ start \in 1..currentLine
    BY <1>10 DEF NewNode, Inside, IInv, Ranges
  <2>3. CASE Heredocs = <<>>
    <3>1. AddChild(currentLine, <<>>) /\ currentLine \in start..Count
      BY <1>1, <1>10, <2>2, <2>3 DEF NewNode
    <3>2. <<>> \in Seq(Seq(Nat)) /\ UNCHANGED <<start, words>> /\ currentLine <= currentLine
      BY <1>1, <2>1 DEF instruction
    <3> QED BY <2>1, <2>2, <3>1, <3>2, ChildIsPlaced
  <2>4. CASE Heredocs # <<>>
    <3>1. phase' \in Inside /\ UNCHANGED <<nodes, comments>> /\ currentLine' \in currentLine..Count
      BY <1>1, <1>10, <2>1, <2>4 DEF NewNode, Inside
    <3> QED BY <1>2, <2>1, <2>2, <3>1, InsideIsPlaced DEF instruction
  <2> QED BY <2>3, <2>4
<1>11. CASE ReadHeredoc
  <2>1. phase \in Inside /\ phase' \in Inside /\ content' \in Seq(Nat) /\ currentLine' \in currentLine..Count
    BY <1>1, <1>2, <1>11 DEF ReadHeredoc, Inside, Upcoming
  <2> QED BY <1>2, <1>11, <2>1, InsideIsPlaced DEF ReadHeredoc, instruction
<1>12. CASE EndHeredoc
  <2>1. heredocs' = Append(heredocs, content) /\ heredocs' \in Seq(Seq(Nat)) /\ content' \in Seq(Nat)
    BY <1>2, <1>12 DEF EndHeredoc
  <2>2. phase \in Inside /\ start \in 1..currentLine /\ currentLine' = Upcoming
    BY <1>12 DEF EndHeredoc, Inside, IInv, Ranges
  <2>3. UNCHANGED <<file, start, words>>
    BY <1>12 DEF EndHeredoc, instruction
  <2>4. Scan /\ Upcoming \in start..Count /\ currentLine <= Upcoming /\ Upcoming \in currentLine..Count
    BY <1>1, <1>12, <2>2 DEF EndHeredoc, Upcoming
  <2>5. CASE Len(pending) = 1
    <3>1. AddChild(Upcoming, Append(heredocs, content))
      BY <1>12, <2>5 DEF EndHeredoc
    <3> QED BY <2>1, <2>2, <2>3, <2>4, <3>1, ChildIsPlaced
  <2>6. CASE Len(pending) # 1
    <3>1. UNCHANGED <<phase, nodes, comments>>
      BY <1>12, <2>6 DEF EndHeredoc
    <3> QED BY <1>2, <2>1, <2>2, <2>3, <2>4, <3>1, InsideIsPlaced
  <2> QED BY <2>5, <2>6
<1>13. CASE Unterminated
  BY <1>13, FailIsPlaced DEF Unterminated
<1>14. CASE Finish
  BY <1>14 DEF Finish, ScannedAll, IInv, TypeOK, Ranges, Ascending, Placed, Before, Line, Count, instruction, docs, Inside
<1>15. CASE FinishFails
  BY <1>15, FailIsPlaced DEF FinishFails
<1>16. CASE UNCHANGED vars
  BY <1>16 DEF vars, IInv, TypeOK, Ranges, Ascending, Placed, Before, Line, Count, instruction, docs
<1> QED BY <1>3, <1>4, <1>5, <1>6, <1>7, <1>8, <1>9, <1>10, <1>11, <1>12, <1>13, <1>14, <1>15, <1>16 DEF Next

LEMMA InductiveInvariant == Spec => []IInv
BY InitHolds, NextHolds, PTL DEF Spec

\* Of every recipe, of any length: instructions take its lines in turn, and
\* when Parse accepts it no line of code is left out.
THEOREM LinesArePlaced == Spec => []EveryLineIsPlaced
<1>1. IInv => EveryLineIsPlaced
  BY DEF IInv, Ranges, Ascending, Placed, Before, Inside, EveryLineIsPlaced
<1> QED BY <1>1, InductiveInvariant, PTL

\* Whatever stops the scanner, Parse accepts no recipe that it has read in part.
THEOREM RecipesAreReadToTheEnd == Spec => []ReadToTheEnd
<1>1. IInv => ReadToTheEnd
  BY DEF IInv, Ranges, ReadToTheEnd
<1> QED BY <1>1, InductiveInvariant, PTL

(***************************************************************************)
(* The directives                                                          *)
(***************************************************************************)

\* The first D lines are directives, and what they say is what is kept of them.
Directed(D) ==
    /\ \A i \in 1..D : Line(i).kind = "directive"
    /\ \A i, j \in 1..D : Line(i).key = Line(j).key => i = j
    /\ directives.seen = {Line(i).key : i \in 1..D}
    /\ \A i \in 1..D : Line(i).key = "escape" => directives.escape = Line(i).value
    /\ (\A i \in 1..D : Line(i).key # "escape") => directives.escape = "backslash"
    /\ directives.done => D < currentLine /\ Line(D + 1).kind # "directive"
    /\ ~directives.done => D = currentLine

DirectivesRead ==
    /\ directives = [escape |-> directives.escape, seen |-> directives.seen, done |-> directives.done]
    /\ directives.done \in BOOLEAN
    /\ phase \in Inside \/ nodes # <<>> => directives.done
    /\ \E D \in 0..currentLine : Directed(D)

LEMMA DirectivesInit == Init => DirectivesRead
<1> SUFFICES ASSUME Init PROVE DirectivesRead
  OBVIOUS
<1>1. Directed(0) /\ 0 \in 0..currentLine
  BY DEF Init, Directed
<1> QED BY <1>1 DEF Init, DirectivesRead, Inside

\* Other lines do not change what the directives say.
LEMMA DirectivesStay ==
    ASSUME IInv, DirectivesRead, UNCHANGED <<file, directives>>, currentLine' \in Nat, currentLine <= currentLine',
           directives.done \/ currentLine' = currentLine,
           phase' \in Inside \/ nodes' # <<>> => phase \in Inside \/ nodes # <<>>
    PROVE  DirectivesRead'
<1>1. PICK D \in 0..currentLine : Directed(D)
  BY DEF DirectivesRead
<1>2. currentLine \in Nat
  BY CountType DEF IInv, TypeOK
<1>3. Directed(D)' /\ D \in 0..currentLine'
  BY <1>1, <1>2 DEF Directed, DirectivesRead, Line
<1> QED BY <1>3 DEF DirectivesRead

\* A line that is no directive ends them.
LEMMA DirectivesEnd ==
    ASSUME IInv, DirectivesRead, Scan, UNCHANGED file, currentLine' = Upcoming,
           Done(Upcoming), directives' = [directives EXCEPT !.done = Done(Upcoming)]
    PROVE  DirectivesRead'
<1>1. PICK D \in 0..currentLine : Directed(D)
  BY DEF DirectivesRead
<1>2. currentLine \in Nat /\ Upcoming = currentLine + 1
  BY CountType DEF IInv, TypeOK, Upcoming
<1>3. directives' = [escape |-> directives.escape, seen |-> directives.seen, done |-> TRUE]
  BY DEF DirectivesRead, Done
<1>4. directives.done \/ (~directives.done /\ Line(Upcoming).kind # "directive")
  BY DEF Done
<1>5. D < currentLine' /\ Line(D + 1).kind # "directive"
  BY <1>1, <1>2, <1>4 DEF Directed
<1>6. Directed(D)' /\ D \in 0..currentLine'
  BY <1>1, <1>2, <1>3, <1>5 DEF Directed, Line
<1> QED BY <1>3, <1>6 DEF DirectivesRead

LEMMA DirectiveIsRead ==
    ASSUME IInv, DirectivesRead, Directive
    PROVE  DirectivesRead'
<1>1. PICK D \in 0..currentLine : Directed(D)
  BY DEF DirectivesRead
<1>2. currentLine \in Nat /\ Upcoming = currentLine + 1 /\ currentLine' = Upcoming
  BY CountType DEF IInv, TypeOK, Upcoming, Directive
<1>3. ~directives.done /\ Line(Upcoming).kind = "directive" /\ D = currentLine
  BY <1>1 DEF Directive, Done, Directed
<1> DEFINE new == Line(Upcoming)
<1>4. directives' = [escape |-> IF new.key = "escape" THEN new.value ELSE directives.escape,
                     seen |-> directives.seen \cup {new.key}, done |-> directives.done]
  BY DEF Directive, DirectivesRead
<1>5. new.key \notin {Line(i).key : i \in 1..D}
  BY <1>1 DEF Directive, Rejects, Directed
<1>6. UNCHANGED <<file, nodes, phase>> /\ \A i : Line(i)' = Line(i)
  BY DEF Directive, Line
<1>7. PICK N \in Nat : N = currentLine + 1
  BY <1>2
<1>8. Directed(N)'
  <2>1. \A i \in 1..N : i \in 1..D \/ i = Upcoming
    BY <1>2, <1>3, <1>7
  <2>2. \A i \in 1..N : Line(i).kind = "directive"
    BY <1>1, <1>3, <2>1 DEF Directed
  <2>3. \A i, j \in 1..N : Line(i).key = Line(j).key => i = j
    BY <1>1, <1>5, <2>1 DEF Directed
  <2>4. directives.seen \cup {new.key} = {Line(i).key : i \in 1..N}
    <3>1. 1..N = (1..D) \cup {Upcoming}
      BY <1>2, <1>3, <1>7
    <3> QED BY <1>1, <3>1 DEF Directed
  <2>5. \A i \in 1..N : Line(i).key = "escape" => directives'.escape = Line(i).value
    BY <1>1, <1>4, <1>5, <2>1 DEF Directed
  <2>6. (\A i \in 1..N : Line(i).key # "escape") => directives'.escape = "backslash"
    BY <1>1, <1>2, <1>3, <1>4, <1>7 DEF Directed
  <2>7. directives'.seen = directives.seen \cup {new.key} /\ ~directives'.done /\ currentLine' = N
    BY <1>2, <1>3, <1>4, <1>7
  <2> QED BY <1>6, <2>2, <2>3, <2>4, <2>5, <2>6, <2>7 DEF Directed
<1>9. phase = "line" /\ nodes = <<>>
  BY <1>3 DEF Directive, DirectivesRead
<1>10. N \in 0..currentLine'
  BY <1>2, <1>7
<1> QED BY <1>3, <1>4, <1>6, <1>8, <1>9, <1>10 DEF DirectivesRead, Inside

(***************************************************************************)
(* The words and comments of an instruction                                *)
(***************************************************************************)

SetOf(s) == {s[i] : i \in 1..Len(s)}
Code(a, b) == {l \in a..b : Line(l).kind = "code"}
Blanks(a, b) == {l \in a..b : Line(l).kind = "blank"}
CommentsIn(a, b) == {l \in a..b : IsComment(l) /\ \A e \in l..b : ~EmptyComment(e)}

\* CommentsOfTheNext of one instruction.
FirstAfter(k) == IF k = 1 THEN 1 ELSE nodes[k - 1].end + 1
CommentsAre(k) == SetOf(nodes[k].comments) = CommentsIn(FirstAfter(k), nodes[k].start - 1)

LastEnd == IF nodes = <<>> THEN 0 ELSE nodes[Len(nodes)].end

\* The comments that wait are those since the last instruction.
CommentsKept == phase \in Inside \cup {"line"} => SetOf(comments) = CommentsIn(LastEnd + 1, Before)

\* The words are the lines of code up to a line, and continue each other.
Gathered(end) ==
    /\ words # <<>> /\ Last(words) <= end
    /\ SetOf(words) = Code(start, end)
    /\ \A i \in 1..Len(words) - 1 : words[i] < words[i + 1] /\ Continues(words[i])

\* What is known of the instruction that is read, phase by phase.
WordsKept ==
    /\ warnings \in SUBSET Nat
    /\ phase \in {"continue", "node"} =>
           /\ Gathered(currentLine)
           /\ hasEmptyContinuationLine = (Blanks(start, currentLine) # {})
           /\ \A w \in warnings : w < start
    /\ phase = "continue" => Continues(Last(words))
    /\ phase \in {"node", "heredoc"} => IF Continues(Last(words)) THEN ~Scan ELSE phase = "node" => Last(words) = currentLine
    /\ phase = "heredoc" /\ Scan =>
           /\ Gathered(Last(words)) /\ Last(words) <= currentLine
           /\ Last(words) \in warnings <=> Blanks(start, Last(words)) # {}
           /\ \A w \in warnings : w < start \/ w = Last(words)
    /\ phase = "line" => \A w \in warnings : w <= currentLine

\* InstructionsAreWhole of one instruction.
NodeIsWhole(n) ==
    /\ Code(n.start, LogicalEnd(n)) = SetOf(n.words)
    /\ \A i \in 1..Len(n.words) - 1 : n.words[i] < n.words[i + 1] /\ Line(n.words[i]).cont = Declared
    /\ Line(Last(n.words)).cont = Declared => n.end = Count \/ Line(n.end + 1).kind = "long"
    /\ LogicalEnd(n) \in warnings <=> Blanks(n.start, LogicalEnd(n)) # {}

NodesKept == \A k \in 1..Len(nodes) : NodeIsWhole(nodes[k]) /\ LogicalEnd(nodes[k]) \in 0..nodes[k].end

WholeInv == CommentsKept /\ WordsKept /\ NodesKept /\ \A k \in 1..Len(nodes) : CommentsAre(k)

LEMMA WholeInit == Init => WholeInv
BY DEF Init, WholeInv, CommentsKept, WordsKept, NodesKept, SetOf, CommentsIn, LastEnd, Before, Inside

\* When the directives are over, the escape token is the one they declare.
LEMMA EscapeIsDeclared ==
    ASSUME IInv, DirectivesRead, directives.done
    PROVE  directives.escape = Declared
<1>1. PICK D \in 0..currentLine : Directed(D)
  BY DEF DirectivesRead
<1>2. Count \in Nat /\ currentLine \in 0..Count
  BY CountType DEF IInv, TypeOK
<1>3. D < currentLine /\ Line(D + 1).kind # "directive" /\ \A i \in 1..D : Line(i).kind = "directive"
  BY <1>1 DEF Directed
<1>4. Leading = 1..D
  <2>1. ASSUME NEW i \in Leading PROVE i \in 1..D
    <3>1. i \in 1..Count /\ \A j \in 1..i : Line(j).kind = "directive"
      BY DEF Leading
    <3>2. ~(D + 1 <= i)
      BY <1>2, <1>3, <3>1
    <3> QED BY <1>2, <3>1, <3>2
  <2>2. ASSUME NEW i \in 1..D PROVE i \in Leading
    BY <1>2, <1>3 DEF Leading
  <2> QED BY <2>1, <2>2
<1>5. CASE \A i \in 1..D : Line(i).key # "escape"
  BY <1>1, <1>4, <1>5 DEF Declared, Directed
<1>6. CASE \E i \in 1..D : Line(i).key = "escape"
  <2> DEFINE set == {i \in Leading : Line(i).key = "escape"}
             e == CHOOSE i \in set : TRUE
  <2>1. e \in set /\ set # {}
    BY <1>4, <1>6
  <2>2. Declared = Line(e).value
    BY <2>1 DEF Declared
  <2>3. e \in 1..D /\ Line(e).key = "escape"
    <3> HIDE DEF e
    <3> QED BY <1>4, <2>1
  <2> HIDE DEF e
  <2> QED BY <1>1, <2>2, <2>3 DEF Directed
<1> QED BY <1>5, <1>6

(* What leaves the instructions that have been read alone *)

LEMMA NodeStays ==
    ASSUME NEW n, NodeIsWhole(n), UNCHANGED file, LogicalEnd(n) \in warnings' <=> LogicalEnd(n) \in warnings
    PROVE  NodeIsWhole(n)'
<1>1. Declared' = Declared /\ Count' = Count /\ \A l : Line(l)' = Line(l)
  BY DEF Declared, Leading, Line, Count
<1>2. /\ Code(n.start, LogicalEnd(n))' = Code(n.start, LogicalEnd(n))
      /\ Blanks(n.start, LogicalEnd(n))' = Blanks(n.start, LogicalEnd(n))
  BY DEF Code, Blanks, Line
<1> QED BY <1>1, <1>2 DEF NodeIsWhole

\* Warnings of later lines do not matter to an instruction.
LEMMA NodesStay ==
    ASSUME IInv, NodesKept, UNCHANGED <<file, nodes>>,
           \A k \in 1..Len(nodes) : LogicalEnd(nodes[k]) \in warnings' <=> LogicalEnd(nodes[k]) \in warnings
    PROVE  NodesKept'
<1>1. ASSUME NEW k \in 1..Len(nodes) PROVE NodeIsWhole(nodes[k])' /\ LogicalEnd(nodes[k]) \in 0..nodes[k].end
  <2>1. NodeIsWhole(nodes[k]) /\ LogicalEnd(nodes[k]) \in 0..nodes[k].end
    BY DEF NodesKept
  <2>2. PICK n : n = nodes[k]
    OBVIOUS
  <2>3. NodeIsWhole(n)'
    BY <2>1, <2>2, NodeStays
  <2> QED BY <2>1, <2>2, <2>3
<1> QED BY <1>1 DEF NodesKept

LEMMA CommentsStay ==
    ASSUME \A k \in 1..Len(nodes) : CommentsAre(k), UNCHANGED <<file, nodes>>
    PROVE  (\A k \in 1..Len(nodes) : CommentsAre(k))'
<1> SUFFICES ASSUME NEW k \in 1..Len(nodes) PROVE CommentsAre(k)'
  OBVIOUS
<1>1. PICK a, b : a = FirstAfter(k) /\ b = nodes[k].start - 1
  OBVIOUS
<1>2. CommentsIn(a, b)' = CommentsIn(a, b)
  BY DEF CommentsIn, IsComment, EmptyComment, Line
<1>3. SetOf(nodes[k].comments) = CommentsIn(a, b)
  BY <1>1 DEF CommentsAre
<1>4. a = FirstAfter(k)' /\ b = nodes'[k].start - 1
  BY <1>1 DEF FirstAfter
<1> QED BY <1>2, <1>3, <1>4 DEF CommentsAre

LEMMA EndsAreNumbers ==
    ASSUME IInv
    PROVE  /\ Len(nodes) \in Nat
           /\ \A k \in 1..Len(nodes) : nodes[k].end \in Nat /\ nodes[k].start \in Nat
           /\ LastEnd \in Nat
           /\ phase # "failed" => LastEnd <= Before
<1>1. \A k \in 1..Len(nodes) : nodes[k] \in Node
  BY DEF IInv, TypeOK
<1>2. Len(nodes) \in Nat /\ (nodes # <<>> => Len(nodes) \in 1..Len(nodes))
  BY DEF IInv, TypeOK
<1>3. \A k \in 1..Len(nodes) : nodes[k].end \in Nat /\ nodes[k].start \in Nat
  BY <1>1 DEF Node
<1>4. 0 <= Before
  BY DEF Before, IInv, TypeOK, Ranges
<1> QED BY <1>2, <1>3, <1>4 DEF LastEnd, IInv, Ranges

(* The lines outside an instruction *)

LEMMA AppendSet ==
    ASSUME NEW S, NEW s \in Seq(S), NEW e \in S
    PROVE  SetOf(Append(s, e)) = SetOf(s) \cup {e}
<1>1. Len(Append(s, e)) = Len(s) + 1 /\ Len(s) \in Nat
  OBVIOUS
<1>2. \A i \in 1..Len(s) : Append(s, e)[i] = s[i]
  OBVIOUS
<1>3. Append(s, e)[Len(s) + 1] = e
  OBVIOUS
<1>4. 1..(Len(s) + 1) = (1..Len(s)) \cup {Len(s) + 1}
  BY <1>1
<1> QED BY <1>1, <1>2, <1>3, <1>4 DEF SetOf

\* One more line is a comment, an empty comment, or blank.
LEMMA CommentsGrow ==
    ASSUME NEW a \in Nat, NEW b \in Nat, a <= b + 1
    PROVE  CommentsIn(a, b + 1) = IF EmptyComment(b + 1) THEN {}
                                  ELSE CommentsIn(a, b) \cup (IF IsComment(b + 1) THEN {b + 1} ELSE {})
<1>1. a..(b + 1) = (a..b) \cup {b + 1}
  OBVIOUS
<1>2. \A l \in a..(b + 1) : l..(b + 1) = (l..b) \cup {b + 1}
  OBVIOUS
<1>3. CASE EmptyComment(b + 1)
  BY <1>1, <1>2, <1>3 DEF CommentsIn
<1>4. CASE ~EmptyComment(b + 1)
  <2>1. \A l \in a..b : (\A e \in l..(b + 1) : ~EmptyComment(e)) <=> (\A e \in l..b : ~EmptyComment(e))
    BY <1>1, <1>2, <1>4
  <2>2. \A e \in (b + 1)..(b + 1) : ~EmptyComment(e)
    BY <1>4
  <2> QED BY <1>1, <1>4, <2>1, <2>2 DEF CommentsIn
<1> QED BY <1>3, <1>4

LEMMA OutsideIsKept ==
    ASSUME IInv, WholeInv, SkipLine \/ Directive
    PROVE  WholeInv'
<1>1. /\ phase = "line" /\ phase' = "line" /\ currentLine' = Upcoming /\ currentLine \in Nat /\ Upcoming = currentLine + 1
      /\ UNCHANGED <<file, nodes, warnings>>
  BY CountType DEF SkipLine, Directive, IInv, TypeOK, Upcoming
<1>2. CommentsKept'
  <2>1. SetOf(comments) = CommentsIn(LastEnd + 1, currentLine) /\ comments \in Seq(Nat)
    BY <1>1 DEF WholeInv, CommentsKept, Before, Inside, IInv, TypeOK
  <2>2. LastEnd + 1 \in Nat /\ LastEnd + 1 <= currentLine + 1
    BY <1>1, EndsAreNumbers DEF Before, Inside
  <2>3. SetOf(comments') = IF EmptyComment(Upcoming) THEN {}
                           ELSE SetOf(comments) \cup (IF IsComment(Upcoming) THEN {Upcoming} ELSE {})
    <3>1. SetOf(Append(comments, Upcoming)) = SetOf(comments) \cup {Upcoming}
      BY <1>1, <2>1, AppendSet
    <3>2. SetOf(<<>>) = {}
      BY DEF SetOf
    <3>3. CASE SkipLine
      BY <3>1, <3>2, <3>3 DEF SkipLine, IsComment, EmptyComment
    <3>4. CASE Directive
      BY <3>1, <3>4 DEF Directive, Done, IsComment, EmptyComment
    <3> QED BY <3>3, <3>4
  <2>4. SetOf(comments') = CommentsIn(LastEnd + 1, Upcoming)
    BY <1>1, <2>1, <2>2, <2>3, CommentsGrow
  <2>5. LastEnd' = LastEnd /\ Before' = Upcoming
    BY <1>1 DEF LastEnd, Before, Inside
  <2>6. SetOf(comments)' = CommentsIn(LastEnd + 1, Before)'
    BY <1>1, <2>4, <2>5 DEF CommentsIn, IsComment, EmptyComment, Line, SetOf
  <2> QED BY <2>6 DEF CommentsKept
<1>3. WordsKept'
  <2>1. warnings \in SUBSET Nat /\ \A w \in warnings : w <= currentLine
    BY <1>1 DEF WholeInv, WordsKept
  <2> QED BY <1>1, <2>1 DEF WordsKept
<1>4. NodesKept' /\ (\A k \in 1..Len(nodes) : CommentsAre(k))'
  BY <1>1, NodesStay, CommentsStay DEF WholeInv
<1> QED BY <1>2, <1>3, <1>4 DEF WholeInv

LEMMA EndIsKept ==
    ASSUME IInv, WholeInv, phase' \in {"parsed", "failed"}, UNCHANGED <<file, nodes, warnings>>
    PROVE  WholeInv'
<1>1. NodesKept' /\ (\A k \in 1..Len(nodes) : CommentsAre(k))'
  BY NodesStay, CommentsStay DEF WholeInv
<1>2. CommentsKept' /\ WordsKept'
  BY DEF CommentsKept, WordsKept, WholeInv, Inside
<1> QED BY <1>1, <1>2 DEF WholeInv

(* The lines of an instruction *)

LEMMA LinesGrow ==
    ASSUME NEW a \in Nat, NEW b \in Nat, a <= b + 1
    PROVE  /\ Code(a, b + 1) = Code(a, b) \cup (IF Line(b + 1).kind = "code" THEN {b + 1} ELSE {})
           /\ Blanks(a, b + 1) = Blanks(a, b) \cup (IF Line(b + 1).kind = "blank" THEN {b + 1} ELSE {})
<1>1. a..(b + 1) = (a..b) \cup {b + 1}
  OBVIOUS
<1> QED BY <1>1 DEF Code, Blanks

LEMMA LinesStay ==
    ASSUME UNCHANGED file, NEW a, NEW b
    PROVE  Code(a, b)' = Code(a, b) /\ Blanks(a, b)' = Blanks(a, b)
BY DEF Code, Blanks, Line

LEMMA StartIsKept ==
    ASSUME IInv, WholeInv, StartInstruction
    PROVE  WholeInv'
<1>1. /\ phase = "line" /\ phase' = NextPhase(Upcoming) /\ phase' \in {"continue", "node"}
      /\ currentLine' = Upcoming /\ start' = Upcoming /\ words' = <<Upcoming>> /\ hasEmptyContinuationLine' = FALSE
      /\ currentLine \in Nat /\ Upcoming = currentLine + 1 /\ Line(Upcoming).kind = "code"
      /\ UNCHANGED <<file, comments, nodes, warnings>> /\ directives'.escape = directives.escape
  BY CountType DEF StartInstruction, StartLine, NextPhase, IInv, TypeOK, Upcoming
<1>2. CommentsKept'
  <2>1. SetOf(comments) = CommentsIn(LastEnd + 1, currentLine)
    BY <1>1 DEF WholeInv, CommentsKept, Before, Inside
  <2>2. PICK a, b : a = LastEnd + 1 /\ b = currentLine
    OBVIOUS
  <2>3. LastEnd' + 1 = a /\ Before' = b
    BY <1>1, <2>2 DEF LastEnd, Before, Inside
  <2>4. CommentsIn(a, b)' = CommentsIn(a, b)
    BY <1>1 DEF CommentsIn, IsComment, EmptyComment, Line
  <2> QED BY <1>1, <2>1, <2>2, <2>3, <2>4 DEF CommentsKept, SetOf
<1>3. WordsKept'
  <2>1. warnings \in SUBSET Nat /\ \A w \in warnings : w < Upcoming
    BY <1>1 DEF WholeInv, WordsKept
  <2>2. PICK u \in Nat : u = Upcoming
    BY <1>1
  <2>3. Code(u, u) = {u} /\ Blanks(u, u) = {}
    BY <1>1, <2>2 DEF Code, Blanks
  <2>4. Code(start, currentLine)' = {u} /\ Blanks(start, currentLine)' = {}
    BY <1>1, <2>2, <2>3, LinesStay
  <2>5. SetOf(words)' = {u} /\ Last(words)' = u /\ Len(words') = 1 /\ words' # <<>>
    BY <1>1, <2>2 DEF SetOf, Last
  <2>6. Gathered(currentLine)'
    BY <1>1, <2>2, <2>4, <2>5 DEF Gathered
  <2>7. Continues(Last(words))' <=> Continues(Upcoming)
    BY <1>1, <2>2, <2>5 DEF Continues, Line
  <2> QED BY <1>1, <2>1, <2>2, <2>4, <2>5, <2>6, <2>7 DEF WordsKept, NextPhase
<1>4. NodesKept' /\ (\A k \in 1..Len(nodes) : CommentsAre(k))'
  BY <1>1, NodesStay, CommentsStay DEF WholeInv
<1> QED BY <1>2, <1>3, <1>4 DEF WholeInv

\* Inside an instruction the comments wait.
LEMMA InsideIsKept ==
    ASSUME IInv, WholeInv, phase \in Inside, phase' \in Inside, UNCHANGED <<file, start, comments, nodes>>,
           \A k \in 1..Len(nodes) : LogicalEnd(nodes[k]) \in warnings' <=> LogicalEnd(nodes[k]) \in warnings
    PROVE  CommentsKept' /\ NodesKept' /\ (\A k \in 1..Len(nodes) : CommentsAre(k))'
<1>1. CommentsKept'
  <2>1. SetOf(comments) = CommentsIn(LastEnd + 1, start - 1)
    BY DEF WholeInv, CommentsKept, Before
  <2>2. PICK a, b : a = LastEnd + 1 /\ b = start - 1
    OBVIOUS
  <2>3. LastEnd' + 1 = a /\ Before' = b
    BY <2>2 DEF LastEnd, Before
  <2>4. CommentsIn(a, b)' = CommentsIn(a, b)
    BY DEF CommentsIn, IsComment, EmptyComment, Line
  <2> QED BY <2>1, <2>2, <2>3, <2>4 DEF CommentsKept, SetOf
<1> QED BY <1>1, NodesStay, CommentsStay DEF WholeInv

LEMMA WordsAreNumbers ==
    ASSUME IInv, words # <<>>
    PROVE  /\ Len(words) \in Nat \ {0} /\ Last(words) \in Nat /\ Last(words) = words[Len(words)]
           /\ \A i \in 1..Len(words) : words[i] \in Nat
BY DEF IInv, TypeOK, Last

LEMMA ContinueIsKept ==
    ASSUME IInv, WholeInv, ContinueInstruction
    PROVE  WholeInv'
<1>1. /\ phase = "continue" /\ currentLine' = Upcoming /\ currentLine \in Nat /\ Upcoming = currentLine + 1
      /\ start \in 1..currentLine
      /\ UNCHANGED <<file, directives, comments, start, nodes, warnings>>
  BY CountType DEF ContinueInstruction, IInv, TypeOK, Upcoming, docs, Ranges, Inside
<1>2. phase' \in {"continue", "node"}
  BY <1>1 DEF ContinueInstruction, NextPhase
<1>3. /\ Gathered(currentLine) /\ hasEmptyContinuationLine = (Blanks(start, currentLine) # {})
      /\ warnings \in SUBSET Nat /\ (\A w \in warnings : w < start) /\ Continues(Last(words))
  BY <1>1 DEF WholeInv, WordsKept
<1>4. /\ Code(start, Upcoming) = Code(start, currentLine) \cup (IF Line(Upcoming).kind = "code" THEN {Upcoming} ELSE {})
      /\ Blanks(start, Upcoming) = Blanks(start, currentLine) \cup (IF Line(Upcoming).kind = "blank" THEN {Upcoming} ELSE {})
  <2>1. start \in Nat /\ start <= currentLine + 1
    BY <1>1
  <2> HIDE DEF Code, Blanks
  <2> QED BY <1>1, <2>1, LinesGrow
<1>5. PICK u, b \in Nat : u = Upcoming /\ b = start
  BY <1>1
<1>6. Code(start, currentLine)' = Code(start, Upcoming) /\ Blanks(start, currentLine)' = Blanks(start, Upcoming)
  BY <1>1, <1>5, LinesStay
<1>7. /\ Len(words) \in Nat \ {0} /\ Last(words) \in Nat /\ Last(words) = words[Len(words)] /\ words \in Seq(Nat)
      /\ Last(words) <= currentLine
  BY <1>3, WordsAreNumbers DEF Gathered, IInv, TypeOK
<1>8. Continues(Last(words))' <=> Line(Last(words)').cont = directives.escape
  BY <1>1 DEF Continues, Line
<1>9. WordsKept'
  <2>1. CASE Line(Upcoming).kind = "code"
    <3>1. /\ words' = Append(words, Upcoming) /\ phase' = NextPhase(Upcoming)
          /\ UNCHANGED hasEmptyContinuationLine
      BY <2>1 DEF ContinueInstruction, IsComment
    <3>2. /\ Len(words') = Len(words) + 1 /\ words'[Len(words) + 1] = Upcoming /\ words' # <<>>
          /\ \A i \in 1..Len(words) : words'[i] = words[i]
      BY <1>1, <1>7, <3>1
    <3>3. SetOf(words)' = SetOf(words) \cup {Upcoming}
      BY <1>1, <1>7, <3>1, AppendSet DEF SetOf
    <3>4. Last(words)' = Upcoming
      BY <3>2 DEF Last
    <3>5. \A i \in 1..Len(words') - 1 : words'[i] < words'[i + 1] /\ Continues(words[i])'
      <4> SUFFICES ASSUME NEW i \in 1..Len(words') - 1 PROVE words'[i] < words'[i + 1] /\ Continues(words[i])'
        OBVIOUS
      <4>1. CASE i = Len(words)
        BY <1>1, <1>3, <1>7, <3>2, <4>1 DEF Continues, Line
      <4>2. CASE i # Len(words)
        <5>1. i \in 1..Len(words) - 1 /\ i + 1 \in 1..Len(words) /\ i \in 1..Len(words)
          BY <1>7, <3>2, <4>2
        <5> QED BY <1>1, <1>3, <3>2, <5>1 DEF Gathered, Continues, Line
      <4> QED BY <4>1, <4>2
    <3>6. Gathered(currentLine)'
      <4>1. SetOf(words)' = Code(start, currentLine)'
        BY <1>3, <1>4, <1>6, <2>1, <3>3 DEF Gathered
      <4>2. Last(words)' <= currentLine'
        BY <1>1, <3>4
      <4> QED BY <3>2, <3>5, <4>1, <4>2 DEF Gathered
    <3>7. Continues(Last(words))' <=> Continues(Upcoming)
      BY <1>8, <3>4 DEF Continues
    <3>8. Blanks(start, currentLine)' = Blanks(start, currentLine)
      BY <1>4, <1>6, <2>1
    <3> QED BY <1>1, <1>2, <1>3, <3>1, <3>4, <3>6, <3>7, <3>8 DEF WordsKept, NextPhase
  <2>2. CASE Line(Upcoming).kind # "code"
    <3>1. /\ UNCHANGED <<phase, words>>
          /\ hasEmptyContinuationLine' = IF Line(Upcoming).kind = "blank" THEN TRUE ELSE hasEmptyContinuationLine
      BY <2>2 DEF ContinueInstruction, IsComment
    <3>2. Gathered(currentLine)'
      <4>1. Last(words) <= Upcoming /\ SetOf(words) = Code(start, Upcoming)
        <5>1. Last(words) <= Upcoming
          BY <1>1, <1>7
        <5>2. SetOf(words) = Code(start, Upcoming)
          BY <1>3, <1>4, <2>2 DEF Gathered
        <5> QED BY <5>1, <5>2
      <4> QED BY <1>1, <1>3, <1>6, <3>1, <4>1 DEF Gathered, SetOf, Last, Continues, Line
    <3>3. hasEmptyContinuationLine' = (Blanks(start, currentLine)' # {})
      BY <1>3, <1>4, <1>6, <3>1
    <3>4. Continues(Last(words))'
      BY <1>3, <1>8, <3>1 DEF Continues, Last
    <3> QED BY <1>1, <1>2, <1>3, <3>1, <3>2, <3>3, <3>4 DEF WordsKept
  <2> QED BY <2>1, <2>2
<1>10. CommentsKept' /\ NodesKept' /\ (\A k \in 1..Len(nodes) : CommentsAre(k))'
  BY <1>1, <1>2, InsideIsKept DEF Inside
<1> QED BY <1>9, <1>10 DEF WholeInv

LEMMA EndOfInstructionIsKept ==
    ASSUME IInv, WholeInv, EndOfInstruction
    PROVE  WholeInv'
<1>1. /\ phase = "continue" /\ phase' = "node" /\ ~Scan
      /\ UNCHANGED <<file, currentLine, directives, comments, start, words, hasEmptyContinuationLine, nodes, warnings>>
  BY DEF EndOfInstruction, instruction
<1>2. Scan' <=> Scan
  BY <1>1 DEF Scan, Upcoming, Count, Line
<1>3. WordsKept'
  <2>1. Gathered(currentLine)' /\ Blanks(start, currentLine)' = Blanks(start, currentLine) /\ Continues(Last(words))'
    BY <1>1 DEF WholeInv, WordsKept, Gathered, SetOf, Code, Blanks, Continues, Line
  <2> QED BY <1>1, <1>2, <2>1 DEF WholeInv, WordsKept
<1>4. CommentsKept' /\ NodesKept' /\ (\A k \in 1..Len(nodes) : CommentsAre(k))'
  BY <1>1, InsideIsKept DEF Inside
<1> QED BY <1>3, <1>4 DEF WholeInv

(* The end of an instruction *)

LEMMA ChildIsKept ==
    ASSUME IInv, IInv', WholeInv, phase \in Inside, NEW end \in Nat, NEW contents, currentLine' = end,
           AddChild(end, contents), UNCHANGED <<file, start, words>>,
           NEW n, n = [start |-> start, end |-> end, words |-> words, heredocs |-> contents, comments |-> comments],
           NodeIsWhole(n)', LogicalEnd(n) \in 0..end,
           warnings' \in SUBSET Nat, \A w \in warnings' : w <= end,
           \A w : w < start => (w \in warnings' <=> w \in warnings)
    PROVE  WholeInv'
<1>1. /\ nodes \in Seq(Node) /\ nodes' = Append(nodes, n) /\ comments' = <<>> /\ phase' = "line"
      /\ start \in Nat \ {0} /\ Len(nodes) \in Nat
  BY DEF AddChild, IInv, TypeOK, Ranges
<1>2. /\ Len(nodes') = Len(nodes) + 1 /\ nodes'[Len(nodes) + 1] = n
      /\ \A k \in 1..Len(nodes) : nodes'[k] = nodes[k]
  <2>1. n \in Node \/ n \notin Node
    OBVIOUS
  <2>2. n \in Node
    <3>1. nodes' \in Seq(Node)
      BY DEF IInv, TypeOK
    <3>2. Len(nodes') = Len(nodes) + 1 /\ nodes'[Len(nodes) + 1] = n
      BY <1>1
    <3> QED BY <1>1, <3>1, <3>2
  <2> QED BY <1>1, <2>2
<1>3. \A k \in 1..Len(nodes) : nodes[k].end \in Nat /\ nodes[k].end <= start - 1
  BY EndsAreNumbers DEF IInv, Ranges, Before, Inside
<1>4. NodesKept'
  <2> SUFFICES ASSUME NEW k \in 1..Len(nodes')
               PROVE  NodeIsWhole(nodes[k])' /\ LogicalEnd(nodes'[k]) \in 0..nodes'[k].end
    BY DEF NodesKept
  <2>1. CASE k = Len(nodes) + 1
    BY <1>2, <2>1
  <2>2. CASE k # Len(nodes) + 1
    <3>1. k \in 1..Len(nodes)
      BY <1>1, <1>2, <2>2
    <3>2. PICK m : m = nodes[k]
      OBVIOUS
    <3>3. NodeIsWhole(m) /\ LogicalEnd(m) \in 0..m.end
      BY <3>1, <3>2 DEF WholeInv, NodesKept
    <3>4. LogicalEnd(m) < start
      BY <1>1, <1>3, <3>1, <3>2, <3>3
    <3>5. NodeIsWhole(m)'
      BY <3>3, <3>4, NodeStays
    <3> QED BY <1>2, <3>1, <3>2, <3>3, <3>5
  <2> QED BY <2>1, <2>2
<1>5. (\A k \in 1..Len(nodes) : CommentsAre(k))'
  <2> SUFFICES ASSUME NEW k \in 1..Len(nodes') PROVE CommentsAre(k)'
    OBVIOUS
  <2>1. PICK a, b : a = FirstAfter(k)' /\ b = nodes'[k].start - 1
    OBVIOUS
  <2>2. CommentsIn(a, b)' = CommentsIn(a, b)
    BY DEF CommentsIn, IsComment, EmptyComment, Line
  <2>3. CASE k = Len(nodes) + 1
    <3>1. SetOf(comments) = CommentsIn(LastEnd + 1, start - 1)
      BY DEF WholeInv, CommentsKept, Before, Inside
    <3>2. nodes'[k].comments = comments /\ b = start - 1
      BY <1>2, <2>1, <2>3
    <3>3. a = LastEnd + 1
      <4>1. CASE nodes = <<>>
        BY <1>1, <2>1, <2>3, <4>1 DEF FirstAfter, LastEnd
      <4>2. CASE nodes # <<>>
        <5>1. Len(nodes) \in 1..Len(nodes) /\ k # 1 /\ k - 1 = Len(nodes)
          BY <1>1, <2>3, <4>2
        <5> QED BY <1>2, <2>1, <4>2, <5>1 DEF FirstAfter, LastEnd
      <4> QED BY <4>1, <4>2
    <3> QED BY <2>1, <2>2, <3>1, <3>2, <3>3 DEF CommentsAre
  <2>4. CASE k # Len(nodes) + 1
    <3>1. k \in 1..Len(nodes) /\ (k # 1 => k - 1 \in 1..Len(nodes))
      BY <1>1, <1>2, <2>4
    <3>2. nodes'[k] = nodes[k] /\ FirstAfter(k)' = FirstAfter(k)
      BY <1>2, <3>1 DEF FirstAfter
    <3>3. SetOf(nodes[k].comments) = CommentsIn(a, b)
      BY <2>1, <3>1, <3>2 DEF WholeInv, CommentsAre
    <3> QED BY <2>1, <2>2, <3>2, <3>3 DEF CommentsAre
  <2> QED BY <2>3, <2>4
<1>6. CommentsKept'
  <2>1. LastEnd' = end /\ Before' = end
    BY <1>1, <1>2 DEF LastEnd, Before, Inside
  <2>2. SetOf(<<>>) = {}
    BY DEF SetOf
  <2>3. CommentsIn(end + 1, end)' = {}
    BY DEF CommentsIn
  <2> QED BY <1>1, <2>1, <2>2, <2>3 DEF CommentsKept, SetOf
<1>7. WordsKept'
  BY <1>1 DEF WordsKept
<1> QED BY <1>4, <1>5, <1>6, <1>7 DEF WholeInv

\* Words that belong together make a whole instruction.
LEMMA GatheredIsWhole ==
    ASSUME IInv, NEW e \in Nat, Gathered(e), directives.escape = Declared, UNCHANGED <<file>>,
           NEW n, n.start = start, n.words = words, LogicalEnd(n) = e,
           Line(Last(words)).cont = Declared => n.end = Count \/ Line(n.end + 1).kind = "long",
           e \in warnings' <=> Blanks(start, e) # {}
    PROVE  NodeIsWhole(n)'
<1>1. Declared' = Declared /\ Count' = Count /\ \A l : Line(l)' = Line(l)
  BY DEF Declared, Leading, Line, Count
<1>2. PICK a : a = start
  OBVIOUS
<1>3. Code(a, e)' = Code(a, e) /\ Blanks(a, e)' = Blanks(a, e)
  BY LinesStay
<1>4. /\ SetOf(n.words) = Code(a, e)
      /\ \A i \in 1..Len(n.words) - 1 : n.words[i] < n.words[i + 1] /\ Line(n.words[i]).cont = Declared
  BY <1>2 DEF Gathered, Continues
<1> QED BY <1>1, <1>2, <1>3, <1>4 DEF NodeIsWhole

LEMMA NewNodeIsKept ==
    ASSUME IInv, IInv', DirectivesRead, WholeInv, NewNode
    PROVE  WholeInv'
<1>1. /\ phase = "node" /\ warnings' = Warnings /\ currentLine \in Nat /\ currentLine' = currentLine
      /\ start \in 1..currentLine /\ directives.done /\ directives.escape = Declared
      /\ UNCHANGED <<file, directives, start, words, hasEmptyContinuationLine>>
  BY CountType, EscapeIsDeclared DEF NewNode, IInv, TypeOK, Ranges, Inside, DirectivesRead, instruction
<1>2. /\ Gathered(currentLine) /\ hasEmptyContinuationLine = (Blanks(start, currentLine) # {})
      /\ warnings \in SUBSET Nat /\ (\A w \in warnings : w < start)
      /\ IF Continues(Last(words)) THEN ~Scan ELSE Last(words) = currentLine
  BY <1>1 DEF WholeInv, WordsKept
<1>3. words # <<>> /\ Last(words) \in Nat /\ Last(words) <= currentLine
  BY <1>2, WordsAreNumbers DEF Gathered
<1>4. /\ warnings' \in SUBSET Nat
      /\ \A w \in warnings' : w < start \/ w = currentLine
      /\ \A w : w < start => (w \in warnings' <=> w \in warnings)
      /\ currentLine \in warnings' <=> Blanks(start, currentLine) # {}
  <2>1. ~(currentLine < start) /\ currentLine \notin warnings
    BY <1>1, <1>2
  <2>2. CASE Blanks(start, currentLine) # {}
    BY <1>1, <1>2, <2>1, <2>2 DEF Warnings
  <2>3. CASE Blanks(start, currentLine) = {}
    BY <1>1, <1>2, <2>1, <2>3 DEF Warnings
  <2> QED BY <2>2, <2>3
<1>5. CASE Heredocs = <<>>
  <2> DEFINE n == [start |-> start, end |-> currentLine, words |-> words, heredocs |-> <<>>, comments |-> comments]
  <2>1. AddChild(currentLine, <<>>)
    BY <1>5 DEF NewNode
  <2>2. PICK e \in Nat : e = currentLine
    BY <1>1
  <2>3. LogicalEnd(n) = e
    BY <2>2 DEF LogicalEnd
  <2>4. Continues(Last(words)) => e = Count \/ Line(e + 1).kind = "long"
    BY <1>2, <2>2, CountType DEF Scan, Upcoming, IInv, TypeOK
  <2>5. PICK m : m = n
    OBVIOUS
  <2>6. NodeIsWhole(m)'
    <3>1. m.start = start /\ m.words = words /\ LogicalEnd(m) = e /\ m.end = e
      BY <2>2, <2>3, <2>5
    <3>2. Line(Last(words)).cont = Declared => m.end = Count \/ Line(m.end + 1).kind = "long"
      BY <1>1, <2>4, <3>1 DEF Continues
    <3> QED BY <1>1, <1>2, <1>4, <2>2, <3>1, <3>2, GatheredIsWhole
  <2>7. \A w \in warnings' : w <= e
    BY <1>1, <1>4, <2>2
  <2> HIDE DEF n
  <2>8. AddChild(e, <<>>) /\ currentLine' = e /\ LogicalEnd(m) \in 0..e
    BY <1>1, <2>1, <2>2, <2>3, <2>5
  <2>9. m = [start |-> start, end |-> e, words |-> words, heredocs |-> <<>>, comments |-> comments]
    BY <2>2, <2>5 DEF n
  <2> QED BY <1>1, <1>4, <2>6, <2>7, <2>8, <2>9, ChildIsKept DEF Inside
<1>6. CASE Heredocs # <<>>
  <2>1. phase' = "heredoc" /\ UNCHANGED <<nodes, comments>>
    BY <1>6 DEF NewNode
  <2>2. \A k \in 1..Len(nodes) : LogicalEnd(nodes[k]) < start
    BY <1>1, EndsAreNumbers DEF WholeInv, NodesKept, IInv, Ranges, Before, Inside
  <2>3. CommentsKept' /\ NodesKept' /\ (\A k \in 1..Len(nodes) : CommentsAre(k))'
    BY <1>1, <1>4, <2>1, <2>2, InsideIsKept DEF Inside
  <2>4. Scan' <=> Scan
    BY <1>1 DEF Scan, Upcoming, Count, Line
  <2>5. Continues(Last(words))' <=> Continues(Last(words))
    BY <1>1 DEF Continues, Line
  <2>6. Scan => Last(words) = currentLine
    BY <1>2
  <2>7. Scan => Gathered(Last(words))'
    BY <1>1, <1>2, <2>6 DEF Gathered, SetOf, Code, Continues, Line
  <2>8. Blanks(start, Last(words))' = Blanks(start, Last(words))
    BY <1>1 DEF Blanks, Line
  <2>9. WordsKept'
    BY <1>1, <1>2, <1>3, <1>4, <2>1, <2>4, <2>5, <2>6, <2>7, <2>8 DEF WordsKept
  <2> QED BY <2>3, <2>9 DEF WholeInv
<1> QED BY <1>5, <1>6

(* The lines of a heredoc *)

LEMMA HeredocIsKept ==
    ASSUME IInv, IInv', DirectivesRead, WholeInv, ReadHeredoc \/ EndHeredoc
    PROVE  WholeInv'
<1>1. /\ phase = "heredoc" /\ Scan /\ currentLine' = Upcoming /\ currentLine \in Nat /\ Upcoming = currentLine + 1
      /\ start \in 1..currentLine /\ directives.done /\ directives.escape = Declared
      /\ UNCHANGED <<file, directives, start, words, hasEmptyContinuationLine, warnings>>
  BY CountType, EscapeIsDeclared
     DEF ReadHeredoc, EndHeredoc, IInv, TypeOK, Ranges, Inside, DirectivesRead, instruction, Upcoming
<1>2. /\ ~Continues(Last(words))
      /\ Gathered(Last(words)) /\ Last(words) <= currentLine
      /\ Last(words) \in warnings <=> Blanks(start, Last(words)) # {}
      /\ warnings \in SUBSET Nat /\ \A w \in warnings : w < start \/ w = Last(words)
  BY <1>1 DEF WholeInv, WordsKept
<1>3. words # <<>> /\ Last(words) \in Nat
  BY <1>2, WordsAreNumbers DEF Gathered
<1>4. CASE UNCHANGED <<phase, nodes, comments>>
  <2>1. CommentsKept' /\ NodesKept' /\ (\A k \in 1..Len(nodes) : CommentsAre(k))'
    BY <1>1, <1>4, InsideIsKept DEF Inside
  <2>2. Continues(Last(words))' <=> Continues(Last(words))
    BY <1>1 DEF Continues, Line
  <2>3. Gathered(Last(words))'
    BY <1>1, <1>2 DEF Gathered, SetOf, Code, Continues, Line
  <2>4. Blanks(start, Last(words))' = Blanks(start, Last(words))
    BY <1>1 DEF Blanks, Line
  <2>5. (Last(words) <= currentLine)'
    BY <1>1, <1>2, <1>3
  <2>6. WordsKept'
    BY <1>1, <1>2, <1>4, <2>2, <2>3, <2>4, <2>5 DEF WordsKept
  <2> QED BY <2>1, <2>6 DEF WholeInv
<1>5. CASE AddChild(Upcoming, Append(heredocs, content))
  <2>1. PICK e \in Nat, u \in Nat : e = Last(words) /\ u = Upcoming
    BY <1>1, <1>3
  <2>2. PICK contents : contents = Append(heredocs, content)
    OBVIOUS
  <2>3. PICK n : n = [start |-> start, end |-> u, words |-> words, heredocs |-> contents, comments |-> comments]
    OBVIOUS
  <2>4. contents # <<>>
    <3>1. heredocs \in Seq(Seq(Nat)) /\ content \in Seq(Nat)
      BY DEF IInv, TypeOK
    <3> DEFINE S == Seq(Nat)
    <3> HIDE DEF S
    <3>2. heredocs \in Seq(S) /\ content \in S
      BY <3>1 DEF S
    <3>3. Len(Append(heredocs, content)) = Len(heredocs) + 1 /\ Len(heredocs) \in Nat
      BY <3>2
    <3>4. Len(contents) # 0
      BY <2>2, <3>3
    <3> QED BY <3>4
  <2>5. n.start = start /\ n.words = words /\ LogicalEnd(n) = e
    BY <2>1, <2>3, <2>4 DEF LogicalEnd
  <2>6. NodeIsWhole(n)'
    <3>1. Line(Last(words)).cont # Declared
      BY <1>1, <1>2 DEF Continues
    <3> QED BY <1>1, <1>2, <2>1, <2>5, <3>1, GatheredIsWhole
  <2>7. \A w \in warnings' : w <= u
    BY <1>1, <1>2, <2>1
  <2>8. AddChild(u, contents) /\ currentLine' = u /\ LogicalEnd(n) \in 0..u
    BY <1>1, <1>2, <1>5, <2>1, <2>2, <2>5
  <2> QED BY <1>1, <1>2, <2>3, <2>6, <2>7, <2>8, ChildIsKept DEF Inside
<1>6. ReadHeredoc => UNCHANGED <<phase, nodes, comments>>
  BY DEF ReadHeredoc
<1>7. EndHeredoc => AddChild(Upcoming, Append(heredocs, content)) \/ UNCHANGED <<phase, nodes, comments>>
  BY DEF EndHeredoc
<1> QED BY <1>4, <1>5, <1>6, <1>7

(***************************************************************************)
(* The theorems about instructions and directives                          *)
(***************************************************************************)

ReadInv == IInv /\ DirectivesRead /\ WholeInv

LEMMA ReadStep == ReadInv /\ [Next]_vars => ReadInv'
<1> SUFFICES ASSUME ReadInv, [Next]_vars PROVE ReadInv'
  OBVIOUS
<1>1. IInv /\ IInv' /\ DirectivesRead /\ WholeInv
  BY NextHolds DEF ReadInv
<1>2. /\ currentLine \in Nat /\ currentLine' \in Nat /\ Upcoming = currentLine + 1
      /\ (phase \in Inside => directives.done)
  <2>1. currentLine \in Nat
    BY <1>1, CountType DEF IInv, TypeOK
  <2>2. currentLine' \in {currentLine, Upcoming}
    BY DEF Next, vars, SkipLine, Directive, DirectiveFails, StartInstruction, ContinueInstruction, EndOfInstruction, NodeFails,
           NewNode, ReadHeredoc, EndHeredoc, Unterminated, Finish, FinishFails, Fail
  <2> QED BY <1>1, <2>1, <2>2 DEF Upcoming, DirectivesRead
<1>3. CASE SkipLine
  <2>1. DirectivesRead'
    BY <1>1, <1>3, DirectivesEnd DEF SkipLine
  <2> QED BY <1>1, <1>3, <2>1, OutsideIsKept DEF ReadInv
<1>4. CASE Directive
  BY <1>1, <1>4, DirectiveIsRead, OutsideIsKept DEF ReadInv
<1>5. CASE StartInstruction
  <2>1. Done(Upcoming)
    BY <1>5 DEF StartInstruction, Done
  <2>2. DirectivesRead'
    BY <1>1, <1>5, <2>1, DirectivesEnd DEF StartInstruction
  <2> QED BY <1>1, <1>5, <2>2, StartIsKept DEF ReadInv
<1>6. CASE ContinueInstruction
  <2>1. UNCHANGED <<file, directives, nodes>> /\ phase \in Inside /\ currentLine' = Upcoming
    BY <1>6 DEF ContinueInstruction, docs, Inside
  <2>2. DirectivesRead'
    BY <1>1, <1>2, <2>1, DirectivesStay
  <2> QED BY <1>1, <1>6, <2>2, ContinueIsKept DEF ReadInv
<1>7. CASE EndOfInstruction
  <2>1. UNCHANGED <<file, directives, nodes>> /\ phase \in Inside /\ currentLine' = currentLine
    BY <1>7 DEF EndOfInstruction, Inside
  <2>2. DirectivesRead'
    BY <1>1, <1>2, <2>1, DirectivesStay
  <2> QED BY <1>1, <1>7, <2>2, EndOfInstructionIsKept DEF ReadInv
<1>8. CASE NewNode
  <2>1. UNCHANGED <<file, directives>> /\ phase \in Inside /\ currentLine' = currentLine
    BY <1>8 DEF NewNode, Inside
  <2>2. DirectivesRead'
    BY <1>1, <1>2, <2>1, DirectivesStay
  <2> QED BY <1>1, <1>8, <2>2, NewNodeIsKept DEF ReadInv
<1>9. CASE ReadHeredoc \/ EndHeredoc
  <2>1. UNCHANGED <<file, directives>> /\ phase \in Inside /\ currentLine' = Upcoming
    BY <1>9 DEF ReadHeredoc, EndHeredoc, Inside
  <2>2. DirectivesRead'
    BY <1>1, <1>2, <2>1, DirectivesStay
  <2> QED BY <1>1, <1>9, <2>2, HeredocIsKept DEF ReadInv
<1>10. CASE DirectiveFails \/ NodeFails \/ Unterminated \/ Finish \/ FinishFails
  <2>1. UNCHANGED <<file, directives, nodes, warnings>> /\ phase' \in {"parsed", "failed"} /\ currentLine' = currentLine
    BY <1>10 DEF DirectiveFails, NodeFails, Unterminated, Finish, FinishFails, Fail
  <2>2. DirectivesRead'
    BY <1>1, <1>2, <2>1, DirectivesStay DEF Inside
  <2> QED BY <1>1, <2>1, <2>2, EndIsKept DEF ReadInv
<1>11. CASE UNCHANGED vars
  <2>1. DirectivesRead'
    BY <1>1, <1>2, <1>11, DirectivesStay DEF vars
  <2>2. NodesKept' /\ (\A k \in 1..Len(nodes) : CommentsAre(k))'
    BY <1>1, <1>11, NodesStay, CommentsStay DEF WholeInv, vars
  <2>3. CommentsKept'
    <3>1. PICK a, b : a = LastEnd + 1 /\ b = Before
      OBVIOUS
    <3>2. CommentsIn(a, b)' = CommentsIn(a, b)
      BY <1>11 DEF vars, CommentsIn, IsComment, EmptyComment, Line
    <3>3. (LastEnd + 1)' = a /\ Before' = b /\ SetOf(comments)' = SetOf(comments)
      BY <1>11, <3>1 DEF vars, instruction, LastEnd, Before, SetOf
    <3>4. phase \in Inside \cup {"line"} => SetOf(comments) = CommentsIn(a, b)
      BY <1>1, <3>1 DEF WholeInv, CommentsKept
    <3>5. phase' = phase
      BY <1>11 DEF vars
    <3> QED BY <3>2, <3>3, <3>4, <3>5 DEF CommentsKept, Inside
  <2>4. WordsKept'
    BY <1>1, <1>11 DEF vars, instruction, WholeInv, WordsKept, Gathered, SetOf, Code, Blanks, Continues, Line, Scan, Upcoming, Count
  <2> QED BY <1>1, <2>1, <2>2, <2>3, <2>4 DEF ReadInv, WholeInv
<1> QED BY <1>3, <1>4, <1>5, <1>6, <1>7, <1>8, <1>9, <1>10, <1>11 DEF Next

LEMMA ReadInvariant == Spec => []ReadInv
<1>1. Init => ReadInv
  BY InitHolds, DirectivesInit, WholeInit DEF ReadInv
<1> QED BY <1>1, ReadStep, PTL DEF Spec

\* An instruction is the lines that continue each other, with its comments.
THEOREM InstructionsAreWholeHolds == Spec => []InstructionsAreWhole
<1>1. ReadInv => InstructionsAreWhole
  <2> SUFFICES ASSUME ReadInv PROVE InstructionsAreWhole
    OBVIOUS
  <2>1. CommentsOfTheNext
    BY DEF ReadInv, WholeInv, CommentsAre, FirstAfter, SetOf, CommentsIn, CommentsOfTheNext
  <2>2. \A k \in 1..Len(nodes) : NodeIsWhole(nodes[k])
    BY DEF ReadInv, WholeInv, NodesKept
  <2> QED BY <2>1, <2>2 DEF InstructionsAreWhole, NodeIsWhole, Code, Blanks, SetOf
<1> QED BY <1>1, ReadInvariant, PTL

\* An instruction starts at a line of code, and ends there or later.
StartsAtCode(from, to) == from \in 1..to /\ Line(from).kind = "code"
StartsInv ==
    /\ phase \in Inside => StartsAtCode(start, currentLine)
    /\ \A k \in 1..Len(nodes) : StartsAtCode(nodes[k].start, nodes[k].end)

LEMMA StartsStep == IInv /\ StartsInv /\ [Next]_vars => StartsInv'
<1> SUFFICES ASSUME IInv, StartsInv, [Next]_vars PROVE StartsInv'
  OBVIOUS
<1>1. Count \in Nat /\ currentLine \in Nat /\ start \in Nat /\ nodes \in Seq(Node) /\ Upcoming = currentLine + 1
  BY CountType DEF IInv, TypeOK, Upcoming
<1>2. ASSUME UNCHANGED <<file, nodes>>, phase' \in Inside => StartsAtCode(start', currentLine')
      PROVE  StartsInv'
  BY <1>2 DEF StartsInv, StartsAtCode, Line
<1>3. ASSUME UNCHANGED <<file, start>>, phase \in Inside, NEW end \in Nat, currentLine <= end, NEW contents, AddChild(end, contents)
      PROVE  StartsInv'
  <2> DEFINE new == [start |-> start, end |-> end, words |-> words, heredocs |-> contents, comments |-> comments]
  <2>1. phase' = "line" /\ nodes' = Append(nodes, new)
    BY <1>3 DEF AddChild
  <2>2. Len(nodes') = Len(nodes) + 1 /\ nodes'[Len(nodes) + 1] = new /\ \A k \in 1..Len(nodes) : nodes'[k] = nodes[k]
    BY <1>1, <2>1
  <2>3. StartsAtCode(start, end)
    BY <1>1, <1>3 DEF StartsInv, StartsAtCode
  <2>4. \A k \in 1..Len(nodes') : k \in 1..Len(nodes) \/ k = Len(nodes) + 1
    BY <1>1, <2>2
  <2>5. \A k \in 1..Len(nodes') : StartsAtCode(nodes'[k].start, nodes'[k].end)
    BY <2>2, <2>3, <2>4 DEF StartsInv
  <2> QED BY <1>3, <2>1, <2>5 DEF StartsInv, StartsAtCode, Line, Inside
<1>4. CASE StartInstruction
  BY <1>1, <1>2, <1>4 DEF StartInstruction, StartLine, StartsAtCode
<1>5. CASE ContinueInstruction \/ EndOfInstruction \/ ReadHeredoc
  BY <1>1, <1>2, <1>5 DEF ContinueInstruction, EndOfInstruction, ReadHeredoc, instruction, StartsInv, StartsAtCode, Inside
<1>6. CASE NewNode
  <2>1. CASE Heredocs = <<>>
    BY <1>1, <1>3, <1>6, <2>1 DEF NewNode, instruction, Inside
  <2>2. CASE Heredocs # <<>>
    BY <1>1, <1>2, <1>6, <2>2 DEF NewNode, instruction, StartsInv, StartsAtCode, Inside
  <2> QED BY <2>1, <2>2
<1>7. CASE EndHeredoc
  <2>1. CASE Len(pending) = 1
    BY <1>1, <1>3, <1>7, <2>1 DEF EndHeredoc, instruction, Inside
  <2>2. CASE Len(pending) # 1
    BY <1>1, <1>2, <1>7, <2>2 DEF EndHeredoc, instruction, StartsInv, StartsAtCode, Inside
  <2> QED BY <2>1, <2>2
<1>8. CASE SkipLine \/ Directive \/ DirectiveFails \/ NodeFails \/ Unterminated \/ Finish \/ FinishFails
  BY <1>2, <1>8 DEF SkipLine, Directive, DirectiveFails, NodeFails, Unterminated, Finish, FinishFails, Fail, Inside
<1>9. CASE UNCHANGED vars
  BY <1>2, <1>9 DEF vars, instruction, StartsInv
<1> QED BY <1>4, <1>5, <1>6, <1>7, <1>8, <1>9 DEF Next

LEMMA StartsInvariant == Spec => [](ReadInv /\ StartsInv)
<1>1. Init => StartsInv
  BY DEF Init, StartsInv, Inside
<1>2. ReadInv => IInv
  BY DEF ReadInv
<1> QED BY <1>1, <1>2, StartsStep, ReadInvariant, PTL DEF Spec

\* The first instruction starts at the first line of code, if only blank lines
\* are before that.
LEMMA FirstLineOfCode ==
    ASSUME ReadInv, StartsInv, phase = "parsed", NEW l \in 1..Count,
           Line(l).kind = "code", \A j \in 1..l - 1 : Line(j).kind = "blank"
    PROVE  nodes[1].start = l
<1>1. Count \in Nat /\ currentLine = Count /\ nodes \in Seq(Node)
  BY CountType DEF ReadInv, IInv, TypeOK, Ranges
<1>2. PICK i \in 1..Len(nodes) : l \in nodes[i].start..nodes[i].end
  BY <1>1 DEF ReadInv, IInv, Ranges, Placed, Before, Inside
<1>3. 1 \in 1..Len(nodes) /\ StartsAtCode(nodes[1].start, nodes[1].end)
  BY <1>1, <1>2 DEF StartsInv
<1>4. nodes[1].start \in Nat /\ nodes[1].end \in Nat /\ nodes[i].start \in Nat
  <2>1. nodes[1] \in Node /\ nodes[i] \in Node
    BY <1>1, <1>2, <1>3
  <2> QED BY <2>1 DEF Node
<1>5. nodes[1].start <= l
  <2>1. CASE i = 1
    BY <1>2, <1>4, <2>1
  <2>2. CASE i # 1
    BY <1>1, <1>2, <1>3, <1>4, <2>2 DEF ReadInv, IInv, Ranges, Ascending, StartsAtCode
  <2> QED BY <2>1, <2>2
<1>6. ~(nodes[1].start < l)
  BY <1>3, <1>4 DEF StartsAtCode
<1> QED BY <1>4, <1>5, <1>6

\* What the two readers of the same lines find is the same, but for what makes
\* the first instruction one that does not exist.
THEOREM DirectivesAgreeHolds == Spec => []DirectivesAgree
<1>1. ReadInv /\ StartsInv => DirectivesAgree
  <2> SUFFICES ASSUME ReadInv, StartsInv, phase = "parsed", ~file.bom, ~Shebang, \A i \in 1..Count : ~Line(i).indent,
                      NEW key \in Keys
               PROVE  /\ key \in directives.seen => ParseDirective(key) # {}
                      /\ ParseDirective(key) # {} => key \in directives.seen \/ Unknown(nodes[1])
    BY DEF DirectivesAgree
  <2>1. PICK D \in 0..currentLine : Directed(D)
    BY DEF ReadInv, DirectivesRead
  <2>2. Count \in Nat /\ currentLine = Count /\ FirstLine = 1 /\ file \in Files
    BY CountType DEF ReadInv, IInv, TypeOK, Ranges, FirstLine
  <2>3. DetectDirective(key, "directive") = {i \in 1..D : Line(i).key = key}
    <3>1. \A i \in 1..Count : Recognised(i, "directive") <=> Line(i).kind = "directive"
      BY <2>2, FilesAssumption DEF Recognised, Line, Count
    <3>2. \A i \in 1..D : i \in 1..Count /\ Recognised(i, "directive")
      BY <2>1, <2>2, <3>1 DEF Directed
    <3>3. \A i \in 1..Count : (\A j \in 1..i : Recognised(j, "directive")) => i \in 1..D
      <4> SUFFICES ASSUME NEW i \in 1..Count, \A j \in 1..i : Recognised(j, "directive"), i > D PROVE FALSE
        BY <2>2
      <4>1. D + 1 \in 1..i /\ D + 1 \in 1..Count
        BY <2>2
      <4>2. D # currentLine
        BY <2>2
      <4> QED BY <2>1, <3>1, <4>1, <4>2 DEF Directed, ReadInv, DirectivesRead
    <3>4. \A i \in 1..D : \A j \in 1..i : j \in 1..D
      BY <2>2
    <3>5. \A i \in 1..D : \A j, k \in 1..i : Line(j).key = Line(k).key => j = k
      BY <2>1, <3>4 DEF Directed
    <3> QED BY <2>2, <3>2, <3>3, <3>4, <3>5 DEF DetectDirective
  <2>4. DetectDirective(key, "directive") # {} <=> key \in directives.seen
    BY <2>1, <2>3 DEF Directed
  <2>5. ASSUME DetectDirective(key, "code") # {} PROVE Unknown(nodes[1])
    <3>1. PICK i \in 1..Count : \A j \in 1..i : Recognised(j, "code")
      BY <2>2, <2>5 DEF DetectDirective
    <3>2. 1 \in 1..Count /\ Recognised(1, "code")
      BY <2>2, <3>1
    <3>3. Line(1).kind = "code" /\ Line(1).text = "//"
      BY <2>2, <3>2, FilesAssumption DEF Recognised, Line, Count
    <3>4. nodes[1].start = 1
      BY <3>2, <3>3, FirstLineOfCode
    <3> QED BY <3>3, <3>4 DEF Unknown
  <2>6. ASSUME key \in file.json PROVE Unknown(nodes[1])
    <3>1. PICK l \in 1..Count :
              /\ Line(l).kind = "code" /\ Line(l).text = "{"
              /\ \A j \in 1..l - 1 : \/ Line(j).kind = "blank"
                                    \/ (j = 1 /\ Line(j).kind = "comment" /\ Line(j).text = "!")
      BY <2>2, <2>6, FilesAssumption DEF Line, Count
    <3>2. \A j \in 1..l - 1 : Line(j).kind = "blank"
      <4>1. ~(Line(1).kind = "comment" /\ Line(1).text = "!")
        <5>1. 1 \in 1..Count
          BY <2>2
        <5> QED BY <2>2, <5>1 DEF Shebang
      <4> QED BY <3>1, <4>1
    <3>3. nodes[1].start = l
      BY <3>1, <3>2, FirstLineOfCode
    <3> QED BY <3>1, <3>3 DEF Unknown
  <2> QED BY <2>4, <2>5, <2>6 DEF ParseDirective
<1> QED BY <1>1, StartsInvariant, PTL

(***************************************************************************)
(* Recursive functions.  The induction theorems of the library have an     *)
(* operator as a parameter; the least element of a set of numbers has not. *)
(***************************************************************************)

LEMMA LeastNumber ==
    ASSUME NEW T \in SUBSET Nat, T # {}
    PROVE  \E m \in T : \A t \in T : m <= t
<1> DEFINE R == {p \in Nat \X Nat : p[1] < p[2]}
<1>1. IsWellFoundedOn(R, Nat)
  BY NatLessThanWellFounded, Zenon DEF OpToRel
<1>2. \E x \in T : \A y \in T : <<y, x>> \notin R
  <2> HIDE DEF R
  <2> QED BY <1>1, WFMin, Zenon
<1>3. PICK x \in T : \A y \in T : <<y, x>> \notin R
  BY <1>2
<1>4. \A y \in T : ~(y < x)
  BY <1>3
<1> QED BY <1>3, <1>4

LEMMA Induction ==
    ASSUME NEW S \in SUBSET Nat, 0 \in S, \A n \in S : n + 1 \in S
    PROVE  S = Nat
<1> SUFFICES ASSUME Nat \ S # {} PROVE FALSE
  OBVIOUS
<1>1. PICK m \in Nat \ S : \A x \in Nat \ S : m <= x
  BY LeastNumber
<1>2. m # 0 /\ m - 1 \in Nat
  BY <1>1
<1>3. m - 1 \in S
  BY <1>1, <1>2
<1> QED BY <1>1, <1>3

\* f goes from a on, step by step, for n steps.
Recursive(f, a, step, n) == \A m \in 1..n : f[m] = IF m = 1 THEN a ELSE step[m][f[m - 1]]

LEMMA Recursion ==
    ASSUME NEW A, NEW a \in A, NEW step \in [Nat -> [A -> A]], NEW N \in Nat
    PROVE  \E f \in [1..N -> A] : Recursive(f, a, step, N)
<1> DEFINE Upto(f, n) == Recursive(f, a, step, n)
           S == {n \in Nat : \E f \in [1..n -> A] : Upto(f, n)}
<1>1. 0 \in S
  <2>1. [m \in 1..0 |-> a] \in [1..0 -> A] /\ Upto([m \in 1..0 |-> a], 0)
    BY DEF Recursive
  <2> QED BY <2>1
<1>2. ASSUME NEW n \in S PROVE n + 1 \in S
  <2>1. PICK f \in [1..n -> A] : Upto(f, n)
    OBVIOUS
  <2> DEFINE last == IF n = 0 THEN a ELSE step[n + 1][f[n]]
             g == [m \in 1..n + 1 |-> IF m = n + 1 THEN last ELSE f[m]]
  <2>2. n \in Nat /\ last \in A
    OBVIOUS
  <2>3. g \in [1..n + 1 -> A]
    BY <2>2
  <2>4. Upto(g, n + 1)
    BY <2>1, <2>2 DEF Recursive
  <2>5. n + 1 \in Nat
    OBVIOUS
  <2> HIDE DEF Upto, g
  <2> QED BY <2>3, <2>4, <2>5
<1>3. S = Nat
  <2> HIDE DEF S
  <2>1. S \in SUBSET Nat
    BY DEF S
  <2> QED BY <1>1, <1>2, <2>1, Induction
<1> QED BY <1>3

(***************************************************************************)
(* Heredocs                                                                *)
(***************************************************************************)

\* The heredocs that the words of an instruction begin.
Begun(ws) == FlattenSeq([i \in 1..Len(ws) |-> Line(ws[i]).docs])

LEMMA FlattenType ==
    ASSUME NEW ss \in Seq(Seq(Heredoc)) PROVE FlattenSeq(ss) \in Seq(Heredoc)
<1> DEFINE A == Seq(Heredoc)
           N == Len(ss)
           Flat(g) == g = [i \in 1..N |-> IF i = 1 THEN ss[i] ELSE g[i - 1] \o ss[i]]
           F == CHOOSE g : Flat(g)
<1>1. N \in Nat /\ \A i \in 1..N : ss[i] \in A
  OBVIOUS
<1>2. CASE N = 0
  BY <1>2 DEF FlattenSeq
<1>3. CASE N # 0
  <2> DEFINE step == [n \in Nat |-> [x \in A |-> x \o (IF n \in 1..N THEN ss[n] ELSE <<>>)]]
  <2>1. step \in [Nat -> [A -> A]]
    <3>1. ASSUME NEW n \in Nat, NEW x \in A PROVE x \o (IF n \in 1..N THEN ss[n] ELSE <<>>) \in A
      BY <1>1
    <3> HIDE DEF A
    <3> QED BY <3>1
  <2>2. ss[1] \in A
    BY <1>1, <1>3
  <2> HIDE DEF step
  <2>3. PICK f \in [1..N -> A] : \A n \in 1..N : f[n] = IF n = 1 THEN ss[1] ELSE step[n][f[n - 1]]
    <3> DEFINE first == ss[1]
    <3> HIDE DEF A, N, first
    <3>1. N \in Nat /\ step \in [Nat -> [A -> A]] /\ first \in A
      BY <1>1, <2>1, <2>2 DEF first
    <3>2. \E f \in [1..N -> A] : Recursive(f, first, step, N)
      BY <3>1, Recursion
    <3> QED BY <3>2 DEF first, Recursive
  <2>4. Flat(f)
    <3>1. ASSUME NEW n \in 1..N, n # 1 PROVE f[n] = f[n - 1] \o ss[n]
      <4>1. n - 1 \in 1..N /\ n \in Nat
        BY <1>1, <3>1
      <4>2. f[n - 1] \in A
        BY <2>3, <4>1
      <4>3. step[n][f[n - 1]] = f[n - 1] \o ss[n]
        <5> HIDE DEF A, N
        <5> QED BY <3>1, <4>1, <4>2 DEF step
      <4> QED BY <2>3, <3>1, <4>3
    <3>2. f = [i \in 1..N |-> f[i]]
      OBVIOUS
    <3> HIDE DEF A, N
    <3> QED BY <2>3, <3>1, <3>2
  <2>5. Flat(F)
    <3> HIDE DEF Flat
    <3> QED BY <2>4
  <2>6. FlattenSeq(ss) = F[N]
    <3> HIDE DEF A
    <3> QED BY <1>3, Zenon DEF FlattenSeq
  <2> HIDE DEF F
  <2> DEFINE S == {n \in Nat : n \in 1..N => F[n] \in A}
  <2>7. 0 \in S
    OBVIOUS
  <2>8. ASSUME NEW n \in S PROVE n + 1 \in S
    <3>1. SUFFICES ASSUME n + 1 \in 1..N PROVE F[n + 1] \in A
      OBVIOUS
    <3>2. CASE n = 0
      BY <2>2, <2>5, <3>1, <3>2
    <3>3. CASE n # 0
      <4>1. n \in 1..N /\ n + 1 # 1 /\ (n + 1) - 1 = n
        BY <1>1, <3>1, <3>3
      <4>2. F[n] \in A /\ ss[n + 1] \in A
        BY <1>1, <3>1, <4>1
      <4>3. F[n + 1] = F[n] \o ss[n + 1]
        BY <2>5, <3>1, <4>1
      <4> QED BY <4>2, <4>3
    <3> QED BY <3>2, <3>3
  <2>9. S = Nat
    <3> HIDE DEF S
    <3>1. S \in SUBSET Nat
      BY DEF S
    <3> QED BY <2>7, <2>8, <3>1, Induction
  <2>10. F[N] \in A
    <3>1. N \in S /\ N \in 1..N
      BY <1>1, <1>3, <2>9
    <3> QED BY <3>1
  <2> QED BY <2>6, <2>10
<1> QED BY <1>2, <1>3

\* Where the heredocs hs of an instruction with the words ws begin.
Starts(f, ws, hs) ==
    f = [h \in 1..Len(hs) + 1 |-> IF h = 1 THEN Last(ws) + 1 ELSE f[h - 1] + Len(hs[h - 1]) + 1]

LEMMA StartsExist ==
    ASSUME NEW ws \in Seq(Nat), ws # <<>>, NEW hs \in Seq(Seq(Nat))
    PROVE  \E f : Starts(f, ws, hs)
<1> DEFINE L == Len(hs)
           a == Last(ws) + 1
           step == [n \in Nat |-> [x \in Nat |-> x + (IF n - 1 \in 1..L THEN Len(hs[n - 1]) ELSE 0) + 1]]
<1>1. L \in Nat /\ a \in Nat
  BY DEF Last
<1>2. ASSUME NEW h \in 1..L PROVE Len(hs[h]) \in Nat
  <2> DEFINE T == Seq(Nat)
  <2>1. hs[h] \in T
    <3> HIDE DEF T
    <3>1. hs \in Seq(T)
      BY DEF T
    <3> QED BY <3>1
  <2> QED BY <2>1
<1>3. step \in [Nat -> [Nat -> Nat]]
  <2>1. ASSUME NEW n \in Nat PROVE [x \in Nat |-> x + (IF n - 1 \in 1..L THEN Len(hs[n - 1]) ELSE 0) + 1] \in [Nat -> Nat]
    <3>1. (IF n - 1 \in 1..L THEN Len(hs[n - 1]) ELSE 0) \in Nat
      BY <1>2
    <3> QED BY <3>1
  <2> QED BY <2>1
<1> HIDE DEF step, a
<1>4. PICK f \in [1..L + 1 -> Nat] : \A n \in 1..L + 1 : f[n] = IF n = 1 THEN a ELSE step[n][f[n - 1]]
  <2>1. L + 1 \in Nat
    BY <1>1
  <2> DEFINE M == L + 1
  <2> HIDE DEF M
  <2>2. \E f \in [1..M -> Nat] : Recursive(f, a, step, M)
    <3>1. M \in Nat
      BY <2>1 DEF M
    <3> QED BY <1>1, <1>3, <3>1, Recursion
  <2> QED BY <2>2 DEF M, Recursive
<1>5. ASSUME NEW n \in 1..L + 1, n # 1 PROVE f[n] = f[n - 1] + Len(hs[n - 1]) + 1
  <2>1. n - 1 \in 1..L /\ n \in Nat /\ n - 1 \in 1..L + 1
    BY <1>1, <1>5
  <2>2. f[n - 1] \in Nat
    BY <1>4, <2>1
  <2> QED BY <1>4, <1>5, <2>1, <2>2 DEF step
<1>6. f = [n \in 1..L + 1 |-> f[n]]
  OBVIOUS
<1>7. Starts(f, ws, hs)
  BY <1>4, <1>5, <1>6 DEF Starts, a
<1> QED BY <1>7

\* The starts of fewer heredocs are the same.
LEMMA StartsOfFewer ==
    ASSUME NEW ws, NEW hs \in Seq(Seq(Nat)), NEW c \in Seq(Nat), NEW f, Starts(f, ws, Append(hs, c))
    PROVE  LET g == [h \in 1..Len(hs) + 1 |-> f[h]]
           IN  Starts(g, ws, hs) /\ f[Len(hs) + 2] = f[Len(hs) + 1] + Len(c) + 1
<1> DEFINE T == Seq(Nat)
           g == [h \in 1..Len(hs) + 1 |-> f[h]]
<1>1. /\ Len(Append(hs, c)) = Len(hs) + 1 /\ Len(hs) \in Nat
      /\ \A h \in 1..Len(hs) : Append(hs, c)[h] = hs[h]
      /\ Append(hs, c)[Len(hs) + 1] = c
  <2>1. hs \in Seq(T) /\ c \in T
    OBVIOUS
  <2> HIDE DEF T
  <2> QED BY <2>1
<1>2. \A h \in 1..Len(hs) + 2 : f[h] = IF h = 1 THEN Last(ws) + 1 ELSE f[h - 1] + Len(Append(hs, c)[h - 1]) + 1
  <2>1. Len(Append(hs, c)) + 1 = Len(hs) + 2
    BY <1>1
  <2> QED BY <2>1, Zenon DEF Starts
<1>3. f[Len(hs) + 2] = f[Len(hs) + 1] + Len(c) + 1
  <2>1. Len(hs) + 2 \in 1..Len(hs) + 2 /\ Len(hs) + 2 # 1 /\ Len(hs) + 2 - 1 = Len(hs) + 1
    BY <1>1
  <2>2. Len(Append(hs, c)[Len(hs) + 1]) = Len(c)
    BY <1>1
  <2>3. f[Len(hs) + 2] = f[Len(hs) + 2 - 1] + Len(Append(hs, c)[Len(hs) + 2 - 1]) + 1
    BY <1>2, <2>1
  <2> QED BY <2>1, <2>2, <2>3
<1>4. \A h \in 1..Len(hs) + 1 : g[h] = IF h = 1 THEN Last(ws) + 1 ELSE g[h - 1] + Len(hs[h - 1]) + 1
  BY <1>1, <1>2
<1>5. g = [h \in 1..Len(hs) + 1 |-> g[h]]
  OBVIOUS
<1>6. Starts(g, ws, hs)
  <2> HIDE DEF g
  <2> QED BY <1>4, <1>5 DEF Starts
<1> QED BY <1>3, <1>6

\* HeredocsAreVerbatim of the heredocs hs that have been read.
Verbatim(f, ws, hs) ==
    \A h \in 1..Len(hs) :
        /\ f[h] \in Nat /\ f[h + 1] \in Nat
        /\ hs[h] = [i \in 1..Len(hs[h]) |-> f[h] + i - 1]
        /\ \A l \in f[h]..f[h + 1] - 1 : Terminates(l, Begun(ws)[h]) <=> l = f[h + 1] - 1

DocsOf(n) ==
    n.heredocs # <<>> =>
        /\ n.words # <<>> /\ Len(n.heredocs) = Len(Begun(n.words))
        /\ \A f : Starts(f, n.words, n.heredocs) =>
               Verbatim(f, n.words, n.heredocs) /\ n.end = f[Len(n.heredocs) + 1] - 1

\* The heredocs that are still to be read.
PendingKept ==
    phase = "heredoc" =>
        /\ pending \in Seq(Heredoc) /\ pending # <<>>
        /\ Len(Begun(words)) = Len(heredocs) + Len(pending)
        /\ \A h \in 1..Len(pending) : pending[h] = Begun(words)[Len(heredocs) + h]

\* The heredoc that is read: all the lines since it began.
Reading(f) ==
    LET b == f[Len(heredocs) + 1]
    IN  /\ b \in Nat
        /\ content = [i \in 1..Len(content) |-> b + i - 1]
        /\ currentLine = b + Len(content) - 1
        /\ \A l \in b..currentLine : ~Terminates(l, Head(pending))

ContentKept ==
    phase = "heredoc" /\ Scan =>
        \A f : Starts(f, words, heredocs) => Verbatim(f, words, heredocs) /\ Reading(f)

DocsInv == PendingKept /\ ContentKept /\ \A j \in 1..Len(nodes) : DocsOf(nodes[j])

LEMMA DocsInit == Init => DocsInv
BY DEF Init, DocsInv, PendingKept, ContentKept

LEMMA DocsStay ==
    ASSUME UNCHANGED file
    PROVE  /\ \A n : DocsOf(n)' = DocsOf(n)
           /\ \A f, ws, hs : Verbatim(f, ws, hs)' = Verbatim(f, ws, hs)
BY DEF DocsOf, Begun, Starts, Verbatim, Terminates, Line

\* A step that reads no heredoc and makes no instruction.
LEMMA DocsKeep ==
    ASSUME DocsInv, UNCHANGED <<file, nodes>>, phase' # "heredoc" PROVE DocsInv'
<1>1. \A j \in 1..Len(nodes) : DocsOf(nodes[j])'
  BY DocsStay DEF DocsInv
<1> QED BY <1>1 DEF DocsInv, PendingKept, ContentKept

\* A step that makes an instruction n.
LEMMA ChildHasDocs ==
    ASSUME IInv, DocsInv, UNCHANGED file, phase' = "line", NEW n, nodes' = Append(nodes, n), DocsOf(n)
    PROVE  DocsInv'
<1>1. Len(nodes) \in Nat /\ Len(nodes') = Len(nodes) + 1 /\ nodes'[Len(nodes) + 1] = n /\ \A j \in 1..Len(nodes) : nodes'[j] = nodes[j]
  <2>1. nodes \in Seq(Node)
    BY DEF IInv, TypeOK
  <2> QED BY <2>1
<1>2. ASSUME NEW j \in 1..Len(nodes') PROVE DocsOf(nodes'[j])
  <2>1. CASE j = Len(nodes) + 1
    BY <1>1, <2>1
  <2>2. CASE j # Len(nodes) + 1
    <3>1. j \in 1..Len(nodes)
      BY <1>1, <2>2
    <3> QED BY <1>1, <3>1 DEF DocsInv
  <2> QED BY <2>1, <2>2
<1>3. \A j \in 1..Len(nodes') : DocsOf(nodes[j])'
  <2> SUFFICES ASSUME NEW j \in 1..Len(nodes') PROVE DocsOf(nodes[j])'
    OBVIOUS
  <2>1. PICK m : m = nodes'[j]
    OBVIOUS
  <2>2. DocsOf(m)'
    BY <1>2, <2>1, DocsStay
  <2> QED BY <2>1, <2>2
<1> QED BY <1>3 DEF DocsInv, PendingKept, ContentKept

\* The heredocs that an instruction begins.
LEMMA BegunType ==
    ASSUME IInv, \A j \in 1..Len(words) : words[j] \in 1..Count PROVE Begun(words) \in Seq(Heredoc)
<1> DEFINE T == Seq(Heredoc)
           ss == [j \in 1..Len(words) |-> Line(words[j]).docs]
<1>1. words \in Seq(Nat) /\ file \in Files
  BY DEF IInv, TypeOK
<1>2. \A j \in 1..Len(words) : Line(words[j]).docs \in T
  BY <1>1, FilesAssumption DEF Line, Count
<1>3. ss \in Seq(T)
  <2> HIDE DEF T
  <2> QED BY <1>1, <1>2
<1> QED BY <1>3, FlattenType DEF Begun

LEMMA NewNodeHasDocs == ASSUME IInv, WholeInv, DocsInv, NewNode PROVE DocsInv'
<1>1. phase = "node" /\ UNCHANGED <<file, currentLine, words>> /\ pending' = Heredocs /\ heredocs' = <<>> /\ content' = <<>>
  BY DEF NewNode, instruction
<1>2. CASE Heredocs = <<>>
  <2>1. AddChild(currentLine, <<>>)
    BY <1>2 DEF NewNode
  <2>2. PICK n : n = [start |-> start, end |-> currentLine, words |-> words, heredocs |-> <<>>, comments |-> comments]
    OBVIOUS
  <2>3. DocsOf(n)
    BY <2>2 DEF DocsOf
  <2> QED BY <1>1, <2>1, <2>2, <2>3, ChildHasDocs DEF AddChild
<1>3. CASE Heredocs # <<>>
  <2>1. phase' = "heredoc" /\ UNCHANGED nodes
    BY <1>3 DEF NewNode
  <2>2. Gathered(currentLine) /\ (Continues(Last(words)) \/ Last(words) = currentLine) /\ (Scan => ~Continues(Last(words)))
    BY <1>1 DEF WholeInv, WordsKept
  <2>3. Begun(words) \in Seq(Heredoc)
    <3>1. \A j \in 1..Len(words) : words[j] \in 1..Count
      <4>1. Code(start, currentLine) \subseteq start..currentLine /\ start \in 1..currentLine /\ currentLine \in 0..Count /\ Count \in Nat
        BY <1>1, CountType DEF Code, IInv, Ranges, Inside, TypeOK
      <4>2. \A j \in 1..Len(words) : words[j] \in Code(start, currentLine)
        BY <2>2 DEF Gathered, SetOf
      <4> QED BY <4>1, <4>2
    <3> QED BY <3>1, BegunType
  <2>4. Heredocs = Begun(words)
    BY <1>3 DEF Heredocs, Begun
  <2>5. Begun(words)' = Begun(words)
    BY <1>1 DEF Begun, Line
  <2>6. PendingKept'
    BY <1>1, <1>3, <2>3, <2>4, <2>5 DEF PendingKept
  <2>7. ContentKept'
    <3> SUFFICES ASSUME Scan', NEW f, Starts(f, words, heredocs)' PROVE (Verbatim(f, words, heredocs) /\ Reading(f))'
      BY DEF ContentKept
    <3>1. Scan
      BY <1>1 DEF Scan, Upcoming, Line, Count
    <3>2. Last(words) = currentLine /\ currentLine \in Nat
      BY <2>2, <3>1, CountType DEF IInv, TypeOK
    <3>3. f[1] = currentLine + 1
      BY <1>1, <3>2 DEF Starts
    <3>4. Verbatim(f, words, heredocs)'
      BY <1>1 DEF Verbatim
    <3>5. Reading(f)'
      BY <1>1, <3>2, <3>3 DEF Reading
    <3> QED BY <3>4, <3>5
  <2>8. \A j \in 1..Len(nodes) : DocsOf(nodes[j])'
    BY <1>1, <2>1, DocsStay DEF DocsInv
  <2> QED BY <2>1, <2>6, <2>7, <2>8 DEF DocsInv
<1> QED BY <1>2, <1>3

LEMMA DocsArePending ==
    ASSUME IInv, DocsInv, phase = "heredoc"
    PROVE  /\ Len(heredocs) \in Nat /\ Len(pending) \in Nat \ {0} /\ Len(content) \in Nat /\ currentLine \in Nat
           /\ Head(pending) = Begun(words)[Len(heredocs) + 1]
<1>1. pending \in Seq(Heredoc) /\ pending # <<>>
  BY DEF DocsInv, PendingKept
<1>2. heredocs \in Seq(Seq(Nat)) /\ content \in Seq(Nat) /\ currentLine \in Nat
  BY CountType DEF IInv, TypeOK
<1>3. Len(heredocs) \in Nat /\ Len(content) \in Nat
  BY <1>2
<1>4. Len(pending) \in Nat \ {0} /\ Head(pending) = pending[1]
  BY <1>1
<1> QED BY <1>2, <1>3, <1>4 DEF DocsInv, PendingKept

LEMMA LineOfDoc == ASSUME IInv, DocsInv, ReadHeredoc PROVE DocsInv'
<1>1. /\ phase = "heredoc" /\ Scan /\ ~Terminates(Upcoming, Head(pending))
      /\ content' = Append(content, Upcoming) /\ currentLine' = Upcoming /\ Upcoming = currentLine + 1
      /\ UNCHANGED <<file, phase, words, pending, heredocs, nodes>>
  BY DEF ReadHeredoc, instruction, Upcoming
<1>2. PendingKept'
  <2>1. Begun(words)' = Begun(words)
    BY <1>1 DEF Begun, Line
  <2> QED BY <1>1, <2>1 DEF DocsInv, PendingKept
<1>3. ContentKept'
  <2> SUFFICES ASSUME NEW f, Starts(f, words, heredocs)' PROVE (Verbatim(f, words, heredocs) /\ Reading(f))'
    BY DEF ContentKept
  <2>1. Starts(f, words, heredocs)
    BY <1>1 DEF Starts
  <2>2. Verbatim(f, words, heredocs) /\ Reading(f)
    BY <1>1, <2>1 DEF DocsInv, ContentKept
  <2>3. Verbatim(f, words, heredocs)'
    <3>1. PICK ws, hs : ws = words /\ hs = heredocs
      OBVIOUS
    <3>2. Verbatim(f, ws, hs)'
      BY <1>1, <2>2, <3>1, DocsStay
    <3> QED BY <1>1, <3>1, <3>2
  <2>4. Reading(f)'
    <3>1. PICK b, u : b = f[Len(heredocs) + 1] /\ u = Upcoming
      OBVIOUS
    <3>2. b \in Nat /\ Len(content) \in Nat /\ currentLine = b + Len(content) - 1 /\ u = b + Len(content)
      BY <1>1, <2>2, <3>1, DocsArePending DEF Reading
    <3>3. content' = [j \in 1..Len(content') |-> b + j - 1]
      <4>1. content \in Seq(Nat) /\ content' = Append(content, u) /\ content = [j \in 1..Len(content) |-> b + j - 1]
        BY <1>1, <2>2, <3>1 DEF IInv, TypeOK, Reading
      <4>2. Len(content') = Len(content) + 1 /\ \A j \in 1..Len(content') : content'[j] = b + j - 1
        BY <3>2, <4>1
      <4>3. content' = [j \in 1..Len(content') |-> content'[j]]
        <5>1. content' \in Seq(Nat)
          BY <3>2, <4>1
        <5> QED BY <5>1
      <4> QED BY <4>2, <4>3
    <3>4. Len(content') = Len(content) + 1
      BY <1>1 DEF IInv, TypeOK
    <3>5. \A l \in b..u : ~Terminates(l, Head(pending))
      <4>1. \A l \in b..currentLine : ~Terminates(l, Head(pending))
        BY <2>2, <3>1 DEF Reading
      <4>2. \A l \in b..u : l \in b..currentLine \/ l = u
        BY <3>2
      <4> QED BY <1>1, <3>1, <4>1, <4>2
    <3>6. \A l \in b..u : (~Terminates(l, Head(pending)))'
      BY <1>1, <3>5 DEF Terminates, Line
    <3>7. b = f[Len(heredocs) + 1]' /\ currentLine' = u
      BY <1>1, <3>1
    <3> QED BY <3>2, <3>3, <3>4, <3>6, <3>7 DEF Reading
  <2> QED BY <2>3, <2>4
<1>4. \A j \in 1..Len(nodes) : DocsOf(nodes[j])'
  BY <1>1, DocsStay DEF DocsInv
<1> QED BY <1>1, <1>2, <1>3, <1>4 DEF DocsInv

\* The heredoc that is complete.
LEMMA DocIsVerbatim ==
    ASSUME IInv, DocsInv, phase = "heredoc", Scan, Terminates(Upcoming, Head(pending)),
           NEW all, all = Append(heredocs, content), NEW f, Starts(f, words, all)
    PROVE  Len(all) = Len(heredocs) + 1 /\ Verbatim(f, words, all) /\ f[Len(all) + 1] = Upcoming + 1
<1> DEFINE T == Seq(Nat)
           g == [h \in 1..Len(heredocs) + 1 |-> f[h]]
           N == Len(heredocs)
<1>1. heredocs \in Seq(T) /\ content \in T
  BY DEF IInv, TypeOK
<1>2. Len(all) = N + 1 /\ N \in Nat /\ (\A h \in 1..N : all[h] = heredocs[h]) /\ all[N + 1] = content /\ Len(all) + 1 = N + 2
  <2> HIDE DEF T
  <2> QED BY <1>1
<1>3. Starts(g, words, heredocs) /\ f[N + 2] = f[N + 1] + Len(content) + 1
  BY <1>1, StartsOfFewer
<1>4. Verbatim(g, words, heredocs) /\ Reading(g)
  BY <1>3 DEF DocsInv, ContentKept
<1>5. \A h \in 1..N + 1 : g[h] = f[h]
  OBVIOUS
<1> HIDE DEF g
<1>6. /\ f[N + 1] \in Nat /\ content = [j \in 1..Len(content) |-> f[N + 1] + j - 1]
      /\ currentLine = f[N + 1] + Len(content) - 1
      /\ \A l \in f[N + 1]..currentLine : ~Terminates(l, Head(pending))
  <2>1. g[N + 1] = f[N + 1]
    BY <1>2, <1>5
  <2> QED BY <1>4, <2>1 DEF Reading
<1>7. f[N + 2] = Upcoming + 1 /\ f[N + 2] \in Nat
  <2>1. Len(content) \in Nat /\ currentLine \in Nat
    BY DocsArePending
  <2> QED BY <1>3, <1>6, <2>1 DEF Upcoming
<1>8. ASSUME NEW h \in 1..N
      PROVE  /\ f[h] \in Nat /\ f[h + 1] \in Nat
             /\ all[h] = [j \in 1..Len(all[h]) |-> f[h] + j - 1]
             /\ \A l \in f[h]..f[h + 1] - 1 : Terminates(l, Begun(words)[h]) <=> l = f[h + 1] - 1
  <2>1. g[h] = f[h] /\ g[h + 1] = f[h + 1] /\ all[h] = heredocs[h]
    BY <1>2, <1>5
  <2> QED BY <1>4, <2>1 DEF Verbatim
<1>9. \A l \in f[N + 1]..f[N + 2] - 1 : Terminates(l, Begun(words)[N + 1]) <=> l = f[N + 2] - 1
  <2> SUFFICES ASSUME NEW l \in f[N + 1]..f[N + 2] - 1 PROVE Terminates(l, Begun(words)[N + 1]) <=> l = f[N + 2] - 1
    OBVIOUS
  <2>1. Begun(words)[N + 1] = Head(pending) /\ currentLine \in Nat
    BY DocsArePending
  <2>2. f[N + 2] - 1 = Upcoming /\ Upcoming = currentLine + 1
    BY <1>7, <2>1 DEF Upcoming
  <2>3. CASE l = Upcoming
    BY <2>1, <2>2, <2>3
  <2>4. CASE l # Upcoming
    <3>1. l \in f[N + 1]..currentLine
      BY <1>6, <2>1, <2>2, <2>4
    <3> QED BY <1>6, <2>1, <2>2, <2>4, <3>1
  <2> QED BY <2>3, <2>4
<1>10. Verbatim(f, words, all)
  <2> SUFFICES ASSUME NEW h \in 1..Len(all)
               PROVE  /\ f[h] \in Nat /\ f[h + 1] \in Nat
                      /\ all[h] = [j \in 1..Len(all[h]) |-> f[h] + j - 1]
                      /\ \A l \in f[h]..f[h + 1] - 1 : Terminates(l, Begun(words)[h]) <=> l = f[h + 1] - 1
    BY DEF Verbatim
  <2>1. CASE h = N + 1
    <3>1. h + 1 = N + 2
      BY <1>2, <2>1
    <3> QED BY <1>2, <1>6, <1>7, <1>9, <2>1, <3>1
  <2>2. CASE h # N + 1
    <3>1. h \in 1..N
      BY <1>2, <2>2
    <3> QED BY <1>8, <3>1
  <2> QED BY <2>1, <2>2
<1> QED BY <1>2, <1>7, <1>10

LEMMA EndOfDoc == ASSUME IInv, WholeInv, DocsInv, EndHeredoc PROVE DocsInv'
<1>1. /\ phase = "heredoc" /\ Scan /\ Terminates(Upcoming, Head(pending)) /\ currentLine' = Upcoming
      /\ heredocs' = Append(heredocs, content) /\ content' = <<>> /\ pending' = Tail(pending)
      /\ UNCHANGED <<file, words>>
  BY DEF EndHeredoc, instruction
<1>2. PICK all, u : all = Append(heredocs, content) /\ u = Upcoming
  OBVIOUS
<1>3. \A f : Starts(f, words, all) => Verbatim(f, words, all) /\ f[Len(all) + 1] = u + 1
  BY <1>1, <1>2, DocIsVerbatim
<1>4. Len(all) = Len(heredocs) + 1 /\ Len(heredocs) \in Nat /\ Len(pending) \in Nat \ {0} /\ u \in Nat
  <2>1. heredocs \in Seq(Seq(Nat)) /\ content \in Seq(Nat)
    BY DEF IInv, TypeOK
  <2> DEFINE T == Seq(Nat)
  <2> HIDE DEF T
  <2>2. heredocs \in Seq(T) /\ content \in T
    BY <2>1 DEF T
  <2>3. Len(all) = Len(heredocs) + 1
    BY <1>2, <2>2
  <2> QED BY <1>1, <1>2, <2>3, DocsArePending DEF Upcoming
<1>5. Len(Begun(words)) = Len(heredocs) + Len(pending) /\ pending \in Seq(Heredoc) /\ pending # <<>>
      /\ \A h \in 1..Len(pending) : pending[h] = Begun(words)[Len(heredocs) + h]
  BY <1>1 DEF DocsInv, PendingKept
<1>6. CASE Len(pending) = 1
  <2>1. AddChild(u, all)
    BY <1>2, <1>6 DEF EndHeredoc
  <2>2. PICK n : n = [start |-> start, end |-> u, words |-> words, heredocs |-> all, comments |-> comments]
    OBVIOUS
  <2>3. words # <<>>
    BY <1>1 DEF WholeInv, WordsKept, Gathered
  <2>4. DocsOf(n)
    <3>1. Len(all) = Len(Begun(words))
      BY <1>4, <1>5, <1>6
    <3>2. \A f : Starts(f, words, all) => u = f[Len(all) + 1] - 1
      BY <1>3, <1>4
    <3> QED BY <1>3, <2>2, <2>3, <3>1, <3>2 DEF DocsOf
  <2> QED BY <1>1, <2>1, <2>2, <2>4, ChildHasDocs DEF AddChild
<1>7. CASE Len(pending) # 1
  <2>1. UNCHANGED <<phase, nodes>>
    BY <1>7 DEF EndHeredoc
  <2>2. Begun(words)' = Begun(words)
    BY <1>1 DEF Begun, Line
  <2>3. PendingKept'
    <3>1. Tail(pending) \in Seq(Heredoc) /\ Len(Tail(pending)) = Len(pending) - 1 /\ \A h \in 1..Len(pending) - 1 : Tail(pending)[h] = pending[h + 1]
      BY <1>4, <1>5
    <3>2. Len(Tail(pending)) # 0
      BY <1>4, <1>7, <3>1
    <3>3. Tail(pending) # <<>>
      BY <3>2
    <3>4. Len(Begun(words)) = Len(all) + Len(Tail(pending))
      BY <1>4, <1>5, <3>1
    <3>5. \A h \in 1..Len(Tail(pending)) : Tail(pending)[h] = Begun(words)[Len(all) + h]
      <4> SUFFICES ASSUME NEW h \in 1..Len(Tail(pending)) PROVE Tail(pending)[h] = Begun(words)[Len(all) + h]
        OBVIOUS
      <4>1. Tail(pending)[h] = pending[h + 1] /\ h + 1 \in 1..Len(pending) /\ h \in Nat
        BY <1>4, <3>1
      <4>2. pending[h + 1] = Begun(words)[Len(heredocs) + (h + 1)]
        BY <1>5, <4>1
      <4>3. Len(heredocs) + (h + 1) = Len(all) + h
        BY <1>4, <4>1
      <4> QED BY <4>1, <4>2, <4>3
    <3> QED BY <1>1, <1>2, <2>1, <2>2, <3>1, <3>3, <3>4, <3>5 DEF PendingKept
  <2>4. ContentKept'
    <3> SUFFICES ASSUME NEW f, Starts(f, words, heredocs)' PROVE (Verbatim(f, words, heredocs) /\ Reading(f))'
      BY DEF ContentKept
    <3>1. Starts(f, words, all)
      BY <1>1, <1>2 DEF Starts
    <3>2. Verbatim(f, words, all) /\ f[Len(all) + 1] = u + 1
      BY <1>3, <3>1
    <3>3. Verbatim(f, words, heredocs)'
      <4>1. PICK ws : ws = words
        OBVIOUS
      <4>2. Verbatim(f, ws, all)'
        BY <1>1, <3>2, <4>1, DocsStay
      <4> QED BY <1>1, <1>2, <4>1, <4>2
    <3>4. Reading(f)'
      <4>1. content' = <<>> /\ currentLine' = u /\ heredocs' = all
        BY <1>1, <1>2
      <4> QED BY <1>4, <3>2, <4>1 DEF Reading
    <3> QED BY <3>3, <3>4
  <2>5. \A j \in 1..Len(nodes) : DocsOf(nodes[j])'
    BY <1>1, <2>1, DocsStay DEF DocsInv
  <2> QED BY <2>1, <2>3, <2>4, <2>5 DEF DocsInv
<1> QED BY <1>6, <1>7

LEMMA DocsStep == ReadInv /\ DocsInv /\ [Next]_vars => DocsInv'
<1> SUFFICES ASSUME ReadInv, DocsInv, [Next]_vars PROVE DocsInv'
  OBVIOUS
<1>1. IInv /\ WholeInv
  BY DEF ReadInv
<1>2. CASE SkipLine \/ Directive \/ StartInstruction \/ ContinueInstruction \/ EndOfInstruction
  <2>1. UNCHANGED <<file, nodes>> /\ phase' # "heredoc"
    BY <1>2 DEF SkipLine, Directive, StartInstruction, ContinueInstruction, EndOfInstruction, NextPhase
  <2> QED BY <2>1, DocsKeep
<1>3. CASE DirectiveFails \/ NodeFails \/ Unterminated \/ Finish \/ FinishFails
  <2>1. UNCHANGED <<file, nodes>> /\ phase' # "heredoc"
    BY <1>3 DEF DirectiveFails, NodeFails, Unterminated, Finish, FinishFails, Fail
  <2> QED BY <2>1, DocsKeep
<1>4. CASE NewNode
  BY <1>1, <1>4, NewNodeHasDocs
<1>5. CASE ReadHeredoc
  BY <1>1, <1>5, LineOfDoc
<1>6. CASE EndHeredoc
  BY <1>1, <1>6, EndOfDoc
<1>7. CASE UNCHANGED vars
  <2>1. \A j \in 1..Len(nodes) : DocsOf(nodes[j])'
    BY <1>7, DocsStay DEF DocsInv, vars
  <2>2. PendingKept'
    BY <1>7 DEF vars, docs, instruction, DocsInv, PendingKept, Begun, Line
  <2>3. ContentKept'
    <3> SUFFICES ASSUME phase' = "heredoc", Scan', NEW f, Starts(f, words, heredocs)'
                 PROVE  (Verbatim(f, words, heredocs) /\ Reading(f))'
      BY DEF ContentKept
    <3>1. Scan /\ phase = "heredoc"
      BY <1>7 DEF vars, Scan, Upcoming, Count, Line
    <3>2. PICK ws, hs : ws = words /\ hs = heredocs
      OBVIOUS
    <3>3. ws = words' /\ hs = heredocs' /\ UNCHANGED <<file, content, currentLine, pending, heredocs>>
      BY <1>7, <3>2 DEF vars, docs, instruction
    <3>4. Starts(f, words, heredocs)
      BY <3>2, <3>3 DEF Starts
    <3>5. Verbatim(f, ws, hs) /\ Reading(f)
      BY <3>1, <3>2, <3>4 DEF DocsInv, ContentKept
    <3>6. Verbatim(f, ws, hs)'
      BY <3>3, <3>5, DocsStay
    <3>7. Reading(f)'
      BY <3>3, <3>5 DEF Reading, Terminates, Line
    <3> QED BY <3>3, <3>6, <3>7
  <2> QED BY <1>7, <2>1, <2>2, <2>3 DEF DocsInv, vars
<1> QED BY <1>2, <1>3, <1>4, <1>5, <1>6, <1>7 DEF Next

LEMMA DocsInvariant == Spec => [](ReadInv /\ DocsInv)
<1>1. Init => ReadInv /\ DocsInv
  BY InitHolds, DirectivesInit, WholeInit, DocsInit DEF ReadInv
<1>2. (ReadInv /\ DocsInv) /\ [Next]_vars => (ReadInv /\ DocsInv)'
  BY ReadStep, DocsStep
<1> QED BY <1>1, <1>2, PTL DEF Spec

\* A heredoc is all the lines up to the first that is its terminator, whatever
\* number of heredocs an instruction has and however long they are.
THEOREM HeredocsAreVerbatimHolds == Spec => []HeredocsAreVerbatim
<1>1. ReadInv /\ DocsInv => HeredocsAreVerbatim
  <2> SUFFICES ASSUME ReadInv, DocsInv, NEW j \in 1..Len(nodes), nodes[j].heredocs # <<>>
               PROVE  LET n == nodes[j]
                          names == Begun(n.words)
                          first[h \in 1..Len(n.heredocs) + 1] ==
                              IF h = 1 THEN Last(n.words) + 1 ELSE first[h - 1] + Len(n.heredocs[h - 1]) + 1
                          Ends(l, doc) == Line(l).text = doc.name /\ Line(l).kind = "code" /\ Line(l).cont = ""
                                          /\ (~Line(l).indent \/ doc.chomp)
                      IN  /\ Len(n.heredocs) = Len(names) /\ n.end = first[Len(names) + 1] - 1
                          /\ \A h \in 1..Len(names) :
                                 /\ n.heredocs[h] = [m \in 1..Len(n.heredocs[h]) |-> first[h] + m - 1]
                                 /\ \A l \in first[h]..first[h + 1] - 1 : Ends(l, names[h]) <=> l = first[h + 1] - 1
    BY Zenon DEF HeredocsAreVerbatim, Begun
  <2> DEFINE n == nodes[j]
             F == CHOOSE first : first = [h \in 1..Len(n.heredocs) + 1 |->
                      IF h = 1 THEN Last(n.words) + 1 ELSE first[h - 1] + Len(n.heredocs[h - 1]) + 1]
  <2>1. DocsOf(n) /\ n \in Node
    BY DEF DocsInv, ReadInv, IInv, TypeOK
  <2>2. n.words # <<>> /\ n.words \in Seq(Nat) /\ n.heredocs \in Seq(Seq(Nat))
    BY <2>1 DEF DocsOf, Node
  <2>3. Starts(F, n.words, n.heredocs)
    <3> HIDE DEF n
    <3>1. F = CHOOSE f : Starts(f, n.words, n.heredocs)
      BY Zenon DEF Starts
    <3> HIDE DEF F
    <3> QED BY <2>2, <3>1, StartsExist
  <2>4. /\ Len(n.heredocs) = Len(Begun(n.words))
        /\ Verbatim(F, n.words, n.heredocs) /\ n.end = F[Len(n.heredocs) + 1] - 1
    <3> HIDE DEF F
    <3> QED BY <2>1, <2>3 DEF DocsOf
  <2>5. \A h \in 1..Len(n.heredocs) : \A l \in F[h]..F[h + 1] - 1 :
            (Line(l).text = Begun(n.words)[h].name /\ Line(l).kind = "code" /\ Line(l).cont = ""
                 /\ (~Line(l).indent \/ Begun(n.words)[h].chomp)) <=> l = F[h + 1] - 1
    <3> HIDE DEF F
    <3> QED BY <2>4 DEF Verbatim, Terminates
  <2>6. \A h \in 1..Len(n.heredocs) : n.heredocs[h] = [m \in 1..Len(n.heredocs[h]) |-> F[h] + m - 1]
    <3> HIDE DEF F
    <3> QED BY <2>4 DEF Verbatim
  <2>7. Len(n.heredocs) = Len(Begun(n.words)) /\ n.end = F[Len(Begun(n.words)) + 1] - 1
    <3> HIDE DEF F
    <3> QED BY <2>4
  <2>8. /\ Len(n.heredocs) = Len(Begun(n.words)) /\ n.end = F[Len(Begun(n.words)) + 1] - 1
        /\ \A h \in 1..Len(Begun(n.words)) :
               /\ n.heredocs[h] = [m \in 1..Len(n.heredocs[h]) |-> F[h] + m - 1]
               /\ \A l \in F[h]..F[h + 1] - 1 :
                      (Line(l).text = Begun(n.words)[h].name /\ Line(l).kind = "code" /\ Line(l).cont = ""
                           /\ (~Line(l).indent \/ Begun(n.words)[h].chomp)) <=> l = F[h + 1] - 1
    <3> HIDE DEF F
    <3> QED BY <2>5, <2>6, <2>7
  <2> QED BY <2>8
<1> QED BY <1>1, DocsInvariant, PTL
=============================================================================
