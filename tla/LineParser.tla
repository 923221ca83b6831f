----------------------------- MODULE LineParser -----------------------------
(***************************************************************************)
(* The line parser: Parse of parser/parser.go makes the instructions of a  *)
(* recipe out of its lines, one Scan at a time, and ParseDirective of      *)
(* parser/directives.go looks for the options of the linter in the same    *)
(* lines.  Text is told by the numbers of the lines that it comes from.    *)
(*                                                                         *)
(* NeverDone, AnyTabs, StartBefore, IgnoreLong and AnyPlace are wrong      *)
(* variants of the definitions that follow them: the checks show that the  *)
(* properties of this module tell them from the code.                      *)
(***************************************************************************)
EXTENDS Naturals, Sequences, SequencesExt

CONSTANT Files

\* A heredoc that a line begins: its name, and whether it is "<<-".
Heredoc == [name : STRING, chomp : BOOLEAN]

Keys == {"syntax", "check", "escape"}

\* A JSON object begins with a brace, and only blank lines stand before it.
ASSUME FilesAssumption ==
    \A f \in Files :
        /\ Len(f.lines) \in Nat
        /\ \A i \in 1..Len(f.lines) :
               /\ f.lines[i].docs \in Seq(Heredoc)
               /\ f.lines[i].kind = "directive" => f.lines[i].key \in Keys
               /\ f.lines[i].kind = "code" /\ f.lines[i].key \in Keys => f.lines[i].text = "//"
        /\ f.json # {} =>
               \E i \in 1..Len(f.lines) :
                   /\ f.lines[i].kind = "code" /\ f.lines[i].text = "{"
                   /\ \A j \in 1..i - 1 : \/ f.lines[j].kind = "blank"
                                         \/ (j = 1 /\ f.lines[j].kind = "comment" /\ f.lines[j].text = "!")

(***************************************************************************)
(* A file: whether it starts with a byte-order mark (bom), the keys of the *)
(* JSON object that it is, behind a shebang (json, none if it is not one), *)
(* and its lines.  A line has a kind, blank, comment, directive, code or   *)
(* long (longer than the scanner takes); its text, that it begins with     *)
(* "//" or "{" in particular; the key and value of a directive or, of a    *)
(* line that begins with "//", those behind it; the escape character that  *)
(* it ends in, if any (cont); whether a tab is before it (indent); the     *)
(* heredocs that it begins (docs), whether its command may have them       *)
(* (holds); and whether newNodeFromLine or heredocsFromLine fails for it   *)
(* (fails).                                                                *)
(***************************************************************************)
VARIABLES
    file,
    phase,
    currentLine,
    directives,  \* escape token, the directives seen, and whether there may be more
    comments,
    start, words, hasEmptyContinuationLine,    \* the logical line that is read
    pending, content, heredocs,                \* the heredocs of its instruction
    nodes, warnings,
    errorAt      \* the lines of the error

instruction == <<start, words, hasEmptyContinuationLine>>
docs == <<pending, content, heredocs>>
vars == <<file, phase, currentLine, directives, comments, instruction, docs, nodes, warnings, errorAt>>

Tokens == {"backslash", "backtick"}

Line(i) == file.lines[i]
Count == Len(file.lines)
Upcoming == currentLine + 1
Scan == Upcoming <= Count /\ Line(Upcoming).kind # "long"

IsComment(i) == Line(i).kind \in {"comment", "directive"}
EmptyComment(i) == Line(i).kind = "comment" /\ Line(i).text = "" /\ ~Line(i).indent

Init ==
    /\ file \in Files
    /\ phase = "line"
    /\ currentLine = 0
    /\ directives = [escape |-> "backslash", seen |-> {}, done |-> FALSE]
    /\ comments = <<>>
    /\ start = 0 /\ words = <<>> /\ hasEmptyContinuationLine = FALSE
    /\ pending = <<>> /\ content = <<>> /\ heredocs = <<>>
    /\ nodes = <<>> /\ warnings = {}
    /\ errorAt = {}

Fail(lines) ==
    /\ phase' = "failed" /\ errorAt' = lines
    /\ UNCHANGED <<file, currentLine, directives, comments, instruction, docs, nodes, warnings>>

(* The lines outside an instruction *)

\* What is no directive ends them.  A wrong parser: comments may stand between.
NeverDone(i) == Line(i).kind # "directive"
Done(i) == directives.done \/ Line(i).kind # "directive"

SkipLine ==
    /\ phase = "line" /\ Scan
    /\ Line(Upcoming).kind \in {"blank", "comment", "directive"} /\ Done(Upcoming)
    /\ comments' = IF ~IsComment(Upcoming) THEN comments
                   ELSE IF EmptyComment(Upcoming) THEN <<>> ELSE Append(comments, Upcoming)
    /\ directives' = [directives EXCEPT !.done = Done(Upcoming)]
    /\ currentLine' = Upcoming
    /\ UNCHANGED <<file, phase, instruction, docs, nodes, warnings, errorAt>>

Rejects(i) == Line(i).key \in directives.seen \/ (Line(i).key = "escape" /\ Line(i).value \notin Tokens)

Directive ==
    /\ phase = "line" /\ Scan
    /\ ~Done(Upcoming) /\ ~Rejects(Upcoming)
    /\ directives' = [directives EXCEPT !.seen = @ \cup {Line(Upcoming).key},
                                        !.escape = IF Line(Upcoming).key = "escape" THEN Line(Upcoming).value ELSE @]
    /\ comments' = Append(comments, Upcoming)
    /\ currentLine' = Upcoming
    /\ UNCHANGED <<file, phase, instruction, docs, nodes, warnings, errorAt>>

\* The line is not counted yet.
DirectiveFails ==
    /\ phase = "line" /\ Scan
    /\ ~Done(Upcoming) /\ Rejects(Upcoming)
    /\ Fail({currentLine})

(* The lines of an instruction *)

\* A wrong first line: the one before it.
StartBefore == currentLine
StartLine == Upcoming

Continues(i) == Line(i).cont = directives.escape
NextPhase(i) == IF Continues(i) THEN "continue" ELSE "node"

StartInstruction ==
    /\ phase = "line" /\ Scan
    /\ Line(Upcoming).kind = "code"
    /\ directives' = [directives EXCEPT !.done = Done(Upcoming)]
    /\ start' = StartLine /\ words' = <<Upcoming>> /\ hasEmptyContinuationLine' = FALSE
    /\ currentLine' = Upcoming
    /\ phase' = NextPhase(Upcoming)
    /\ UNCHANGED <<file, comments, docs, nodes, warnings, errorAt>>

\* The directive parser is done by now: a directive is a comment here.
ContinueInstruction ==
    /\ phase = "continue" /\ Scan
    /\ currentLine' = Upcoming
    /\ \/ /\ IsComment(Upcoming)
          /\ UNCHANGED <<phase, words, hasEmptyContinuationLine>>
       \/ /\ Line(Upcoming).kind = "blank"
          /\ hasEmptyContinuationLine' = TRUE
          /\ UNCHANGED <<phase, words>>
       \/ /\ Line(Upcoming).kind = "code"
          /\ words' = Append(words, Upcoming)
          /\ phase' = NextPhase(Upcoming)
          /\ UNCHANGED hasEmptyContinuationLine
    /\ UNCHANGED <<file, directives, comments, start, docs, nodes, warnings, errorAt>>

\* The file ends in a line that is to be continued.
EndOfInstruction ==
    /\ phase = "continue" /\ ~Scan
    /\ phase' = "node"
    /\ UNCHANGED <<file, currentLine, directives, comments, instruction, docs, nodes, warnings, errorAt>>

Warnings == IF hasEmptyContinuationLine THEN warnings \cup {currentLine} ELSE warnings

NodeFails ==
    /\ phase = "node"
    /\ \E i \in 1..Len(words) : Line(words[i]).fails
    /\ Fail(start..currentLine)

\* The heredocs of a logical line, if the command that it starts with may have them.
Heredocs ==
    LET written == SelectSeq(words, LAMBDA w : Line(w).text # "")
    IN  IF written # <<>> /\ Line(Head(written)).holds THEN FlattenSeq([i \in 1..Len(words) |-> Line(words[i]).docs])
        ELSE <<>>

AddChild(end, contents) ==
    /\ nodes' = Append(nodes, [start |-> start, end |-> end, words |-> words, heredocs |-> contents, comments |-> comments])
    /\ comments' = <<>>
    /\ phase' = "line"

NewNode ==
    /\ phase = "node"
    /\ \A i \in 1..Len(words) : ~Line(words[i]).fails
    /\ warnings' = Warnings
    /\ heredocs' = <<>> /\ content' = <<>> /\ pending' = Heredocs
    /\ IF Heredocs = <<>> THEN AddChild(currentLine, <<>>)
       ELSE phase' = "heredoc" /\ UNCHANGED <<nodes, comments>>
    /\ UNCHANGED <<file, currentLine, directives, instruction, errorAt>>

(* The lines of a heredoc *)

\* A wrong terminator: tabs before it never count.
AnyTabs(i, doc) == Line(i).kind = "code" /\ Line(i).text = doc.name /\ Line(i).cont = ""
\* Only "<<-" takes the tabs away.
Terminates(i, doc) ==
    /\ Line(i).kind = "code" /\ Line(i).text = doc.name /\ Line(i).cont = ""
    /\ Line(i).indent => doc.chomp

ReadHeredoc ==
    /\ phase = "heredoc" /\ Scan
    /\ ~Terminates(Upcoming, Head(pending))
    /\ content' = Append(content, Upcoming)
    /\ currentLine' = Upcoming
    /\ UNCHANGED <<file, phase, directives, comments, instruction, pending, heredocs, nodes, warnings, errorAt>>

EndHeredoc ==
    /\ phase = "heredoc" /\ Scan
    /\ Terminates(Upcoming, Head(pending))
    /\ currentLine' = Upcoming
    /\ heredocs' = Append(heredocs, content) /\ content' = <<>> /\ pending' = Tail(pending)
    /\ IF Len(pending) = 1 THEN AddChild(Upcoming, Append(heredocs, content))
       ELSE UNCHANGED <<phase, nodes, comments>>
    /\ UNCHANGED <<file, directives, instruction, warnings, errorAt>>

Unterminated == phase = "heredoc" /\ ~Scan /\ Fail(start..currentLine)

(* The end *)

\* A wrong end: the error of the scanner is not looked at.
IgnoreLong == TRUE
ScannedAll == currentLine = Count

Finish ==
    /\ phase = "line" /\ ~Scan
    /\ nodes # <<>> /\ ScannedAll
    /\ phase' = "parsed"
    /\ UNCHANGED <<file, currentLine, directives, comments, instruction, docs, nodes, warnings, errorAt>>

\* No instruction, or a line that is too long.
FinishFails ==
    /\ phase = "line" /\ ~Scan
    /\ nodes = <<>> \/ ~ScannedAll
    /\ Fail({currentLine})

Next ==
    \/ SkipLine \/ Directive \/ DirectiveFails
    \/ StartInstruction \/ ContinueInstruction \/ EndOfInstruction \/ NodeFails \/ NewNode
    \/ ReadHeredoc \/ EndHeredoc \/ Unterminated
    \/ Finish \/ FinishFails

Spec == Init /\ [][Next]_vars

-----------------------------------------------------------------------------
(* ParseDirective: a scan of its own for the options of the linter *)

Shebang == Count > 0 /\ Line(1).kind = "comment" /\ Line(1).text = "!" /\ ~Line(1).indent /\ ~file.bom

\* What ParseAll takes for a directive behind "#", or behind "//", which is code
\* to Parse: nothing is stripped from the line.
Recognised(i, kind) == Line(i).kind = kind /\ Line(i).key \in Keys /\ ~Line(i).indent /\ ~(i = 1 /\ file.bom)

FirstLine == IF Shebang THEN 2 ELSE 1
DetectDirective(key, kind) ==
    {i \in FirstLine..Count : /\ \A j \in FirstLine..i : Recognised(j, kind)
                             /\ \A j, k \in FirstLine..i : Line(j).key = Line(k).key => j = k
                             /\ Line(i).key = key}

\* A wrong search: a directive is found behind other lines as well.
AnyPlace(key) == {i \in 1..Count : Recognised(i, "directive") /\ Line(i).key = key}
\* The lines of a directive, or of the first that there is of the other forms; a
\* JSON object has the line number that was reached before it.
ParseDirective(key) ==
    IF DetectDirective(key, "directive") # {} THEN DetectDirective(key, "directive")
    ELSE IF DetectDirective(key, "code") # {} THEN DetectDirective(key, "code")
    ELSE IF key \in file.json THEN {FirstLine - 1} ELSE {}

-----------------------------------------------------------------------------
(* Properties *)

\* The escape token of the file: that of the directives before anything else.
Leading == {i \in 1..Count : \A j \in 1..i : Line(j).kind = "directive"}
Declared ==
    LET set == {i \in Leading : Line(i).key = "escape"}
    IN  IF set = {} THEN "backslash" ELSE Line(CHOOSE i \in set : TRUE).value

\* Where the heredocs of an instruction begin.
LogicalEnd(n) == IF n.heredocs = <<>> THEN n.end ELSE Last(n.words)

\* The instructions of a recipe take its lines in turn: each line belongs to at
\* most one of them, and in a recipe that is accepted only blank lines,
\* comments and directives to none.
EveryLineIsPlaced ==
    /\ \A i, j \in 1..Len(nodes) : i < j => nodes[i].end < nodes[j].start
    /\ phase = "parsed" =>
           \A l \in 1..Count : \/ Line(l).kind \in {"blank", "comment", "directive"}
                               \/ \E i \in 1..Len(nodes) : l \in nodes[i].start..nodes[i].end

\* The comments of an instruction are those between it and the one before,
\* after the last that is empty.
CommentsOfTheNext ==
    \A k \in 1..Len(nodes) :
        {nodes[k].comments[i] : i \in 1..Len(nodes[k].comments)}
            = {l \in (IF k = 1 THEN 1 ELSE nodes[k - 1].end + 1)..nodes[k].start - 1 :
                  IsComment(l) /\ \A e \in l..nodes[k].start - 1 : ~EmptyComment(e)}

\* An instruction is all the lines that continue each other with the escape
\* token that the first lines of the file declare, without the blank lines
\* (of which there is a warning) and the comments in between; and it has the
\* comments before it.
InstructionsAreWhole ==
    CommentsOfTheNext /\ \A k \in 1..Len(nodes) : LET n == nodes[k] IN
        /\ {l \in n.start..LogicalEnd(n) : Line(l).kind = "code"} = {n.words[i] : i \in 1..Len(n.words)}
        /\ \A i \in 1..Len(n.words) - 1 : n.words[i] < n.words[i + 1] /\ Line(n.words[i]).cont = Declared
        /\ Line(Last(n.words)).cont = Declared => n.end = Count \/ Line(n.end + 1).kind = "long"
        /\ LogicalEnd(n) \in warnings <=> \E l \in n.start..LogicalEnd(n) : Line(l).kind = "blank"

\* A heredoc is all the lines up to the first that is its terminator, as they
\* are, and the next heredoc of the instruction begins after it.
HeredocsAreVerbatim ==
    \A k \in 1..Len(nodes) : nodes[k].heredocs # <<>> =>
        LET n == nodes[k]
            names == FlattenSeq([i \in 1..Len(n.words) |-> Line(n.words[i]).docs])
            first[h \in 1..Len(n.heredocs) + 1] ==
                IF h = 1 THEN Last(n.words) + 1 ELSE first[h - 1] + Len(n.heredocs[h - 1]) + 1
            Ends(l, doc) == Line(l).text = doc.name /\ Line(l).kind = "code" /\ Line(l).cont = ""
                            /\ (~Line(l).indent \/ doc.chomp)
        IN  /\ Len(n.heredocs) = Len(names) /\ n.end = first[Len(names) + 1] - 1
            /\ \A h \in 1..Len(names) :
                   /\ n.heredocs[h] = [i \in 1..Len(n.heredocs[h]) |-> first[h] + i - 1]
                   /\ \A l \in first[h]..first[h + 1] - 1 : Ends(l, names[h]) <=> l = first[h + 1] - 1

\* A recipe that is accepted has been read to its last line.
ReadToTheEnd == phase = "parsed" => currentLine = Count

\* No instruction has such a name: parse.go:95 refuses the recipe.
Unknown(n) == Line(n.start).text \in {"//", "{"}

\* Parse and ParseDirective agree about the directives of a recipe if nothing
\* is before the "#" and no shebang before the first, and both Parse and parse.go
\* accept it: what Parse reads ParseDirective finds; and what ParseDirective
\* finds besides, behind "//" or in JSON, is an instruction to Parse, the first
\* of the recipe, that does not exist.
DirectivesAgree ==
    phase = "parsed" /\ ~file.bom /\ ~Shebang /\ (\A i \in 1..Count : ~Line(i).indent) =>
        \A key \in Keys :
            /\ key \in directives.seen => ParseDirective(key) # {}
            /\ ParseDirective(key) # {} => key \in directives.seen \/ Unknown(nodes[1])

\* parser/errors.go:8: the location of an error is that of what caused it, here
\* a directive that is given twice or with a value that it cannot have.
ErrorsAreLocated ==
    phase = "failed" /\ Scan /\ Line(Upcoming).kind = "directive" /\ ~directives.done => Upcoming \in errorAt
=============================================================================
