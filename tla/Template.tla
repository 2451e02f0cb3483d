------------------------------ MODULE Template ------------------------------
(***************************************************************************)
(* The template parser (vue-rs-compiler/src/parser.rs).  Its recursive     *)
(* descent reads the source once, from left to right, so it is a machine   *)
(* that takes one lexeme at a time: the call stack is the stack of the     *)
(* open elements, each with the nodes read so far and the text run that is *)
(* being read.                                                             *)
(***************************************************************************)
EXTENDS Naturals, Sequences, SequencesExt

CONSTANTS
  Alphabets, \* sets of lexemes; a source draws its lexemes from one of them
  MaxSource  \* bound on the lexemes of a source

VARIABLES alphabet, source, stack, outcome

parserVars == <<alphabet, source, stack, outcome>>

ASSUME MaxSourceAssumption == MaxSource \in Nat

(* A word and white space are text; an interpolation holds an expression.  *)
(* A broken lexeme never ends: `<!--`, `{{`, `<p` or a quote without its   *)
(* other end.                                                              *)
Word == [lex |-> "word"]
Blank == [lex |-> "blank"]
Comment == [lex |-> "comment"]
Broken == [lex |-> "broken"]
Interp(e) == [lex |-> "interp", expr |-> e]
Open(tag, attrs) == [lex |-> "open", tag |-> tag, attrs |-> attrs]
Void(tag, attrs) == [lex |-> "void", tag |-> tag, attrs |-> attrs]
Close(tag) == [lex |-> "close", tag |-> tag]

(* An attribute is written `name`, `:name` or `@name`, its name may be     *)
(* computed (`[name]`) and carry modifiers (`name.mod`).                   *)
ParseAttr(mark, name, computed, mods, value) ==
  [form |-> IF mark = ":" THEN "dyn" ELSE IF mark = "@" THEN "event" ELSE "static",
   name |-> name, computed |-> computed, mods |-> mods, value |-> value]

StaticText(pieces) == [kind |-> "text", text |-> pieces]
DynText(e) == [kind |-> "interp", expr |-> e]
Element(tag, attrs, children) ==
  [kind |-> "el", tag |-> tag, attrs |-> attrs, children |-> children]

IsText(node) == node.kind = "text"

TrimStart(s) ==
  LET first == SelectInSeq(s, LAMBDA p : p # Blank)
  IN IF first = 0 THEN <<>> ELSE SubSeq(s, first, Len(s))
TrimEnd(s) == SubSeq(s, 1, SelectLastInSeq(s, LAMBDA p : p # Blank))

TrimEachSegment(run) ==
  LET trimmed == [i \in DOMAIN run |-> IF IsText(run[i]) THEN StaticText(TrimEnd(TrimStart(run[i].text)))
                                       ELSE run[i]]
  IN SelectSeq(trimmed, LAMBDA n : ~IsText(n) \/ n.text # <<>>)

(* The outer edges of a text run are trimmed, inner spacing is kept, and a *)
(* run of white space alone is formatting.                                 *)
NormalizeText(run) ==
  LET edge(i) ==
        LET s == IF i = 1 THEN TrimStart(run[i].text) ELSE run[i].text
        IN IF i = Len(run) THEN TrimEnd(s) ELSE s
      trimmed == [i \in DOMAIN run |-> IF IsText(run[i]) THEN StaticText(edge(i)) ELSE run[i]]
  IN IF \A i \in DOMAIN run : IsText(run[i]) /\ TrimStart(run[i].text) = <<>>
     THEN <<>>
     ELSE SelectSeq(trimmed, LAMBDA n : ~IsText(n) \/ n.text # <<>>)

(* The buffer of parse_text: pieces collect in one segment until an        *)
(* interpolation or the end of the run; a comment does not end it.         *)
Buffered(run, piece) ==
  IF run # <<>> /\ IsText(Last(run))
  THEN [run EXCEPT ![Len(run)] = StaticText(Append(@.text, piece))]
  ELSE Append(run, StaticText(<<piece>>))

Frame(tag, attrs) == [tag |-> tag, attrs |-> attrs, nodes |-> <<>>, run |-> <<>>]

(* A tag or the end of the source ends the text run. *)
EndRun(frame) ==
  [frame EXCEPT !.nodes = @ \o NormalizeText(frame.run), !.run = <<>>]

Top == Last(stack)
SetTop(frame) == stack' = Append(Front(stack), frame)
AddNode(frame, node) == [EndRun(frame) EXCEPT !.nodes = Append(@, node)]

ParserInit ==
  /\ alphabet \in Alphabets
  /\ source = <<>>
  /\ stack = <<Frame("", <<>>)>>
  /\ outcome = "reading"

Fail == outcome' = "rejected" /\ UNCHANGED stack
Go == outcome' = "reading"

ReadText(lexeme) ==
  \/ /\ lexeme \in {Word, Blank}
     /\ SetTop([Top EXCEPT !.run = Buffered(@, lexeme)])
     /\ Go
  \/ /\ lexeme.lex = "interp"
     /\ SetTop([Top EXCEPT !.run = Append(@, DynText(lexeme.expr))])
     /\ Go
  \/ lexeme = Comment /\ UNCHANGED stack /\ Go
  \/ lexeme = Broken /\ Fail

OpenTag(lexeme) ==
  \/ /\ lexeme.lex = "open"
     /\ stack' = Front(stack) \o <<EndRun(Top), Frame(lexeme.tag, lexeme.attrs)>>
     /\ Go
  \/ /\ lexeme.lex = "void"
     /\ SetTop(AddNode(Top, Element(lexeme.tag, lexeme.attrs, <<>>)))
     /\ Go

(* At the outer level `</` ends the nodes and is left as trailing input.   *)
CloseTag(lexeme) ==
  /\ lexeme.lex = "close"
  /\ IF Len(stack) > 1 /\ Top.tag = lexeme.tag
     THEN LET el == Element(Top.tag, Top.attrs, EndRun(Top).nodes)
          IN /\ stack' = Append(Front(Front(stack)), AddNode(Last(Front(stack)), el))
             /\ Go
     ELSE Fail

Read(lexeme) ==
  /\ outcome = "reading" /\ Len(source) < MaxSource
  /\ source' = Append(source, lexeme)
  /\ ReadText(lexeme) \/ OpenTag(lexeme) \/ CloseTag(lexeme)
  /\ UNCHANGED alphabet

EndOfSource ==
  /\ outcome = "reading"
  /\ IF Len(stack) = 1 THEN SetTop(EndRun(Top)) /\ outcome' = "parsed" ELSE Fail
  /\ UNCHANGED <<alphabet, source>>

Parsing == EndOfSource \/ \E lexeme \in alphabet : Read(lexeme)

(* The nodes of a parsed template. *)
Ast == Top.nodes
=============================================================================
