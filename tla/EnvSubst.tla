------------------------------ MODULE EnvSubst ------------------------------
(***************************************************************************)
(* The substitution of ${VAR} in engine.toml before the TOML parse. The    *)
(* text is a sequence of symbols: the marks "#", dq, sq, nl and bs, a      *)
(* token T whose variable is set, a token U whose lookup fails (a missing  *)
(* variable, an invalid name, no closing brace) and any other character x. *)
(* A token in a comment is an example and must not be looked up.           *)
(***************************************************************************)
EXTENDS Integers, Sequences, FiniteSets, FiniteSetsExt

CONSTANT Texts    \* the files considered

VARIABLES text, sub   \* sub: the position, the lexer state, the lookups, the end

substVars == <<text, sub>>

Token(unit) == unit \in {"T", "U"}
InText(p) == p \in DOMAIN text

\* The length of the run of one quote mark from p on.
RunOf(q, p) ==
  Min({n \in 0 .. Len(text) + 1 - p : ~InText(p + n) \/ text[p + n] # q})

\* Mutant: the quotes before the closing three are not content
ThreeQuotes(lex, run) ==
  IF run >= 3 THEN <<3, "bare">> ELSE <<run, lex>>

\* multi_line_quotes: three quotes close, up to two more before them are content.
MultiLineQuotes(lex, run) ==
  IF run >= 3 THEN <<Min({run, 5}), "bare">> ELSE <<run, lex>>

\* Lex::step: the length of the unit at p and the state after it.
LexStep(lex, p) ==
  LET c == text[p]
  IN  CASE lex = "bare" /\ c = "#" -> <<1, "comment">>
        [] lex = "bare" /\ c = "dq" -> IF RunOf("dq", p) >= 3 THEN <<3, "multi_basic">> ELSE <<1, "basic">>
        [] lex = "bare" /\ c = "sq" -> IF RunOf("sq", p) >= 3 THEN <<3, "multi_literal">> ELSE <<1, "literal">>
        [] lex = "comment" /\ c = "nl" -> <<1, "bare">>
        [] lex = "basic" /\ c \in {"dq", "nl"} -> <<1, "bare">>
        [] lex = "literal" /\ c \in {"sq", "nl"} -> <<1, "bare">>
        [] /\ lex \in {"basic", "multi_basic"} /\ c = "bs"
           /\ InText(p + 1) /\ text[p + 1] \in {"dq", "bs"} -> <<2, lex>>
        [] lex = "multi_basic" /\ c = "dq" -> MultiLineQuotes(lex, RunOf("dq", p))
        [] lex = "multi_literal" /\ c = "sq" -> MultiLineQuotes(lex, RunOf("sq", p))
        [] OTHER -> <<1, lex>>

\* A token outside a comment is looked up; the first that fails ends the load.
Substitute ==
  /\ sub.end = "none" /\ InText(sub.at)
  /\ sub.lex # "comment" /\ Token(text[sub.at])
  /\ sub' = [sub EXCEPT !.looked = @ \union {sub.at},
                        !.at = IF text[sub.at] = "T" THEN @ + 1 ELSE @,
                        !.end = IF text[sub.at] = "T" THEN @ ELSE "error"]
  /\ UNCHANGED text

\* Any other unit is copied through.
CopyUnit ==
  /\ sub.end = "none" /\ InText(sub.at)
  /\ sub.lex = "comment" \/ ~Token(text[sub.at])
  /\ LET step == LexStep(sub.lex, sub.at)
     IN  sub' = [sub EXCEPT !.at = @ + step[1], !.lex = step[2]]
  /\ UNCHANGED text

\* The end of the file hands the text to the parser.
ParseText ==
  /\ sub.end = "none" /\ ~InText(sub.at)
  /\ sub' = [sub EXCEPT !.end = "parsed"]
  /\ UNCHANGED text

SubstInit ==
  /\ text \in Texts
  /\ sub = [at |-> 1, lex |-> "bare", looked |-> {}, end |-> "none"]

SubstNext == Substitute \/ CopyUnit \/ ParseText

SubstSpec == SubstInit /\ [][SubstNext]_substVars

-----------------------------------------------------------------------------
(* The comments of a TOML text, told by looking ahead rather than by state. *)

\* A quote is escaped by an odd number of backslashes before it.
Escaped(p, from) ==
  LET n == Max({k \in 0 .. p - from : \A j \in 1 .. k : text[p - j] = "bs"}) IN n % 2 = 1

Unescaped(q, p, from) == text[p] = q /\ (q = "dq" => ~Escaped(p, from))

\* Where the single-line string opened at p ends: its quote or its line.
SingleEnd(q, p) ==
  Min({Len(text)} \union
      {e \in p + 1 .. Len(text) : text[e] = "nl" \/ Unescaped(q, e, p + 1)})

\* Where the multi-line string opened at p ends: the first three quotes, and
\* up to two more.
MultiEnd(q, p) ==
  Min({Len(text)} \union
      {e + Min({RunOf(q, e), 5}) - 1 :
         e \in {e \in p + 3 .. Len(text) - 2 : Unescaped(q, e, p + 3) /\ RunOf(q, e) >= 3}})

CommentEnd(p) == Min({Len(text)} \union {e - 1 : e \in {e \in p .. Len(text) : text[e] = "nl"}})

LexemeEnd(p) ==
  IF text[p] = "#" THEN CommentEnd(p)
  ELSE IF text[p] \in {"dq", "sq"}
       THEN IF RunOf(text[p], p) >= 3 THEN MultiEnd(text[p], p) ELSE SingleEnd(text[p], p)
       ELSE p

\* Every position that lies in a comment.
Commented ==
  LET from[p \in 1 .. Len(text) + 1] ==
        IF p > Len(text) THEN {}
        ELSE (IF text[p] = "#" THEN p .. LexemeEnd(p) ELSE {}) \union from[LexemeEnd(p) + 1]
  IN  from[1]

\* The scanner looks up exactly the tokens outside comments, whatever strings,
\* escapes and quote runs come before them: an example in a comment never
\* fails the load, and a '#' inside a string never hides a variable.
LooksUpLiveTokens ==
  /\ sub.looked = {p \in (1 .. Len(text)) \ Commented :
                     Token(text[p]) /\ p < (IF sub.end = "error" THEN sub.at + 1 ELSE sub.at)}
  /\ sub.end = "error" => text[sub.at] = "U"
=============================================================================
