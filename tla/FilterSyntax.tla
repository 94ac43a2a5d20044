---------------------------- MODULE FilterSyntax ----------------------------
(***************************************************************************)
(* FilterSyntax: the parser of filter expressions in                       *)
(* rmpd-core/src/filter.rs.  A client writes a sentence of the language of *)
(* filters and mistypes it; the parser must read what the language says.   *)
(*                                                                         *)
(* A sentence is a sequence of tokens, each a string.  Left out: the white *)
(* space between tokens, which consume_word wants behind a word, escapes   *)
(* in a quoted string, and AudioFormat.  Queries says what a filter means. *)
(***************************************************************************)
EXTENDS Integers, SequencesExt

CONSTANTS
  TagWords,  \* tags the program knows
  Quoted,     \* quoted token -> its text
  Instants,   \* text -> the time it says, where it says one
  Numerals,   \* token -> number
  OtherWords,      \* further words a client may write
  MaxTypos    \* bound: tokens mistyped

ASSUME FilterSyntaxConstants ==
  /\ DOMAIN Instants \subseteq {Quoted[q] : q \in DOMAIN Quoted}
  /\ \A n \in DOMAIN Numerals : Numerals[n] \in Nat
  /\ MaxTypos \in Nat

VARIABLES
  sentence,  \* what is written
  foldCase,  \* the command folds case: search and its like
  typos      \* tokens mistyped so far

syntaxvars == <<sentence, foldCase, typos>>

-----------------------------------------------------------------------------
(* The operators on strings.                                                *)
Operator(text, op, sense, negated) ==
  [text |-> text, op |-> op, sense |-> sense, negated |-> negated]

\* Each verb as it is, with _cs or with _ci, each of them also negated; the verb of
\* equality has a sign for its plain form.  sense: what an operator says of case.
StringOperators ==
  UNION {{Operator(verb, verb, "default", FALSE), Operator("!" \o verb, verb, "default", TRUE)} :
           verb \in {"contains", "starts_with"}}
  \union UNION {{Operator(verb \o "_cs", verb, "exact", FALSE), Operator("!" \o verb \o "_cs", verb, "exact", TRUE),
                 Operator(verb \o "_ci", verb, "folded", FALSE), Operator("!" \o verb \o "_ci", verb, "folded", TRUE)} :
           verb \in {"contains", "starts_with", "eq"}}
  \union {Operator("==", "eq", "default", FALSE), Operator("!=", "eq", "default", TRUE),
          Operator("=~", "regex", "default", FALSE), Operator("!~", "regex", "default", TRUE)}

IsOperator(t) == \E o \in StringOperators : o.text = t
OperatorOf(t) == CHOOSE o \in StringOperators : o.text = t

\* Mutant: what is said of case is taken for the negation's.
CaseSensitiveByCommand(o, fold) == ~fold

\* Exact unless the operator or, where it says nothing, the command folds case.
CaseSensitive(o, fold) == IF o.sense = "default" THEN ~fold ELSE o.sense = "exact"

-----------------------------------------------------------------------------
(* The parser: each operator reads on from a place in a sentence, and gives *)
(* what it read and the place behind it.                                    *)
Failed       == [ok |-> FALSE]
Got(expr, i) == [ok |-> TRUE, expr |-> expr, at |-> i]
Peek(ts, i)  == IF i <= Len(ts) THEN ts[i] ELSE ""

\* What was read must be closed.
Closed(ts, read) ==
  IF read.ok /\ Peek(ts, read.at) = ")" THEN [read EXCEPT !.at = @ + 1] ELSE Failed

And(left, right) == [kind |-> "and", left |-> left, right |-> right]
Not(of)          == [kind |-> "not", of |-> of]
Comparison(tag, op, value, caseSensitive, negated) ==
  [kind |-> "compare", tag |-> tag, op |-> op, value |-> value,
   cs |-> caseSensitive, negated |-> negated]

\* parse_compare_tail.
ParseComparison(ts, i, tag, fold) ==
  LET o == OperatorOf(Peek(ts, i))
  IN  IF IsOperator(Peek(ts, i)) /\ Peek(ts, i + 1) \in DOMAIN Quoted
      THEN Got(Comparison(tag, o.op, Quoted[ts[i + 1]], CaseSensitive(o, fold), o.negated), i + 2)
      ELSE Failed

\* parse_term_body, after the word at i.
ParseTerm(ts, i, fold) ==
  LET word == Peek(ts, i)   next == Peek(ts, i + 1)
      value == IF next \in DOMAIN Quoted THEN Quoted[next] ELSE ""
  IN  CASE word = "base" /\ next \in DOMAIN Quoted ->
             Got([kind |-> "base", path |-> value], i + 2)
        [] word \in {"modified-since", "added-since"} /\ next \in DOMAIN Quoted
           /\ value \in DOMAIN Instants ->
             Got([kind |-> word, since |-> Instants[value]], i + 2)
        [] word = "prio" /\ next = ">=" /\ Peek(ts, i + 2) \in DOMAIN Numerals
           /\ Numerals[ts[i + 2]] <= 255 ->
             Got([kind |-> "prio", least |-> Numerals[ts[i + 2]]], i + 3)
        [] word \in {"file", "any"} \union TagWords ->
             ParseComparison(ts, i + 1, word, fold)
        [] OTHER -> Failed

RECURSIVE ParseGroup(_, _, _), ParseAnds(_, _, _)

\* Mutant: the terms of an AND are nested to the right.
ParseAndsRight(ts, left, fold) ==
  LET next == ParseGroup(ts, left.at + 1, fold)
      rest == ParseAnds(ts, next, fold)
  IN  IF ~left.ok THEN Failed
      ELSE IF Peek(ts, left.at) = ")" THEN Closed(ts, left)
      ELSE IF Peek(ts, left.at) # "AND" \/ ~next.ok THEN Failed
      ELSE IF ~rest.ok THEN Failed
      ELSE Got(And(left.expr, rest.expr), rest.at)

\* The loop of parse_group: AND and another group, until the group is closed.
ParseAnds(ts, left, fold) ==
  IF ~left.ok THEN Failed
  ELSE IF Peek(ts, left.at) = ")" THEN Closed(ts, left)
  ELSE IF Peek(ts, left.at) # "AND" THEN Failed
  ELSE LET next == ParseGroup(ts, left.at + 1, fold)
       IN  IF ~next.ok THEN Failed
           ELSE ParseAnds(ts, Got(And(left.expr, next.expr), next.at), fold)

\* parse_group: groups joined by AND, a negated group, or a term.
ParseGroup(ts, i, fold) ==
  IF Peek(ts, i) # "(" THEN Failed
  ELSE CASE Peek(ts, i + 1) = "(" -> ParseAnds(ts, ParseGroup(ts, i + 1, fold), fold)
         [] Peek(ts, i + 1) = "!" ->
              LET inner == ParseGroup(ts, i + 2, fold)
              IN  IF inner.ok THEN Closed(ts, Got(Not(inner.expr), inner.at)) ELSE Failed
         [] OTHER -> Closed(ts, ParseTerm(ts, i + 1, fold))

\* Mutant: what follows the expression is let be.
ParseFirst(ts, fold) == ParseGroup(ts, 1, fold)

\* parse: one group and nothing behind it.
Parse(ts, fold) ==
  LET read == ParseGroup(ts, 1, fold)
  IN  IF read.ok /\ read.at = Len(ts) + 1 THEN read ELSE Failed

-----------------------------------------------------------------------------
(* The language: what a sentence may mean, by its grammar.                  *)
Said(text, expr) == [text |-> text, expr |-> expr]
Bracket(text)    == <<"(">> \o text \o <<")">>

Terms(fold) ==
  {Said(Bracket(<<tag, o.text, q>>),
        Comparison(tag, o.op, Quoted[q],
                   o.sense = "exact" \/ (o.sense = "default" /\ ~fold), o.negated)) :
     tag \in TagWords \union {"any", "file"}, o \in StringOperators, q \in DOMAIN Quoted}
  \union {Said(Bracket(<<"base", q>>), [kind |-> "base", path |-> Quoted[q]]) : q \in DOMAIN Quoted}
  \union {Said(Bracket(<<word, q>>), [kind |-> word, since |-> Instants[Quoted[q]]]) :
            word \in {"modified-since", "added-since"},
            q \in {r \in DOMAIN Quoted : Quoted[r] \in DOMAIN Instants}}
  \union {Said(Bracket(<<"prio", ">=", n>>), [kind |-> "prio", least |-> Numerals[n]]) :
            n \in {m \in DOMAIN Numerals : Numerals[m] < 256}}
\* What a text means as a term, if it is one.
TermMeaning == [fold \in BOOLEAN |->
  [text \in {t.text : t \in Terms(fold)} |-> {t.expr : t \in {u \in Terms(fold) : u.text = text}}]]

RECURSIVE Meanings(_, _), Conjunctions(_, _)

\* A term, a group with ! before it, or groups with AND between them; in brackets.
Meanings(ts, fold) ==
  LET inside == SubSeq(ts, 2, Len(ts) - 1)
  IN  (IF ts \in DOMAIN TermMeaning[fold] THEN TermMeaning[fold][ts] ELSE {})
      \union IF Len(ts) < 5 \/ ts # Bracket(inside) THEN {}
             ELSE Conjunctions(inside, fold)
                  \union {Not(e) : e \in IF inside[1] = "!" THEN Meanings(Tail(inside), fold) ELSE {}}
Conjunctions(ts, fold) ==
  Meanings(ts, fold)
  \union UNION {{And(l, r) : l \in Conjunctions(SubSeq(ts, 1, i - 1), fold),
                             r \in Meanings(SubSeq(ts, i + 1, Len(ts)), fold)} :
                  i \in {j \in DOMAIN ts : ts[j] = "AND"}}

-----------------------------------------------------------------------------
(* What a client writes: the terms, and groups of a few of them.            *)
Nots(S) == {Bracket(<<"!">> \o s) : s \in S}
Ands(S) == {Bracket(s) : s \in S}
           \union {Bracket(s \o <<"AND">> \o t) : s \in S, t \in S}
           \union {Bracket(s \o <<"AND">> \o t \o <<"AND">> \o u) : s \in S, t \in S, u \in S}
Simple    == {Bracket(<<"base", q>>) : q \in DOMAIN Quoted}
Groups    == Nots(Simple) \union Ands(Simple)
Sentences == DOMAIN TermMeaning[TRUE] \union Groups \union Nots(Groups)
             \union Ands({CHOOSE s \in Simple : TRUE} \union Nots(Simple))

Tokens == {"(", ")", "!", "AND", ">=", "base", "modified-since", "prio", "any"}
          \union {"==", "!contains_ci"} \union TagWords \union OtherWords
          \union DOMAIN Quoted \union DOMAIN Numerals

SyntaxInit ==
  /\ foldCase \in BOOLEAN /\ typos = 0
  /\ sentence \in Sentences

\* A token is left out, put in, or another.
Mistype ==
  /\ typos < MaxTypos
  /\ typos' = typos + 1
  /\ \E i \in 1 .. Len(sentence) :
       \/ sentence' = RemoveAt(sentence, i)
       \/ \E t \in Tokens : sentence' \in {InsertAt(sentence, i, t), [sentence EXCEPT ![i] = t]}
  /\ UNCHANGED foldCase

SyntaxNext == Mistype
SyntaxSpec == SyntaxInit /\ [][SyntaxNext]_syntaxvars

-----------------------------------------------------------------------------
\* The grammar gives a sentence one meaning or none, and the parser finds it: also
\* of a sentence with a token mistyped.
FilterRead ==
  LET read == Parse(sentence, foldCase)
  IN  Meanings(sentence, foldCase) = IF read.ok THEN {read.expr} ELSE {}
=============================================================================
