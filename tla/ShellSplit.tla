----------------------------- MODULE ShellSplit -----------------------------
(***************************************************************************)
(* How the scratch-guard hook reads a Bash command (scratch_guard.rs,      *)
(* split): character by character into simple commands, each with its      *)
(* words and the targets of its redirections.                              *)
(***************************************************************************)
EXTENDS Naturals, Sequences, SequencesExt

CONSTANT Words     \* the words that commands are made of, as characters

VARIABLES
  tokens,          \* the command line as it is meant: see Tokens
  rest,            \* `chars`, what is left of it as it is written
  lexed            \* out, word, have_word and redirect, and the quote one is in

vars == <<tokens, rest, lexed>>

----------------------------------------------------------------------------
(* What may be written, and what it means to a shell.                      *)

Special == {" ", "'", "\"", "\\", ";", ">", "&"}
Styles == {"bare", "single", "double"}

\* A word as a careful writer quotes it.
Quoted(word, style) ==
  LET Escape(set) == FlattenSeq([i \in DOMAIN word |->
                       IF word[i] \in set THEN <<"\\", word[i]>> ELSE <<word[i]>>])
  IN CASE style = "bare" -> Escape(Special)
       [] style = "single" -> <<"'">> \o word \o <<"'">>
       [] style = "double" -> <<"\"">> \o Escape({"\"", "\\"}) \o <<"\"">>

Quotable(word, style) ==
  CASE style = "bare" -> word # <<>>
    [] style = "single" -> \A i \in DOMAIN word : word[i] # "'"
    [] style = "double" -> TRUE

Tokens == {t \in [word : Words, style : Styles, to : {<<>>, <<">">>, <<"2", ">", ">">>}] :
             Quotable(t.word, t.style)}
Gaps == {<<" ">>, <<";">>, <<"&", "&">>, <<" ", "2", ">", "&", "1", "&">>}

Text(ts) == Quoted(ts[1].word, ts[1].style) \o ts[2] \o ts[3].to \o Quoted(ts[3].word, ts[3].style)

Simple(words, redirects) == [words |-> words, redirects |-> redirects]

\* The commands meant: one, or two when the gap ends a command.
Meant(ts) ==
  LET first == Simple(<<ts[1].word>>, <<>>)
      Second(s) == IF ts[3].to = <<>> THEN [s EXCEPT !.words = Append(@, ts[3].word)]
                   ELSE [s EXCEPT !.redirects = Append(@, ts[3].word)]
  IN IF ts[2] = <<" ">> THEN <<Second(first)>> ELSE <<first, Second(Simple(<<>>, <<>>))>>

TypeOK ==
  /\ tokens \in Tokens \X Gaps \X Tokens
  /\ IsSuffix(rest, Text(tokens))
  /\ lexed.quote \in {"none", "single", "double"} /\ lexed.have \in BOOLEAN
  /\ lexed.redirect \in BOOLEAN /\ Len(lexed.out) \in 1..3

Init ==
  /\ tokens \in {<<a, g, b>> : a \in {t \in Tokens : t.to = <<>>}, g \in Gaps, b \in Tokens}
  /\ rest = Text(tokens)
  /\ lexed = [out |-> <<Simple(<<>>, <<>>)>>, word |-> <<>>, have |-> FALSE,
              redirect |-> FALSE, quote |-> "none"]

----------------------------------------------------------------------------
\* (mutant) A word is kept only when it has characters.
FlushFull(s) ==
  IF ~s.have \/ s.word = <<>> THEN [s EXCEPT !.have = FALSE]
  ELSE LET n == Len(s.out)
           kept == IF s.redirect THEN [s.out[n] EXCEPT !.redirects = Append(@, s.word)]
                   ELSE [s.out[n] EXCEPT !.words = Append(@, s.word)]
       IN [s EXCEPT !.out[n] = kept, !.word = <<>>, !.have = FALSE, !.redirect = FALSE]

\* flush!: the word ends, as a redirect's target or as an argument.
Flush(s) ==
  IF ~s.have THEN s
  ELSE LET n == Len(s.out)
           kept == IF s.redirect THEN [s.out[n] EXCEPT !.redirects = Append(@, s.word)]
                   ELSE [s.out[n] EXCEPT !.words = Append(@, s.word)]
       IN [s EXCEPT !.out[n] = kept, !.word = <<>>, !.have = FALSE, !.redirect = FALSE]

Push(s, c) == [s EXCEPT !.word = Append(@, c), !.have = TRUE]

EndCommand(s) ==
  LET f == [Flush(s) EXCEPT !.redirect = FALSE]
      open == f.out[Len(f.out)]
  IN IF open.words = <<>> /\ open.redirects = <<>> THEN f
     ELSE [f EXCEPT !.out = Append(@, Simple(<<>>, <<>>))]

Digits(w) == \A i \in DOMAIN w : w[i] \in {"1", "2"}
Drop(n) == rest' = SubSeq(rest, n + 1, Len(rest))
Follows(c) == Len(rest) > 1 /\ rest[2] = c

Plain(c) ==
  CASE c = "'" -> lexed' = [lexed EXCEPT !.have = TRUE, !.quote = "single"] /\ Drop(1)
    [] c = "\"" -> lexed' = [lexed EXCEPT !.have = TRUE, !.quote = "double"] /\ Drop(1)
    [] c = "\\" -> (IF Len(rest) > 1 THEN lexed' = Push(lexed, rest[2])
                    ELSE lexed' = [lexed EXCEPT !.have = TRUE]) /\ Drop(2)
    [] c = " " -> lexed' = Flush(lexed) /\ Drop(1)
    [] c = ">" ->
         LET fd == IF lexed.have /\ Digits(lexed.word)
                   THEN [lexed EXCEPT !.word = <<>>, !.have = FALSE] ELSE lexed
             n == IF Follows(">") THEN 2 ELSE 1
             dup == Len(rest) > n /\ rest[n + 1] = "&"
             digits == {i \in (n + 2)..Len(rest) :
                          \A j \in (n + 2)..i : rest[j] \in {"1", "2"}}
         IN /\ lexed' = [Flush(fd) EXCEPT !.redirect = @ \/ ~dup]
            /\ Drop(IF dup THEN n + 1 + Cardinality(digits) ELSE n)
    [] c \in {";", "&"} ->
         lexed' = EndCommand(lexed) /\ Drop(IF c = "&" /\ Follows(c) THEN 2 ELSE 1)
    [] OTHER -> lexed' = Push(lexed, c) /\ Drop(1)

\* (mutant) A backslash is a character like the others between double quotes.
InQuoteVerbatim(c) ==
  IF c = (IF lexed.quote = "single" THEN "'" ELSE "\"")
  THEN lexed' = [lexed EXCEPT !.quote = "none"] /\ Drop(1)
  ELSE lexed' = Push(lexed, c) /\ Drop(1)

InQuote(c) ==
  IF c = (IF lexed.quote = "single" THEN "'" ELSE "\"")
  THEN lexed' = [lexed EXCEPT !.quote = "none"] /\ Drop(1)
  ELSE IF c = "\\" /\ lexed.quote = "double" /\ Len(rest) > 1
  THEN lexed' = Push(lexed, rest[2]) /\ Drop(2)
  ELSE lexed' = Push(lexed, c) /\ Drop(1)

Char ==
  /\ rest # <<>>
  /\ IF lexed.quote = "none" THEN Plain(rest[1]) ELSE InQuote(rest[1])
  /\ UNCHANGED tokens

\* split's value: the last word is flushed.
Split == Flush(lexed).out

Next == Char

Spec == Init /\ [][Next]_vars

----------------------------------------------------------------------------
\* However a word is quoted, split gives back the words, targets and
\* commands that were meant: no quote hides a path from the hook, and no
\* character of a word ends it early.
SplitGivesBackWhatIsMeant ==
  rest = <<>> /\ lexed.quote = "none" => Split = Meant(tokens)
=============================================================================
