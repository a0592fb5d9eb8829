----------------------------- MODULE BenchRunner -----------------------------
(***************************************************************************)
(* The benchmark runners: a pool of threads asks the server one question   *)
(* each, up to three times, and scores what it holds at the end.           *)
(* hybrid_gsm8k.py and mc_run.py keep the text of the last attempt;        *)
(* hybrid_codegen.py keeps the solution and why the last attempt failed.   *)
(*                                                                         *)
(* Texts are reduced to what is extracted from them: the right answer, a   *)
(* wrong one, none (unclear), or there is no text at all.  A reply is      *)
(* ended by the model (stop), by the limit on its length, or otherwise.    *)
(* The text of an error may hold the right answer by chance ("HTTP Error   *)
(* 500").  Prompts, waits, the fin column, which nothing counts, and the   *)
(* grading of programs are left out.                                       *)
(***************************************************************************)
EXTENDS Naturals, FiniteSets

CONSTANTS NumQuestions, Conc

ASSUME BenchConstants == NumQuestions \in Nat \ {0} /\ Conc \in Nat \ {0}

VARIABLES bench,   \* the runner, or "none"
          row,     \* what each thread holds for its question
          got      \* what came of the last attempt (history)

benchVars == <<bench, row, got>>

Questions == 1 .. NumQuestions
Runners   == {"gsm8k", "mc", "codegen"}
Tries     == 3

Texts    == {"right", "wrong", "unclear", "none"}
ErrTexts == {"err_right", "err_wrong"}            \* texts that begin with ERR
Replies  == [text : Texts, fin : {"stop", "length", "other"}]
Errors   == [text : ErrTexts, fin : {"error"}]
Outcomes == Replies \cup Errors

Fresh == [state |-> "queued", tries |-> 0, txt |-> "none", status |-> "none"]

NoRows == [q \in Questions |-> Fresh]
NoneAsked == [q \in Questions |-> [text |-> "none", fin |-> "none"]]

BenchInit == bench = "none" /\ row = NoRows /\ got = NoneAsked

In(state)    == {q \in Questions : row[q].state = state}
BenchRunning == bench # "none" /\ In("done") # Questions

StartBench == bench' \in Runners /\ row' = NoRows /\ got' = NoneAsked

\* The runner's process has ended; its rows are in a file.
EndBench == bench' = "none" /\ row' = NoRows /\ got' = NoneAsked

\* The pool takes questions in the order they were submitted.
Take ==
  /\ bench # "none" /\ Cardinality(In("running")) < Conc
  /\ \E q \in In("queued") : /\ \A p \in In("queued") : q <= p
                             /\ row' = [row EXCEPT ![q].state = "running"]
  /\ UNCHANGED <<bench, got>>

\* Only a reply cut for its length is not taken; sanitize leaves nothing of a
\* text without a program.
Taken(o)        == o.fin \in {"stop", "other"}
Sanitized(text) == IF text = "unclear" THEN "none" ELSE text

\* What a thread holds after an outcome, and whether it is content with it.
\* Mutant of Held: a text that was cut short is kept.
HeldCut(r, o) ==
  CASE bench # "codegen" -> [r EXCEPT !.txt = o.text]
    [] bench = "codegen" /\ Taken(o) ->
         [r EXCEPT !.txt = Sanitized(o.text),
                   !.status = IF Sanitized(o.text) = "none" THEN "empty" ELSE "ok"]
    [] bench = "codegen" /\ ~Taken(o) -> [r EXCEPT !.status = o.fin]

Held(r, o) ==
  CASE bench # "codegen" -> [r EXCEPT !.txt = IF o.fin = "length" THEN "none" ELSE o.text]
    [] bench = "codegen" /\ Taken(o) ->
         [r EXCEPT !.txt = Sanitized(o.text),
                   !.status = IF Sanitized(o.text) = "none" THEN "empty" ELSE "ok"]
    [] bench = "codegen" /\ ~Taken(o) -> [r EXCEPT !.status = o.fin]

Content(o) == Taken(o) /\ (bench = "codegen" => Sanitized(o.text) # "none")

\* The count of tries ends with a thread's loop.
Attempt(q, o) ==
  /\ bench # "none" /\ q \in In("running")
  /\ LET r == Held([row[q] EXCEPT !.tries = @ + 1], o)
     IN  row' = [row EXCEPT ![q] = IF Content(o) \/ r.tries = Tries
                                   THEN [r EXCEPT !.state = "done", !.tries = 0] ELSE r]
  /\ got' = [got EXCEPT ![q] = o]
  /\ UNCHANGED bench

\* The two columns of a row, and of the programs that are graded elsewhere
\* whether there is one.
ok(q)    == row[q].txt \in {"right", "err_right"}
empty(q) == row[q].txt \in {"none"} \cup ErrTexts
-----------------------------------------------------------------------------
(***************************************************************************)
(* What is counted is what the last attempt brought, never a text cut for  *)
(* its length or left from an earlier attempt.  A row is right exactly     *)
(* when that attempt's reply was taken and held the right answer; wrong,   *)
(* when it was taken and held a wrong one or, but for programs, a text     *)
(* without any; and empty otherwise.  Only an error whose text holds the   *)
(* right answer counts as right and as empty.  How a reply ended is of no  *)
(* account, but for its length: for programs too, though gen says on its   *)
(* retries that "finish must be 'stop'".  A program's last attempt decides *)
(* whether it counts as cut short, however the earlier ones ended.         *)
(***************************************************************************)
RowsAreAnswers ==
  \A q \in In("done") :
    LET last == got[q]
    IN  /\ ok(q) /\ ~empty(q)  <=> Taken(last) /\ last.text = "right"
        /\ ~ok(q) /\ ~empty(q) <=> /\ Taken(last)
                                  /\ \/ last.text = "wrong"
                                     \/ bench # "codegen" /\ last.text = "unclear"
        /\ ok(q) /\ empty(q)   <=> bench # "codegen" /\ last.text = "err_right"
        /\ bench = "codegen" =>
             /\ row[q].status = "length" <=> last.fin = "length"
             /\ row[q].status = "ok" <=> /\ last.fin \in {"stop", "other"}
                                         /\ last.text \in {"right", "wrong"}
=============================================================================
