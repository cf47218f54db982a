---------------------------- MODULE MCTutorTurn ----------------------------
(* Constants for the run of TutorTurn. *)
EXTENDS TutorTurn, SequencesExt

CONSTANTS MaxLines, ShortLines, counter, generic

\* A model's answer comes stripped (llm.py:97): no blank line at either end.
Stripped(s) == s # << >> /\ s[1] # "blank" /\ s[Len(s)] # "blank"
LinesUpTo(n, kinds) == {s \in BoundedSeq(kinds, n) : Stripped(s)}

\* Long texts of the kinds the scan tells apart; short ones of every kind, with
\* lengths around both limits, quoting one datum of either test or none.
DraftsOf(lines, words, quotes) ==
  {[lines |-> l, words |-> w, quotes |-> q] : l \in lines, w \in words, q \in quotes}
AllDrafts ==
  DraftsOf(LinesUpTo(MaxLines, {"fence", "blank", "prose", "index", "signature"}),
           {MAX_WORDS_LOGIC}, {{}})
  \cup
  DraftsOf(LinesUpTo(ShortLines, LineKinds),
           {MAX_WORDS_LOGIC, MAX_WORDS_LOGIC + 1, MAX_WORDS_CODE, MAX_WORDS_CODE + 1},
           {{}} \cup {{<<i, f>>} : i \in 1 .. 2, f \in {"stdout", "stderr"}})

\* A name of its own: TLC evaluates AllDrafts once.
MCDrafts == AllDrafts

MCExecutions == {<<TRUE, FALSE>>}
=============================================================================
