------------------------------ MODULE Signals ------------------------------
(***************************************************************************)
(* The text of a final decision and what is read in it: the renderer       *)
(* (agents/schemas.py), the parser of the rating (agents/utils/rating.py)  *)
(* and that of the trading intent (trading_intent.py).                     *)
(*                                                                         *)
(* A text has the JSON object in it (or none, or half of one), the number  *)
(* after "target weight" (or Unset), and its lines; of a line, whether it  *)
(* is labelled "Rating:", and the words one of the parsers knows.          *)
(***************************************************************************)
EXTENDS Integers, Sequences

CONSTANT Weights   \* what a target weight may be

Unset == -1
Ratings == {"buy", "overweight", "hold", "underweight", "sell"}
\* For EXIT, LIQUIDATE, CLEAR and for REDUCE, TRIM; BUY and SELL are ratings too.
Vocabulary == Ratings \cup {"exit", "reduce"}

NoJson == [action |-> "none", weight |-> Unset]
Malformed == [action |-> "malformed", weight |-> Unset]
Payloads == [action : {"BUY", "SELL", "HOLD", "REDUCE", "EXIT", "OVERWEIGHT"},
             weight : {Unset} \cup Weights]

Line(rating, words) == [rating |-> rating, words |-> words]

\* render_pm_decision: the rating is the first line, the summary and the thesis
\* the others.
RenderPmDecision(rating, summary, weight) ==
  [json |-> NoJson, weight |-> weight,
   lines |-> <<Line(TRUE, <<rating>>), Line(FALSE, summary)>>]

\* What the model says in free text where it has no structured output.
FreeText(json, words, weight) ==
  [json |-> json, weight |-> weight, lines |-> <<Line(FALSE, words)>>]

Summaries == {<<>>} \cup {<<w>> : w \in Vocabulary}
RenderedTexts ==
  {RenderPmDecision(r, ws, w) : r \in Ratings, ws \in Summaries, w \in {Unset} \cup Weights}
Texts ==
  RenderedTexts
  \cup {FreeText(NoJson, ws, w) : ws \in Summaries, w \in {Unset} \cup Weights}
  \cup {FreeText(j, <<>>, Unset) : j \in Payloads \cup {Malformed}}

\* parse_rating, for process_signal and the log: a labelled line, or else the
\* first rating there is.
ParseRating(text) ==
  LET rated(words) == SelectSeq(words, LAMBDA w : w \in Ratings)
      labelled == SelectSeq(text.lines, LAMBDA l : l.rating /\ l.words # <<>> /\ l.words[1] \in Ratings)
      naming == SelectSeq(text.lines, LAMBDA l : rated(l.words) # <<>>)
  IN  IF labelled # <<>> THEN labelled[1].words[1]
      ELSE IF naming # <<>> THEN rated(naming[1].words)[1] ELSE "hold"

\* _from_text: the gravest word wins, wherever it stands.
ActionOfText(text) ==
  LET says(w) == \E i \in DOMAIN text.lines : \E j \in DOMAIN text.lines[i].words :
                   text.lines[i].words[j] = w
  IN  IF says("exit") THEN "EXIT" ELSE IF says("reduce") THEN "REDUCE"
      ELSE IF says("sell") THEN "SELL" ELSE IF says("buy") THEN "BUY" ELSE "HOLD"

\* _normalize_action.
Unparsed == [action |-> "unparsed", weight |-> Unset]
NormalizeAction(payload) == IF payload.action = "OVERWEIGHT" THEN Unparsed ELSE payload

\* TradingIntentParser.parse, up to the weight the position has.
ReadIntent(text) ==
  IF text.json = Malformed THEN Unparsed
  ELSE IF text.json # NoJson THEN NormalizeAction(text.json)
  ELSE [action |-> ActionOfText(text), weight |-> text.weight]
=============================================================================
