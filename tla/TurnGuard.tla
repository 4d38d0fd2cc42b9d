------------------------------ MODULE TurnGuard ------------------------------
(***************************************************************************)
(* The last gate of a turn. What the user asked and what was rendered pass *)
(* the structural checks, then the quality gate; a refused answer is       *)
(* replaced before the history keeps it, and the history is what the next  *)
(* turns look for repetition in.                                           *)
(***************************************************************************)
EXTENDS Integers, Sequences, FiniteSets

CONSTANTS
  Nothing,      \* no phase refused, no turn decided yet
  Inputs,       \* what was typed: [blank, chars]
  TopicWords,   \* sets of words, each [stem, bytes]
  Renderings,   \* [text, blank, bytes, leaks, toxic, filler, stems, tokens, content, bigrams]
  Lower,        \* a text trimmed and in lower case
  RefusalText,  \* the text shown in place of a refused answer
  HistoryLimit  \* bound: entries the history keeps

(* The history keeps at least what the repetition check looks back at.      *)
GuardAssumption == HistoryLimit \in Nat /\ HistoryLimit >= 5

VARIABLES
  history,      \* texts kept, oldest first
  shown,        \* the texts the user last saw, whatever the history kept of them
  decision      \* last_turn_decision with the phase that refused

guardVars == <<history, shown, decision>>

HISTORY_LOOKBACK == 5
REPETITION_THRESHOLD == 3
MaxInput == 8192
MaxRender == 5000

Latest(sequence, n) ==
  SubSeq(sequence, IF Len(sequence) > n THEN Len(sequence) - n + 1 ELSE 1, Len(sequence))
Oldest(sequence, n) == SubSeq(sequence, 1, IF Len(sequence) > n THEN n ELSE Len(sequence))
Matches(text, texts) == Cardinality({k \in DOMAIN texts : Lower[texts[k]] = Lower[text]})
-----------------------------------------------------------------------------
(* Heuristics, each a reason to refuse.                                     *)
OffTopic(topic, r) ==
  topic # {} /\ ~\E word \in topic : word.bytes >= 3 /\ word.stem \in r.stems
Thin(r) == r.tokens >= 16 /\ 20 * r.content < 3 * r.tokens
Saturated(r) == r.tokens >= 20 /\ 5 * r.bigrams < r.tokens - 1
Stuck_OldestFive(r) == Matches(r.text, Oldest(history, HISTORY_LOOKBACK)) >= REPETITION_THRESHOLD
Stuck(r) == Matches(r.text, Latest(history, HISTORY_LOOKBACK)) >= REPETITION_THRESHOLD

Unsafe(r) == r.blank \/ r.bytes > MaxRender \/ r.leaks \/ r.toxic
PoorQuality(topic, r) ==
  r.blank \/ r.leaks \/ r.filler \/ OffTopic(topic, r) \/ Thin(r) \/ Saturated(r)

(* Checks run in order, and the first that fails names the phase.           *)
Verdict(input, topic, r) ==
  IF input.blank \/ input.chars > MaxInput THEN [status |-> "InvariantBlock", phase |-> "input"]
  ELSE IF Unsafe(r) THEN [status |-> "InvariantBlock", phase |-> "safety"]
  ELSE IF PoorQuality(topic, r) THEN [status |-> "Blocked", phase |-> "quality"]
  ELSE [status |-> IF Stuck(r) THEN "InvariantWarn" ELSE "Allowed", phase |-> Nothing]
Refused(verdict) == verdict.phase # Nothing

(* A refusal is a repair move without legitimacy; its text enters history.  *)
Record(r, verdict) ==
  Latest(Append(history, IF Refused(verdict) THEN RefusalText ELSE r.text), HistoryLimit)
Respond(r, verdict) ==
  /\ decision' = [verdict |-> verdict,
                  family |-> IF Refused(verdict) THEN "repair" ELSE "routed",
                  legitimacy |-> IF Refused(verdict) THEN 0 ELSE 1]
  /\ history' = Record(r, verdict)
  /\ shown' = Latest(Append(shown, IF Refused(verdict) THEN RefusalText ELSE r.text),
                     HISTORY_LOOKBACK + 1)
GuardStage ==
  \E input \in Inputs, topic \in TopicWords, r \in Renderings : Respond(r, Verdict(input, topic, r))
GuardInit == history = << >> /\ shown = << >> /\ decision = Nothing
GuardNext == GuardStage
GuardSpec == GuardInit /\ [][GuardNext]_guardVars
-----------------------------------------------------------------------------
(* An answer the user has seen three times among the last five is never     *)
(* given again as allowed, and no other answer is warned of.                *)
StuckIsNoticed ==
  decision # Nothing =>
    LET last == shown[Len(shown)]
        stuck == Matches(last, SubSeq(shown, 1, Len(shown) - 1)) >= REPETITION_THRESHOLD
    IN  /\ decision.verdict.status = "Allowed" => ~stuck
        /\ decision.verdict.status = "InvariantWarn" => stuck
=============================================================================
