--------------------------- MODULE ReasoningBudget ---------------------------
(***************************************************************************)
(* common_reasoning_budget: the sampler that ends a reasoning block when   *)
(* its budget of tokens is used up, by forcing a message and the end tag.  *)
(*                                                                         *)
(* It first accepts the tokens of the generation prompt, which may open    *)
(* the block already, then one generated token at a time; while it forces, *)
(* the forced token is the only one that can be sampled (no grammar, or a  *)
(* lazy one, which does not apply inside the block).                       *)
(***************************************************************************)
EXTENDS Integers, Sequences, SequencesExt

CONSTANTS
  Tokens,     \* the vocabulary
  Incomplete, \* the tokens that end inside a character of several bytes
  StartTag, EndTag,
  Forced,     \* forced_tokens: a message and the end tag
  Cases,      \* budgets, and tokens of the generation prompt that go with them
  MaxBlock    \* bound: tokens in a block

ASSUME BudgetAssumption ==
  /\ Incomplete \subseteq Tokens
  /\ {StartTag, EndTag, Forced} \subseteq Seq(Tokens) \ {<<>>}
  /\ \A c \in Cases : c.budget \in Nat /\ c.prefill \in Seq(Tokens)

VARIABLES
  budget,    \* budget
  prefill,   \* what is left to accept of the generation prompt
  rbState,   \* state
  startPos,  \* start_matcher.pos
  endPos,    \* end_matcher.pos
  remaining, \* remaining
  forcePos,  \* force_pos
  block,     \* history: the tokens since the last start tag
  swallowed  \* history: those of the generation prompt that came while forcing

budgetVars == <<budget, prefill, rbState, startPos, endPos, remaining, forcePos, block,
                swallowed>>

BudgetInit ==
  /\ \E c \in Cases : budget = c.budget /\ prefill = c.prefill /\ remaining = c.budget
  /\ rbState = "IDLE"
  /\ startPos = 0 /\ endPos = 0
  /\ forcePos = 0
  /\ block = <<>> /\ swallowed = 0

\* Mutant: a token that does not match is not tried as the first one.
AdvanceNoRestart(tag, pos, tok) == IF tok = tag[pos + 1] THEN (pos + 1) % Len(tag) ELSE 0

\* token_matcher::advance: the next position in a tag, 0 after its last token.
Advance(tag, pos, tok) ==
  IF tok = tag[pos + 1] THEN (pos + 1) % Len(tag)
  ELSE IF tok = tag[1] THEN 1 ELSE 0

Matched(tag, pos, tok) == pos = Len(tag) - 1 /\ tok = Last(tag)

-----------------------------------------------------------------------------
(* common_reasoning_budget_accept, one operator for each state.            *)

\* A block begins; without a budget it is ended at once.
Arm ==
  /\ remaining' = budget
  /\ rbState' = IF budget <= 0 THEN "FORCING" ELSE "COUNTING"
  /\ forcePos' = IF budget <= 0 THEN 0 ELSE forcePos
  /\ endPos' = IF rbState = "DONE" THEN 0 ELSE endPos
  /\ block' = <<>>

Outside(tok) ==
  /\ rbState \in {"IDLE", "DONE"}
  /\ startPos' = Advance(StartTag, startPos, tok)
  /\ IF Matched(StartTag, startPos, tok) THEN Arm
     ELSE UNCHANGED <<remaining, rbState, forcePos, endPos, block>>

NaturalEnd(tok) ==
  /\ rbState \in {"COUNTING", "WAITING_UTF8"}
  /\ Matched(EndTag, endPos, tok)
  /\ rbState' = "DONE"
  /\ endPos' = 0
  /\ block' = Append(block, tok)
  /\ UNCHANGED <<startPos, remaining, forcePos>>

BeginForcing == rbState' = "FORCING" /\ forcePos' = 0 /\ endPos' = 0

LastOfBudget == remaining' <= 0

Count(tok) ==
  /\ rbState = "COUNTING"
  /\ ~Matched(EndTag, endPos, tok)
  /\ remaining' = remaining - 1
  /\ \/ /\ LastOfBudget /\ tok \notin Incomplete
        /\ BeginForcing
     \/ /\ LastOfBudget /\ tok \in Incomplete
        /\ rbState' = "WAITING_UTF8"
        /\ endPos' = 0
        /\ UNCHANGED forcePos
     \/ /\ ~LastOfBudget
        /\ endPos' = Advance(EndTag, endPos, tok)
        /\ UNCHANGED <<rbState, forcePos>>
  /\ block' = Append(block, tok)
  /\ UNCHANGED startPos

WaitUtf8(tok) ==
  /\ rbState = "WAITING_UTF8"
  /\ ~Matched(EndTag, endPos, tok)
  /\ IF tok \notin Incomplete THEN BeginForcing
     ELSE endPos' = Advance(EndTag, endPos, tok) /\ UNCHANGED <<rbState, forcePos>>
  /\ block' = Append(block, tok)
  /\ UNCHANGED <<startPos, remaining>>

\* The token is taken to be the forced one, whatever it is.
ForceNext(tok) ==
  /\ rbState = "FORCING"
  /\ forcePos' = forcePos + 1
  /\ rbState' = IF forcePos' >= Len(Forced) THEN "DONE" ELSE "FORCING"
  /\ block' = Append(block, tok)
  /\ UNCHANGED <<startPos, endPos, remaining>>

Accept(tok) ==
  \/ Outside(tok) \/ NaturalEnd(tok) \/ Count(tok) \/ WaitUtf8(tok) \/ ForceNext(tok)

-----------------------------------------------------------------------------
AcceptPrefill ==
  /\ prefill # <<>>
  /\ prefill' = Tail(prefill)
  /\ Accept(Head(prefill))
  /\ swallowed' = IF rbState = "FORCING" THEN swallowed + 1 ELSE 0
  /\ UNCHANGED budget

\* What can be sampled (common_reasoning_budget_apply).
Allowed ==
  IF rbState = "FORCING" /\ forcePos < Len(Forced) THEN {Forced[forcePos + 1]} ELSE Tokens

Generate ==
  /\ prefill = <<>>
  /\ Len(block) < MaxBlock \/ rbState \in {"IDLE", "DONE"}
  /\ \E tok \in Allowed : Accept(tok)
  /\ swallowed' = IF rbState = "FORCING" THEN swallowed ELSE 0
  /\ UNCHANGED <<budget, prefill>>

BudgetNext == AcceptPrefill \/ Generate

BudgetSpec == BudgetInit /\ [][BudgetNext]_budgetVars

-----------------------------------------------------------------------------
(* Properties.                                                             *)

\* The types; and nothing is left of the budget exactly when it is not counted.
BudgetTypeOK ==
  /\ rbState \in {"IDLE", "COUNTING", "WAITING_UTF8", "FORCING", "DONE"}
  /\ startPos \in 0..Len(StartTag) - 1 /\ endPos \in 0..Len(EndTag) - 1
  /\ forcePos \in 0..Len(Forced)
  /\ rbState = "COUNTING" => remaining \in 1..budget
  /\ rbState \in {"WAITING_UTF8", "FORCING"} => remaining = 0

\* A block is never longer than its budget, but for a character that has to be
\* completed; then it is cut, and not before.
BudgetExact ==
  /\ rbState = "COUNTING" => Len(block) + remaining = budget
  /\ rbState = "WAITING_UTF8" => \A k \in budget..Len(block) : block[k] \in Incomplete
  /\ rbState = "FORCING" =>
       LET n == Len(block) - forcePos
       IN  n >= budget /\ \A k \in budget..n - 1 : k > 0 => block[k] \in Incomplete

\* "forces forced_tokens token-by-token" (reasoning-budget.h:23): when forcing is
\* over, the block ends with the message and the end tag, in every block.  But
\* the tokens of the generation prompt behind the start tag are counted as forced
\* ones: as many are missing.
ForcedWhole ==
  [][(rbState = "FORCING" /\ rbState' = "DONE")
       => IsSuffix(SubSeq(Forced, swallowed' + 1, Len(Forced)), block')]_budgetVars

\* A block ends by itself just when the model has written the end tag, although
\* the matcher remembers one position only.
NaturalEndExact ==
  [][(rbState \in {"COUNTING", "WAITING_UTF8"} /\ block' # block)
       => (rbState' = "DONE" <=> IsSuffix(EndTag, block'))]_budgetVars

\* A block ends by itself or is cut at its budget, and then gets all of the
\* message, in every block of an answer.
BudgetKept == []BudgetExact /\ ForcedWhole /\ NaturalEndExact
=============================================================================
