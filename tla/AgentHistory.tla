----------------------------- MODULE AgentHistory -----------------------------
(***************************************************************************)
(* The message history of one AgentSession (agent/session.py) and the      *)
(* bounded view of it that each model turn is sent.  A message is          *)
(*   [role |-> "user" | "summary"], [role |-> "assistant", ids |-> Seq] or *)
(*   [role |-> "tool", id |-> call id], each with its length.              *)
(* The text of messages is reduced to its length.                          *)
(***************************************************************************)
EXTENDS Naturals, Sequences, FiniteSets

CONSTANTS
    MaxHistory,     \* limits.max_model_history_chars
    KeepGroups,     \* limits.keep_recent_tool_groups
    SummaryLength   \* length of the summary of one exchange

ASSUME HistoryAssumption ==
    MaxHistory \in Nat /\ KeepGroups \in Nat \ {0} /\ SummaryLength \in Nat \ {0}

UserMessage        == [role |-> "user", ids |-> <<>>, length |-> 1]
AssistantMessage(ids) == [role |-> "assistant", ids |-> ids, length |-> 1]
ToolMessage(id, ok)   == [role |-> "tool", ids |-> <<id>>, length |-> IF ok THEN 3 ELSE 1]
SummaryMessage     == [role |-> "user", ids |-> <<>>, length |-> SummaryLength]

Ids(s) == {s[i] : i \in DOMAIN s}

\* Length of the messages of h at the indices I.
LengthAt(h, I) ==
    LET Sum[T \in SUBSET I] ==
          IF T = {} THEN 0
          ELSE LET i == CHOOSE j \in T : TRUE IN h[i].length + Sum[T \ {i}]
    IN Sum[I]

HistoryLength(h) == LengthAt(h, DOMAIN h)

\* The indices of the exchange that the assistant message at i opens.
Exchange(h, i) == i..(i + Len(h[i].ids))

\* _completed_tool_history_groups: an assistant message whose calls have
\* distinct ids, followed by one result for each of them.
CompleteGroups(h) ==
    {i \in DOMAIN h :
        /\ h[i].role = "assistant" /\ h[i].ids # <<>>
        /\ Cardinality(Ids(h[i].ids)) = Len(h[i].ids)
        /\ i + Len(h[i].ids) <= Len(h)
        /\ \A j \in Exchange(h, i) \ {i} : h[j].role = "tool"
        /\ {h[j].ids[1] : j \in Exchange(h, i) \ {i}} = Ids(h[i].ids)}

\* groups[:-keep_recent_tool_groups]: all but the most recent.
EligibleGroups(h) ==
    {i \in CompleteGroups(h) : Cardinality({j \in CompleteGroups(h) : j > i}) >= KeepGroups}

\* _model_history_view: the oldest eligible exchanges whose summary is shorter,
\* in order, until the view fits.
Compacted(h) ==
    LET Saved(i)  == LengthAt(h, Exchange(h, i)) - SummaryLength
        shrinking == {i \in EligibleGroups(h) : LengthAt(h, Exchange(h, i)) > SummaryLength}
        SavedBefore(i) ==
            LET Sum[T \in SUBSET shrinking] ==
                  IF T = {} THEN 0 ELSE LET j == CHOOSE k \in T : TRUE IN Saved(j) + Sum[T \ {j}]
            IN Sum[{j \in shrinking : j < i}]
    IN {i \in shrinking : HistoryLength(h) > MaxHistory + SavedBefore(i)}

\* Mutant: only the assistant's message of it is replaced.
CallOnlyEnd(h, i) == i + 1

\* The index after the exchange that starts at i.
GroupEnd(h, i) == i + Len(h[i].ids) + 1

\* _replace_tool_history_groups: each selected exchange becomes one user message.
Replaced(h, selected) ==
    LET From[i \in 1..(Len(h) + 1)] ==
          IF i > Len(h) THEN <<>>
          ELSE IF i \in selected THEN <<SummaryMessage>> \o From[GroupEnd(h, i)]
          ELSE <<h[i]>> \o From[i + 1]
    IN From[1]

HistoryView(h) == Replaced(h, Compacted(h))

\* What a provider accepts: every call of an assistant message is answered by
\* the tool messages that follow it, in order, and no result stands alone.
Paired(v) ==
    /\ \A i \in DOMAIN v : v[i].role = "assistant" =>
          \A k \in DOMAIN v[i].ids :
              /\ i + k \in DOMAIN v
              /\ v[i + k].role = "tool" /\ v[i + k].ids = <<v[i].ids[k]>>
    /\ \A j \in DOMAIN v : v[j].role = "tool" =>
          \E i \in DOMAIN v : /\ v[i].role = "assistant"
                              /\ i < j /\ j <= i + Len(v[i].ids)
===============================================================================
