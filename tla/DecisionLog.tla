---------------------------- MODULE DecisionLog ----------------------------
(***************************************************************************)
(* TradingMemoryLog (agents/utils/memory.py) as operators on the text of   *)
(* the log: a sequence of entries, each with its ticker, its date, and the *)
(* days its outcome was held for, or Pending.  A separator of its own ends *)
(* every entry, so that no text of a decision is taken for a tag.          *)
(***************************************************************************)
EXTENDS Integers, Sequences, FiniteSets, Filters

CONSTANTS
  Tickers,         \* in upper case
  MaxEntries,      \* memory_log_max_entries; 0 for no rotation
  NSame, NCross    \* how many lessons of the same and of other tickers are told

ASSUME LogAssumption == MaxEntries \in Nat /\ NSame \in Nat /\ NCross \in Nat

Pending == 0
Entry(t, d, h) == [ticker |-> t, date |-> d, held |-> h]
IsPending(e) == e.held = Pending

\* The entries of some tickers that have an outcome, and those of a log.
Outcomes(tickers) == [ticker : tickers, date : Int, held : Nat \ {Pending}]
Resolved(log) == KeepOnly(log, Outcomes(Tickers))

\* store_decision: a decision that is pending already is not stored again.
StoreDecision(log, t, d) ==
  IF \E i \in DOMAIN log : log[i] = Entry(t, d, Pending) THEN log
  ELSE Append(log, Entry(t, d, Pending))

\* load_entries and get_pending_entries, for one ticker.
PendingEntries(log, t) == {e \in {log[i] : i \in DOMAIN log} : IsPending(e) /\ e.ticker = t}

\* Mutant: from the first entry on.
GetPastContextFromTheFirst(log, t) ==
  LET es == Resolved(log)
      on[i \in 0 .. Len(es)] ==
        IF i = 0 THEN [same |-> <<>>, cross |-> <<>>]
        ELSE LET c == on[i - 1]
                 e == es[i]
             IN  IF e.ticker = t
                 THEN IF Len(c.same) < NSame THEN [c EXCEPT !.same = Append(@, e)] ELSE c
                 ELSE IF Len(c.cross) < NCross THEN [c EXCEPT !.cross = Append(@, e)] ELSE c
  IN  on[Len(es)]

\* get_past_context: from the latest entry back, until both lists are full.
GetPastContext(log, t) ==
  LET es == Resolved(log)
      back[i \in 0 .. Len(es)] ==
        IF i = 0 THEN [same |-> <<>>, cross |-> <<>>]
        ELSE LET c == back[i - 1]
                 e == es[Len(es) + 1 - i]
             IN  IF e.ticker = t
                 THEN IF Len(c.same) < NSame THEN [c EXCEPT !.same = Append(@, e)] ELSE c
                 ELSE IF Len(c.cross) < NCross THEN [c EXCEPT !.cross = Append(@, e)] ELSE c
  IN  back[Len(es)]

\* Mutant: pending entries count as entries over the cap.
ApplyRotationToAll(log) ==
  IF MaxEntries = 0 \/ Len(log) <= MaxEntries THEN log
  ELSE SubSeq(log, Len(log) - MaxEntries + 1, Len(log))

\* The loop of _apply_rotation: the first n resolved entries are dropped.
DropOldest(log, n) ==
  LET kept[i \in 0 .. Len(log)] ==
        IF i = 0 THEN [entries |-> <<>>, toDrop |-> n]
        ELSE LET k == kept[i - 1]
             IN  IF log[i] \in Outcomes(Tickers) /\ k.toDrop > 0 THEN [k EXCEPT !.toDrop = @ - 1]
                 ELSE [k EXCEPT !.entries = Append(@, log[i])]
  IN  kept[Len(log)].entries

\* _apply_rotation: the oldest resolved entries over the cap go.
ApplyRotation(log) ==
  LET over == Len(Resolved(log)) - MaxEntries
  IN  IF MaxEntries = 0 \/ over <= 0 THEN log ELSE DropOldest(log, over)

\* Where the tag of an entry is replaced: the first that is pending under it.
FirstPending(log, t, d) ==
  {i \in DOMAIN log : log[i] = Entry(t, d, Pending)
                      /\ \A j \in 1 .. i - 1 : log[j] # Entry(t, d, Pending)}

\* update_with_outcome: the text that replaces the log.
UpdateWithOutcome(log, t, d, days) ==
  LET at == FirstPending(log, t, d)
      new == [i \in DOMAIN log |-> IF i \in at THEN Entry(t, d, days) ELSE log[i]]
  IN  IF at = {} THEN log ELSE ApplyRotation(new)

\* batch_update_with_outcomes: updates is a set of entries with their outcomes.
BatchUpdateWithOutcomes(log, updates) ==
  LET of(i) == {u \in updates : i \in FirstPending(log, u.ticker, u.date)}
  IN  ApplyRotation([i \in DOMAIN log |->
                       IF of(i) # {} THEN CHOOSE u \in of(i) : TRUE ELSE log[i]])
=============================================================================
