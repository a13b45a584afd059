----------------------------- MODULE Propagate -----------------------------
(***************************************************************************)
(* TradingAgentsGraph.propagate (graph/trading_graph.py) with its files:   *)
(* the decision log, the logs of final states and the checkpoints          *)
(* (graph/checkpointer.py).  Processes run it for a ticker, a date and a   *)
(* shape of the graph; between two accesses to a file other processes go   *)
(* on, and a process may die (an exception or a kill).  The graph is a     *)
(* number of nodes; DebateGraph says what they do.                         *)
(***************************************************************************)
EXTENDS DecisionLog, FiniteSetsExt

CONSTANTS
  Procs,           \* processes
  Dates,           \* trade dates, numbers of days
  Shapes,          \* analysts, rounds and asset type: _run_signature
  GraphNodes,      \* how many nodes a run of the graph takes
  HoldingDays,     \* of _fetch_returns
  CheckpointEnabled,
  MaxRuns,         \* bound: runs started by all processes
  Logs,            \* what earlier runs may have left of the log
  ContextDates,    \* the dates the bridge trader stores a context for
  FirstDay, LastDay   \* bounds on the real date

ASSUME PropagateAssumption ==
  /\ Dates \subseteq Nat /\ ContextDates \subseteq Dates /\ GraphNodes \in Nat \ {0} /\ HoldingDays \in Nat \ {0}
  /\ MaxRuns \in Nat /\ FirstDay \in Nat /\ LastDay \in Nat /\ FirstDay <= LastDay
  /\ CheckpointEnabled \in BOOLEAN

\* What store_decision and the batches of earlier runs leave: outcomes of prices
\* there were, and no decision pending twice.
ASSUME LogsAssumption ==
  \A l \in Logs : /\ l \in Seq([ticker : Tickers, date : Dates, held : 0 .. HoldingDays])
                  /\ \A i \in DOMAIN l : l[i].date + l[i].held <= FirstDay
                  /\ \A i, j \in DOMAIN l : IsPending(l[i]) /\ l[i] = l[j] => i = j

VARIABLES
  today,           \* the real date
  runs,            \* how many runs have been started
  log,             \* the decision log
  tmp,             \* the temporary file beside it: a sequence of texts, or <<>>
  files,           \* full_states_log files: ticker and date
  threads,         \* checkpoints: the last step of each thread
  proc             \* what each process is at

vars == <<today, runs, log, tmp, files, threads, proc>>

-----------------------------------------------------------------------------
Idle == [pc |-> "idle"]
At(p, pc) == proc[p].pc = pc
To(p, pc) == proc' = [proc EXCEPT ![p].pc = pc]

\* thread_id, with _run_signature in it.
ThreadId(ticker, date, shape) == <<ticker, date, shape>>
Thread(p) == ThreadId(proc[p].ticker, proc[p].date, proc[p].shape)

\* Where an entry has "bridge_context_<date>" for its date.
ContextOf(date) == -1 - date

\* _fetch_returns: how many days the outcome is known for, None is Pending;
\* strptime does not read the date of a context.
FetchReturns(date) ==
  LET days == IF today - date < HoldingDays THEN today - date ELSE HoldingDays
  IN  {Pending} \cup (IF date >= 0 /\ days > 0 THEN {days} ELSE {})

Init ==
  /\ today = FirstDay /\ runs = 0 /\ log \in Logs /\ tmp = <<>>
  /\ files = {<<log[i].ticker, log[i].date>> : i \in DOMAIN log}
  /\ threads = << >> /\ proc = [p \in Procs |-> Idle]

\* The bridge trader, before it calls propagate: its compact state, its regime
\* and what it remembers become an entry of the log.
InjectLongHorizonContext(p, t, d) ==
  /\ At(p, "idle") /\ d <= today /\ runs < MaxRuns
  /\ log' = StoreDecision(log, t, ContextOf(d))
  /\ UNCHANGED <<today, runs, tmp, files, threads, proc>>

\* _resolve_pending_entries, up to the batch: the pending entries of the ticker
\* are read, their returns fetched and reflected on.
Fetched(t) ==
  {us \in SUBSET {Entry(e.ticker, e.date, h) : e \in PendingEntries(log, t), h \in 1 .. HoldingDays} :
     /\ \A u \in us : u.held \in FetchReturns(u.date)
     /\ \A u, v \in us : u.date = v.date => u = v}

\* propagate, with the updates it has for the log.
Propagate(p, t, d, shape) ==
  \E updates \in Fetched(t) :
    /\ At(p, "idle") /\ runs < MaxRuns /\ d <= today
    /\ runs' = runs + 1
    /\ proc' = [proc EXCEPT ![p] = [pc |-> IF updates = {} THEN "prepare" ELSE "resolve",
                                    ticker |-> t, date |-> d, shape |-> shape,
                                    updates |-> updates, context |-> <<>>, node |-> 0,
                                    done |-> 0]]
    /\ UNCHANGED <<today, log, tmp, files, threads>>

\* batch_update_with_outcomes reads the log again and writes the new text beside it.
WriteBatch(p) ==
  /\ At(p, "resolve")
  /\ tmp' = <<BatchUpdateWithOutcomes(log, proc[p].updates)>>
  /\ To(p, "replace")
  /\ UNCHANGED <<today, runs, log, files, threads>>

\* Its os.replace, which raises when another process has taken the file away.
ReplaceLog(p) ==
  /\ At(p, "replace")
  /\ IF tmp = <<>> THEN proc' = [proc EXCEPT ![p] = Idle] /\ UNCHANGED log
     ELSE log' = tmp[1] /\ To(p, "prepare")
  /\ tmp' = <<>>
  /\ UNCHANGED <<today, runs, files, threads>>

\* The first half of _run_graph: the lessons, and the initial state handed to
\* the graph.  LangGraph takes an input that is not None as a new run on the
\* thread: its nodes run from the first on.
StartGraph(p) ==
  /\ At(p, "prepare")
  /\ proc' = [proc EXCEPT ![p].pc = "graph", ![p].node = 0,
                          ![p].done = IF Thread(p) \in DOMAIN threads THEN threads[Thread(p)] ELSE 0,
                          ![p].context = <<GetPastContext(log, proc[p].ticker)>>]
  /\ UNCHANGED <<today, runs, log, tmp, files, threads>>

\* A node runs and its checkpoint is saved.
RunNode(p) ==
  /\ At(p, "graph") /\ proc[p].node < GraphNodes
  /\ proc' = [proc EXCEPT ![p].node = @ + 1]
  /\ threads' = IF CheckpointEnabled
                THEN [th \in DOMAIN threads \cup {Thread(p)} |->
                        IF th = Thread(p) THEN proc[p].node + 1 ELSE threads[th]]
                ELSE threads
  /\ UNCHANGED <<today, runs, log, tmp, files>>

\* _log_state.
LogState(p) ==
  /\ At(p, "graph") /\ proc[p].node = GraphNodes
  /\ files' = files \cup {<<proc[p].ticker, proc[p].date>>}
  /\ To(p, "store")
  /\ UNCHANGED <<today, runs, log, tmp, threads>>

\* The log is scanned for the decision, and the decision appended if need be.
LookForDecision(p) ==
  /\ At(p, "store")
  /\ To(p, IF StoreDecision(log, proc[p].ticker, proc[p].date) = log THEN "clear" ELSE "append")
  /\ UNCHANGED <<today, runs, log, tmp, files, threads>>

AppendDecision(p) ==
  /\ At(p, "append")
  /\ log' = Append(log, Entry(proc[p].ticker, proc[p].date, Pending))
  /\ To(p, "clear")
  /\ UNCHANGED <<today, runs, tmp, files, threads>>

\* Mutant: the rows of the thread without a signature are deleted.
ClearLegacyCheckpoint(p) ==
  /\ At(p, "clear")
  /\ threads' = [th \in DOMAIN threads \ {<<proc[p].ticker, proc[p].date>>} |-> threads[th]]
  /\ To(p, "done")
  /\ UNCHANGED <<today, runs, log, tmp, files>>

\* clear_checkpoint.
ClearCheckpoint(p) ==
  /\ At(p, "clear")
  /\ threads' = [th \in DOMAIN threads \ {Thread(p)} |-> threads[th]]
  /\ To(p, "done")
  /\ UNCHANGED <<today, runs, log, tmp, files>>

\* propagate returns to its caller, or the process dies.
Return(p) ==
  /\ At(p, "done")
  /\ proc' = [proc EXCEPT ![p] = Idle]
  /\ UNCHANGED <<today, runs, log, tmp, files, threads>>
Crash(p) ==
  /\ ~At(p, "idle") /\ ~At(p, "done")
  /\ proc' = [proc EXCEPT ![p] = Idle]
  /\ UNCHANGED <<today, runs, log, tmp, files, threads>>

NewDay ==
  /\ today < LastDay
  /\ today' = today + 1
  /\ UNCHANGED <<runs, log, tmp, files, threads, proc>>

Next ==
  \/ NewDay
  \/ \E p \in Procs :
       \/ \E t \in Tickers, d \in ContextDates : InjectLongHorizonContext(p, t, d)
       \/ \E t \in Tickers, d \in Dates, shape \in Shapes : Propagate(p, t, d, shape)
       \/ WriteBatch(p) \/ ReplaceLog(p) \/ StartGraph(p) \/ RunNode(p) \/ LogState(p)
       \/ LookForDecision(p) \/ AppendDecision(p) \/ ClearCheckpoint(p) \/ Return(p) \/ Crash(p)

Spec == Init /\ [][Next]_vars

-----------------------------------------------------------------------------
Running(p) == ~At(p, "idle")
Count(s, e) == Cardinality({i \in DOMAIN s : s[i] = e})
Backwards(s) == [i \in DOMAIN s |-> s[Len(s) + 1 - i]]
Last(s, n) == IF Len(s) <= n THEN s ELSE SubSeq(s, Len(s) - n + 1, Len(s))

\* Every variable keeps its type; an outcome is of prices there are already.
TypeOK ==
  /\ today \in FirstDay .. LastDay /\ runs \in 0 .. MaxRuns
  /\ \A i \in DOMAIN log : /\ log[i] \in [ticker : Tickers, held : 0 .. HoldingDays,
                                         date : Dates \cup {ContextOf(d) : d \in ContextDates}]
                           /\ log[i].date + log[i].held <= today
  /\ Len(tmp) \in 0 .. 1
  /\ files \subseteq Tickers \X Dates
  /\ DOMAIN threads \subseteq Tickers \X Dates \X Shapes
  /\ \A th \in DOMAIN threads : threads[th] \in 1 .. GraphNodes
  /\ \A p \in Procs : Running(p) => proc[p].node \in 0 .. GraphNodes

\* "Pending blocks are always kept (they represent unprocessed work)", "a crash
\* mid-write never corrupts the log": whenever processes die, an entry only
\* stops to be pending, or leaves the log, with an outcome; and the outcomes of
\* a batch make the log what they make of it one at a time, within the cap.
PendingUntilResolved ==
  [][/\ \A i \in DOMAIN log :
          IsPending(log[i]) /\ Count(log', log[i]) = 0 =>
            \E p \in Procs : At(p, "replace") /\ \E u \in proc[p].updates :
                               u.ticker = log[i].ticker /\ u.date = log[i].date
     /\ \A p \in Procs : At(p, "replace") /\ proc'[p].pc = "prepare" =>
          /\ log' = FoldSet(LAMBDA u, l : UpdateWithOutcome(l, u.ticker, u.date, u.held),
                            log, proc[p].updates)
          /\ MaxEntries > 0 => Len(Resolved(log')) <= MaxEntries]_vars

\* What a run leaves: at its end its final state is on disk, its decision in
\* the log, which never has one that is pending twice, and its thread is
\* cleared; and no decision is in the log without the state it came from.
EveryRunIsRecorded ==
  /\ \A p \in Procs : At(p, "done") =>
       /\ \E i \in DOMAIN log : log[i] = Entry(proc[p].ticker, proc[p].date, Pending)
       /\ Thread(p) \notin DOMAIN threads
  /\ \A i \in DOMAIN log : /\ log[i].date >= 0 => <<log[i].ticker, log[i].date>> \in files
                           /\ IsPending(log[i]) => Count(log, log[i]) = 1

\* The lessons a run is told are the latest of its ticker, and of the others,
\* with an outcome; and none is still pending that the run could have resolved.
LessonsAreTheLatest ==
  \A p \in Procs : At(p, "graph") =>
    LET own == {proc[p].ticker}
        told == proc[p].context[1]
    IN  /\ told.same = Backwards(Last(KeepOnly(log, Outcomes(own)), NSame))
        /\ told.cross = Backwards(Last(KeepOnly(log, Outcomes(Tickers \ own)), NCross))

\* "then inject it into every micro trading decision": the context the bridge
\* stored for a decision is among what its run is told.
ContextReachesTheDecision ==
  \A p \in Procs :
    LET context == Entry(proc[p].ticker, ContextOf(proc[p].date), Pending)
        told == proc[p].context[1]
    IN  At(p, "graph") /\ Count(log, context) > 0 =>
          \E i \in DOMAIN told.same : told.same[i].date = context.date

\* "a crashed run can resume from the last successful node on a subsequent
\* invocation with the same ticker+date": a node that a thread has a checkpoint
\* of is not run again.
CompletedNodesAreNotRepeated ==
  [][\A p \in Procs : At(p, "graph") /\ proc'[p].pc = "graph" /\ proc'[p].node > proc[p].node =>
       proc[p].node >= proc[p].done]_vars
=============================================================================
