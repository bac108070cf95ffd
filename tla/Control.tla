------------------------------ MODULE Control -------------------------------
(***************************************************************************)
(* Who may trade: start, stop, universe refresh and manual cycles of       *)
(* MultiSymbolTradingManager and its TradingOrchestrators                  *)
(* (app/agents/multi_orchestrator.py, app/agents/orchestrator.py), with    *)
(* the RuntimeFileLock (app/runtime_lock.py) that keeps two processes on   *)
(* one database apart, in UNIVERSE_MODE=top_volume.                        *)
(*                                                                         *)
(* The manager serialises its own operations by one lock and each bot      *)
(* serialises start, stop and manual cycles by another; neither covers     *)
(* what a manual cycle does while the manager awaits the exchange.         *)
(***************************************************************************)
EXTENDS FiniteSets, Naturals

CONSTANTS Processes, Symbols,
          NoProcess, NoSymbol,
          Configured,     \* SYMBOLS and the pins: the universe of a new process
          RunOnceSymbols  \* those run-once is asked for; analyze, for any

ASSUME ControlAssumption ==
    /\ NoProcess \notin Processes /\ NoSymbol \notin Symbols
    /\ Configured \subseteq Symbols /\ Configured # {}
    /\ RunOnceSymbols \subseteq Symbols

VARIABLES
    bots,      \* manager.bots, which are also portfolio.symbols
    running,   \* bots whose running flag is set
    loops,     \* bots whose loop task is alive
    manual,    \* bots whose _manual_cycle_active is set
    orphan,    \* dropped bots that were in a manual cycle, and still are
    entering,  \* the cycle inside execute_entry, and its symbol
    mgr,       \* what the holder of the manager's _control_lock does
    locked,    \* the owner of the runtime lock
    tracked    \* symbols with an OPEN trade or an unresolved order

engine == <<running, loops>>
cycles == <<manual, orphan, entering>>
vars == <<bots, running, loops, manual, orphan, entering, mgr, locked, tracked>>

Stages == {"idle", "discover", "close", "start", "rollback", "stop"}

\* starts: the refresh is the first half of start.  todo: the bots start has
\* yet to reach; cur: the one whose _ensure_exchange_config it awaits.
Idle == [stage |-> "idle", starts |-> FALSE, selected |-> {},
         todo |-> {}, cur |-> NoSymbol]

Discover(starts) == [Idle EXCEPT !.stage = "discover", !.starts = starts]

NoEntry == [by |-> "none", symbol |-> NoSymbol]

Init ==
    /\ bots = [p \in Processes |-> Configured]
    /\ running = [p \in Processes |-> {}]
    /\ loops = [p \in Processes |-> {}]
    /\ manual = [p \in Processes |-> {}]
    /\ orphan = [p \in Processes |-> {}]
    /\ entering = [p \in Processes |-> NoEntry]
    /\ mgr = [p \in Processes |-> Idle]
    /\ locked = NoProcess
    /\ tracked = {}

Become(p, state) == mgr' = [mgr EXCEPT ![p] = state]

\* RuntimeFileLock.release: it does nothing unless this process is the owner.
Released(p) == IF locked = p THEN NoProcess ELSE locked

-----------------------------------------------------------------------------
(* The universe refresh, by itself or as the first half of start. *)

\* Mutant: the engine may be running.
RefreshAnyTime(p) ==
    /\ mgr[p].stage = "idle"
    /\ manual[p] = {}
    /\ Become(p, Discover(FALSE))
    /\ UNCHANGED <<bots, engine, cycles, locked, tracked>>

RefreshUniverse(p) ==
    /\ mgr[p].stage = "idle"
    /\ running[p] = {} /\ manual[p] = {}
    /\ Become(p, Discover(FALSE))
    /\ UNCHANGED <<bots, engine, cycles, locked, tracked>>

\* A start that finds a manual cycle raises and lets go of the lock again.
Start(p) ==
    /\ mgr[p].stage = "idle"
    /\ running[p] = {} /\ manual[p] = {}
    /\ locked \in {NoProcess, p}
    /\ locked' = p
    /\ Become(p, Discover(TRUE))
    /\ UNCHANGED <<bots, engine, cycles, tracked>>

\* The new bots take over.  A manual cycle of a bot that is dropped goes on.
Install(p, selected) ==
    /\ bots' = [bots EXCEPT ![p] = selected]
    /\ manual' = [manual EXCEPT ![p] = @ \cap selected]
    /\ orphan' = [orphan EXCEPT ![p] = @ \cup (manual[p] \ selected)]
    /\ Become(p, IF mgr[p].starts
                 THEN [Idle EXCEPT !.stage = "start", !.todo = selected]
                 ELSE Idle)
    /\ UNCHANGED <<engine, entering, locked, tracked>>

\* Mutant: what is traded already is not asked for.
UntrackedSelection(ranked) == ranked \cup Configured

\* The ranking with SYMBOLS and the pins, and what tracked_symbols returns.
Selection(ranked) == ranked \cup Configured \cup tracked

\* The discovery returns.  The clients of dropped bots are closed first, and
\* that is awaited.
SelectMarkets(p) ==
    /\ mgr[p].stage = "discover"
    /\ \E ranked \in SUBSET Symbols :
        LET selected == Selection(ranked) IN
        IF bots[p] \subseteq selected
        THEN Install(p, selected)
        ELSE /\ Become(p, [mgr[p] EXCEPT !.stage = "close",
                                         !.selected = selected])
             /\ UNCHANGED <<bots, engine, cycles, locked, tracked>>

ClientsClosed(p) ==
    /\ mgr[p].stage = "close"
    /\ Install(p, mgr[p].selected)

\* The discovery fails, or finds no market, or more than live mode admits.
RefreshFails(p) ==
    /\ mgr[p].stage \in {"discover", "close"}
    /\ Become(p, Idle)
    /\ locked' = IF mgr[p].starts THEN Released(p) ELSE locked
    /\ UNCHANGED <<bots, engine, cycles, tracked>>

-----------------------------------------------------------------------------
(* The second half of start. *)

\* Mutant: a manual cycle does not keep the bot from being started.
StartBotUnchecked(p, s) ==
    /\ mgr[p].stage = "start" /\ mgr[p].cur = NoSymbol
    /\ s \in mgr[p].todo
    /\ Become(p, [mgr[p] EXCEPT !.cur = s])
    /\ UNCHANGED <<bots, engine, cycles, locked, tracked>>

\* The bot's own lock is held until _ensure_exchange_config has ended.
StartBot(p, s) ==
    /\ mgr[p].stage = "start" /\ mgr[p].cur = NoSymbol
    /\ s \in mgr[p].todo /\ s \notin manual[p]
    /\ Become(p, [mgr[p] EXCEPT !.cur = s])
    /\ UNCHANGED <<bots, engine, cycles, locked, tracked>>

Rollback == [Idle EXCEPT !.stage = "rollback"]

StartRefused(p, s) ==
    /\ mgr[p].stage = "start" /\ mgr[p].cur = NoSymbol
    /\ s \in mgr[p].todo \cap manual[p]
    /\ Become(p, Rollback)
    /\ UNCHANGED <<bots, engine, cycles, locked, tracked>>

BotStartFails(p) ==
    /\ mgr[p].cur # NoSymbol
    /\ Become(p, Rollback)
    /\ UNCHANGED <<bots, engine, cycles, locked, tracked>>

\* Mutant: start does not remember which bots it has reached.
BotStartedAgain(p) ==
    /\ mgr[p].cur # NoSymbol
    /\ running' = [running EXCEPT ![p] = @ \cup {mgr[p].cur}]
    /\ loops' = [loops EXCEPT ![p] = @ \cup {mgr[p].cur}]
    /\ Become(p, [mgr[p] EXCEPT !.cur = NoSymbol])
    /\ UNCHANGED <<bots, cycles, locked, tracked>>

BotStarted(p) ==
    /\ mgr[p].cur # NoSymbol
    /\ LET s == mgr[p].cur
           rest == mgr[p].todo \ {s} IN
        /\ running' = [running EXCEPT ![p] = @ \cup {s}]
        /\ loops' = [loops EXCEPT ![p] = @ \cup {s}]
        /\ Become(p, IF rest = {} THEN Idle
                     ELSE [mgr[p] EXCEPT !.todo = rest, !.cur = NoSymbol])
    /\ UNCHANGED <<bots, cycles, locked, tracked>>

-----------------------------------------------------------------------------
(* Stop, and the way back from a start that failed. *)

Stop(p) ==
    /\ mgr[p].stage = "idle"
    /\ Become(p, [Idle EXCEPT !.stage = "stop"])
    /\ UNCHANGED <<bots, engine, cycles, locked, tracked>>

\* Mutant: a start that failed leaves the bots it has started alone.
StopBotOnStop(p, s) ==
    /\ mgr[p].stage = "stop"
    /\ s \in running[p]
    /\ running' = [running EXCEPT ![p] = @ \ {s}]
    /\ UNCHANGED <<bots, loops, cycles, mgr, locked, tracked>>

\* The flag is cleared and the tasks are cancelled, ...
StopBot(p, s) ==
    /\ mgr[p].stage \in {"stop", "rollback"}
    /\ s \in running[p]
    /\ running' = [running EXCEPT ![p] = @ \ {s}]
    /\ UNCHANGED <<bots, loops, cycles, mgr, locked, tracked>>

\* ... and they end, at whatever await they stood.
LoopEnds(p, s) ==
    /\ s \in loops[p] \ running[p]
    /\ loops' = [loops EXCEPT ![p] = @ \ {s}]
    /\ entering' = [entering EXCEPT
            ![p] = IF @ = [by |-> "loop", symbol |-> s] THEN NoEntry ELSE @]
    /\ UNCHANGED <<bots, running, manual, orphan, mgr, locked, tracked>>

\* Mutant: the lock is released while cancelled tasks still run.
ReleasedEarly(p) ==
    /\ mgr[p].stage \in {"stop", "rollback"}
    /\ running[p] = {}
    /\ Become(p, Idle)
    /\ locked' = Released(p)
    /\ UNCHANGED <<bots, engine, cycles, tracked>>

StopEnds(p) ==
    /\ mgr[p].stage \in {"stop", "rollback"}
    /\ running[p] = {} /\ loops[p] = {}
    /\ Become(p, Idle)
    /\ locked' = Released(p)
    /\ UNCHANGED <<bots, engine, cycles, tracked>>

-----------------------------------------------------------------------------
(* Manual cycles, and what cycles do to positions. *)

\* run_once or analyze_once finds the bot's lock free and the bot idle.
ManualCycle(p, s) ==
    /\ s \in bots[p] /\ s # mgr[p].cur
    /\ s \notin loops[p] /\ s \notin manual[p]
    /\ manual' = [manual EXCEPT ![p] = @ \cup {s}]
    /\ UNCHANGED <<bots, engine, orphan, entering, mgr, locked, tracked>>

ManualCycleEnds(p, s) ==
    /\ \/ /\ s \in manual[p] /\ entering[p] # [by |-> "manual", symbol |-> s]
          /\ manual' = [manual EXCEPT ![p] = @ \ {s}]
          /\ UNCHANGED orphan
       \/ /\ s \in orphan[p] /\ entering[p] # [by |-> "manual", symbol |-> s]
          /\ orphan' = [orphan EXCEPT ![p] = @ \ {s}]
          /\ UNCHANGED manual
    /\ UNCHANGED <<bots, engine, entering, mgr, locked, tracked>>

\* The cycles that may enter.  analyze_once is read-only, but it reconciles.
Cyclers(p, by) ==
    IF by = "loop" THEN loops[p]
    ELSE (manual[p] \cup orphan[p]) \cap RunOnceSymbols

\* execute_entry: the entry lock, and the check that the symbol is listed.
EntryApproved(p, by, s) ==
    /\ entering[p] = NoEntry
    /\ s \in Cyclers(p, by) /\ s \in bots[p] /\ s \notin tracked
    /\ entering' = [entering EXCEPT ![p] = [by |-> by, symbol |-> s]]
    /\ UNCHANGED <<bots, engine, manual, orphan, mgr, locked, tracked>>

\* record_order_intent commits: from here on the symbol is tracked.
EntryRecorded(p) ==
    /\ entering[p] # NoEntry
    /\ entering[p].symbol \notin tracked
    /\ tracked' = tracked \cup {entering[p].symbol}
    /\ entering' = [entering EXCEPT ![p] = NoEntry]
    /\ UNCHANGED <<bots, engine, manual, orphan, mgr, locked>>

EntryAbandoned(p) ==
    /\ entering[p] # NoEntry
    /\ entering' = [entering EXCEPT ![p] = NoEntry]
    /\ UNCHANGED <<bots, engine, manual, orphan, mgr, locked, tracked>>

\* A cycle of the symbol closes the position or books the last order.
PositionEnds(p, s) ==
    /\ s \in tracked /\ s \in loops[p] \cup manual[p] \cup orphan[p]
    /\ tracked' = tracked \ {s}
    /\ UNCHANGED <<bots, engine, cycles, mgr, locked>>

\* The process dies; the operating system frees its lock.
Crash(p) ==
    /\ bots' = [bots EXCEPT ![p] = Configured]
    /\ running' = [running EXCEPT ![p] = {}]
    /\ loops' = [loops EXCEPT ![p] = {}]
    /\ manual' = [manual EXCEPT ![p] = {}]
    /\ orphan' = [orphan EXCEPT ![p] = {}]
    /\ entering' = [entering EXCEPT ![p] = NoEntry]
    /\ Become(p, Idle)
    /\ locked' = Released(p)
    /\ UNCHANGED tracked

-----------------------------------------------------------------------------

\* What the holder of the manager's lock is waiting for.
ManagerStep(p) ==
    \/ SelectMarkets(p) \/ ClientsClosed(p) \/ RefreshFails(p)
    \/ BotStartFails(p) \/ BotStarted(p) \/ StopEnds(p)
    \/ \E s \in Symbols :
        StartBot(p, s) \/ StartRefused(p, s) \/ StopBot(p, s) \/ LoopEnds(p, s)

Request(p) ==
    RefreshUniverse(p) \/ Start(p) \/ Stop(p) \/ \E s \in Symbols : ManualCycle(p, s)

CycleStep(p) ==
    \/ \E s \in Symbols :
        \/ ManualCycleEnds(p, s) \/ PositionEnds(p, s)
        \/ \E by \in {"loop", "manual"} : EntryApproved(p, by, s)
    \/ EntryRecorded(p) \/ EntryAbandoned(p)

Next == \E p \in Processes :
            ManagerStep(p) \/ Request(p) \/ CycleStep(p) \/ Crash(p)

Spec == Init /\ [][Next]_vars

\* asyncio resumes the manager when a request has ended or a task has; every
\* request ends, at the latest in a timeout.
FairSpec == Spec /\ \A p \in Processes : WF_vars(ManagerStep(p))

-----------------------------------------------------------------------------
(* Properties. *)

TypeOK ==
    /\ bots \in [Processes -> SUBSET Symbols]
    /\ running \in [Processes -> SUBSET Symbols]
    /\ loops \in [Processes -> SUBSET Symbols]
    /\ manual \in [Processes -> SUBSET Symbols]
    /\ orphan \in [Processes -> SUBSET Symbols]
    /\ entering \in [Processes -> {NoEntry} \cup
                                  [by : {"loop", "manual"}, symbol : Symbols]]
    /\ mgr \in [Processes -> [stage : Stages, starts : BOOLEAN,
                              selected : SUBSET Symbols, todo : SUBSET Symbols,
                              cur : Symbols \cup {NoSymbol}]]
    /\ locked \in Processes \cup {NoProcess}
    /\ tracked \subseteq Symbols

\* No two processes on one database run trading loops at once, not even while
\* one of them is still stopping or rolling back a start that failed.
EngineAlone ==
    \A p, q \in Processes : loops[p] # {} /\ loops[q] # {} => p = q

\* Every live loop belongs to a bot the manager still has, so that the next
\* stop reaches it, and its process owns the runtime lock.
LoopsOwned ==
    \A p \in Processes : loops[p] # {} => loops[p] \subseteq bots[p] /\ locked = p

\* A bot is never in a manual cycle while its own loop is alive.  This is said
\* of one bot object: the manual cycle of a bot that a refresh has dropped
\* (orphan) goes on beside the loop of a new bot of its symbol
\* (multi_orchestrator.py:464 asks the present bots only, 569-581 make new ones).
NoManualBesideLoop == \A p \in Processes : loops[p] \cap manual[p] = {}

\* The flags tell of the loops, except while a stop is under way; start only
\* reaches bots that have no loop.
ManagerOK(p) ==
    /\ running[p] \subseteq loops[p]
    /\ mgr[p].stage \notin {"stop", "rollback"} => running[p] = loops[p]
    /\ mgr[p].stage \in {"discover", "close"} => loops[p] = {}
    /\ mgr[p].todo \subseteq bots[p] \ loops[p]
    /\ mgr[p].cur # NoSymbol =>
        /\ mgr[p].stage = "start"
        /\ mgr[p].cur \in mgr[p].todo \ manual[p]

\* The runtime lock is owned from the start on, before there is any loop.
LockOK(p) ==
    \/ mgr[p].stage \in {"start", "rollback"}
    \/ mgr[p].stage \in {"discover", "close"} /\ mgr[p].starts
    => locked = p

\* From the discovery of a start on, its selection keeps up with the positions:
\* whoever enters meanwhile is of the universe that every process starts from.
WatchOK(p) ==
    /\ entering[p].by = "loop" => entering[p].symbol \in loops[p]
    /\ entering[p].by = "manual" => entering[p].symbol \in RunOnceSymbols
    /\ mgr[p].stage = "close" =>
        /\ Configured \subseteq mgr[p].selected
        /\ mgr[p].starts => tracked \subseteq mgr[p].selected
    /\ mgr[p].stage = "idle" => mgr[p].todo = {}
    /\ mgr[p].stage = "start" \/ (mgr[p].stage = "idle" /\ loops[p] # {})
        => tracked \cup Configured \subseteq loops[p] \cup mgr[p].todo

\* The inductive invariant: what a stage of start or stop relies on, it finds,
\* whatever manual cycles, failures and other processes do in between.
IInv ==
    /\ TypeOK
    /\ LoopsOwned
    /\ NoManualBesideLoop
    /\ \A p \in Processes : ManagerOK(p) /\ LockOK(p)
    /\ RunOnceSymbols \subseteq Configured => \A p \in Processes : WatchOK(p)

\* Once a start is complete, every symbol that has a position or an
\* unresolved order is watched by a loop (README.md:137).
PositionsWatched ==
    \A p \in Processes :
        loops[p] # {} /\ mgr[p].stage = "idle" => tracked \subseteq loops[p]

\* Every request to the manager ends, and with it its lock: no order of
\* starts, stops, failures and manual cycles leaves it waiting for good.
ManagerAnswers ==
    \A p \in Processes : mgr[p].stage # "idle" ~> mgr[p].stage = "idle"

=============================================================================
