--------------------------- MODULE ControlProofs ----------------------------
(***************************************************************************)
(* Who may trade, for any number of processes and symbols: the inductive   *)
(* invariant of Control and what follows from it.                          *)
(***************************************************************************)
EXTENDS Control, TLAPS

\* What IInv says of one process, with its part of the two properties.
Good(p) ==
    /\ loops[p] # {} => loops[p] \subseteq bots[p] /\ locked = p
    /\ loops[p] \cap manual[p] = {}
    /\ ManagerOK(p)
    /\ LockOK(p)

LEMMA IInvParts ==
    IInv <=> /\ TypeOK /\ \A p \in Processes : Good(p)
             /\ RunOnceSymbols \subseteq Configured =>
                    \A p \in Processes : WatchOK(p)
  BY DEF IInv, Good, LoopsOwned, NoManualBesideLoop

\* A new process owns nothing and runs nothing.
LEMMA InitGood == Init => IInv
  <1> SUFFICES ASSUME Init
               PROVE  TypeOK /\ \A p \in Processes : Good(p) /\ WatchOK(p)
    BY IInvParts
  <1>1. TypeOK
    BY ControlAssumption DEF Init, TypeOK, Idle, NoEntry, Stages
  <1>2. ASSUME NEW p \in Processes PROVE Good(p) /\ WatchOK(p)
    BY ControlAssumption DEF Init, Good, ManagerOK, LockOK, WatchOK, Idle, NoEntry
  <1> QED BY <1>1, <1>2

\* A step of one process leaves alone what another one relies on: it may take
\* the runtime lock only when it is free, and gives back only its own.
LEMMA Others ==
    ASSUME NEW p \in Processes, NEW q \in Processes, p # q, Good(q),
           bots'[q] = bots[q], running'[q] = running[q], loops'[q] = loops[q],
           manual'[q] = manual[q], mgr'[q] = mgr[q],
           locked = q => locked' = q
    PROVE  Good(q)'
  BY DEF Good, ManagerOK, LockOK

\* What a step of p never touches.
OnlyOf(p) ==
    \A q \in Processes \ {p} :
        /\ bots'[q] = bots[q] /\ running'[q] = running[q]
        /\ loops'[q] = loops[q] /\ manual'[q] = manual[q]
        /\ mgr'[q] = mgr[q]
        /\ locked = q => locked' = q

-----------------------------------------------------------------------------
(* One lemma per action: it keeps the types and what its process relies on, *)
(* and leaves the others alone.                                             *)

\* The refresh was asked for while nothing ran, and no loop starts meanwhile.
LEMMA InstallGood ==
    ASSUME NEW p \in Processes, NEW selected \in SUBSET Symbols, TypeOK, Good(p),
           mgr[p].stage \in {"discover", "close"}, Install(p, selected)
    PROVE  TypeOK' /\ Good(p)' /\ OnlyOf(p)
  <1> USE ControlAssumption DEF Install, Become, Idle, engine
  <1> DEFINE next == IF mgr[p].starts
                     THEN [Idle EXCEPT !.stage = "start", !.todo = selected]
                     ELSE Idle
  <1>1. /\ next \in [stage : Stages, starts : BOOLEAN,
                     selected : SUBSET Symbols, todo : SUBSET Symbols,
                     cur : Symbols \cup {NoSymbol}]
        /\ next.cur = NoSymbol /\ next.todo \subseteq selected
        /\ next.stage \in {"idle", "start"}
        /\ next.stage = "start" => mgr[p].starts
    BY DEF TypeOK, Stages
  <1>2. mgr' = [mgr EXCEPT ![p] = next]
    OBVIOUS
  <1> HIDE DEF next
  <1>3. TypeOK'
    BY <1>1, <1>2 DEF TypeOK
  <1>4. Good(p)'
    BY <1>1, <1>2 DEF TypeOK, Good, ManagerOK, LockOK
  <1>5. OnlyOf(p)
    BY <1>2 DEF TypeOK, OnlyOf
  <1> QED BY <1>3, <1>4, <1>5

LEMMA SelectMarketsGood ==
    ASSUME NEW p \in Processes, TypeOK, Good(p), SelectMarkets(p)
    PROVE  TypeOK' /\ Good(p)' /\ OnlyOf(p)
  <1>1. PICK ranked \in SUBSET Symbols :
            IF bots[p] \subseteq Selection(ranked)
            THEN Install(p, Selection(ranked))
            ELSE /\ Become(p, [mgr[p] EXCEPT !.stage = "close",
                                             !.selected = Selection(ranked)])
                 /\ UNCHANGED <<bots, engine, cycles, locked, tracked>>
    BY DEF SelectMarkets
  <1>2. Selection(ranked) \in SUBSET Symbols
    BY ControlAssumption DEF Selection, TypeOK
  <1>3. mgr[p].stage = "discover"
    BY DEF SelectMarkets
  <1>4. CASE bots[p] \subseteq Selection(ranked)
    BY <1>1, <1>2, <1>3, <1>4, InstallGood
  <1>5. CASE ~(bots[p] \subseteq Selection(ranked))
    <2> DEFINE next == [mgr[p] EXCEPT !.stage = "close",
                                      !.selected = Selection(ranked)]
    <2>1. /\ mgr' = [mgr EXCEPT ![p] = next]
          /\ UNCHANGED <<bots, engine, cycles, locked, tracked>>
      BY <1>1, <1>5 DEF Become
    <2>2. /\ next \in [stage : Stages, starts : BOOLEAN,
                       selected : SUBSET Symbols, todo : SUBSET Symbols,
                       cur : Symbols \cup {NoSymbol}]
          /\ next.cur = mgr[p].cur /\ next.todo = mgr[p].todo
          /\ next.starts = mgr[p].starts /\ next.stage = "close"
      BY <1>2 DEF TypeOK, Stages
    <2> HIDE DEF next
    <2>3. TypeOK'
      BY <2>1, <2>2 DEF TypeOK, engine, cycles
    <2>4. Good(p)'
      BY <1>3, <2>1, <2>2 DEF TypeOK, Good, ManagerOK, LockOK, engine, cycles
    <2>5. OnlyOf(p)
      BY <2>1 DEF TypeOK, OnlyOf, engine, cycles
    <2> QED BY <2>3, <2>4, <2>5
  <1> QED BY <1>4, <1>5

LEMMA ClientsClosedGood ==
    ASSUME NEW p \in Processes, TypeOK, Good(p), ClientsClosed(p)
    PROVE  TypeOK' /\ Good(p)' /\ OnlyOf(p)
  <1>1. mgr[p].selected \in SUBSET Symbols
    BY DEF TypeOK
  <1> QED BY <1>1, InstallGood DEF ClientsClosed

LEMMA RefreshUniverseGood ==
    ASSUME NEW p \in Processes, TypeOK, Good(p), RefreshUniverse(p)
    PROVE  TypeOK' /\ Good(p)' /\ OnlyOf(p)
  <1> USE ControlAssumption DEF RefreshUniverse, Become, Idle, Discover, engine, cycles
  <1>1. TypeOK'
    BY DEF TypeOK, Stages
  <1>2. Good(p)'
    BY DEF TypeOK, Good, ManagerOK, LockOK
  <1>3. OnlyOf(p)
    BY DEF TypeOK, OnlyOf
  <1> QED BY <1>1, <1>2, <1>3

LEMMA StartGood ==
    ASSUME NEW p \in Processes, TypeOK, Good(p), Start(p)
    PROVE  TypeOK' /\ Good(p)' /\ OnlyOf(p)
  <1> USE ControlAssumption DEF Start, Become, Idle, Discover, engine, cycles
  <1>1. TypeOK'
    BY DEF TypeOK, Stages
  <1>2. Good(p)'
    BY DEF TypeOK, Good, ManagerOK, LockOK
  <1>3. OnlyOf(p)
    BY DEF TypeOK, OnlyOf
  <1> QED BY <1>1, <1>2, <1>3

LEMMA RefreshFailsGood ==
    ASSUME NEW p \in Processes, TypeOK, Good(p), RefreshFails(p)
    PROVE  TypeOK' /\ Good(p)' /\ OnlyOf(p)
  <1> USE ControlAssumption DEF RefreshFails, Become, Idle, Released, engine, cycles
  <1>1. TypeOK'
    BY DEF TypeOK, Stages
  <1>2. Good(p)'
    BY DEF TypeOK, Good, ManagerOK, LockOK
  <1>3. OnlyOf(p)
    BY DEF TypeOK, OnlyOf
  <1> QED BY <1>1, <1>2, <1>3

LEMMA StartBotGood ==
    ASSUME NEW p \in Processes, NEW s \in Symbols, TypeOK, Good(p), StartBot(p, s)
    PROVE  TypeOK' /\ Good(p)' /\ OnlyOf(p)
  <1> USE ControlAssumption DEF StartBot, Become, engine, cycles
  <1>1. TypeOK'
    BY DEF TypeOK, Stages
  <1>2. Good(p)'
    BY DEF TypeOK, Good, ManagerOK, LockOK
  <1>3. OnlyOf(p)
    BY DEF TypeOK, OnlyOf
  <1> QED BY <1>1, <1>2, <1>3

LEMMA StartRefusedGood ==
    ASSUME NEW p \in Processes, NEW s \in Symbols, TypeOK, Good(p), StartRefused(p, s)
    PROVE  TypeOK' /\ Good(p)' /\ OnlyOf(p)
  <1> USE ControlAssumption DEF StartRefused, Become, Idle, Rollback, engine, cycles
  <1>1. TypeOK'
    BY DEF TypeOK, Stages
  <1>2. Good(p)'
    BY DEF TypeOK, Good, ManagerOK, LockOK
  <1>3. OnlyOf(p)
    BY DEF TypeOK, OnlyOf
  <1> QED BY <1>1, <1>2, <1>3

LEMMA BotStartFailsGood ==
    ASSUME NEW p \in Processes, TypeOK, Good(p), BotStartFails(p)
    PROVE  TypeOK' /\ Good(p)' /\ OnlyOf(p)
  <1> USE ControlAssumption DEF BotStartFails, Become, Idle, Rollback, engine, cycles
  <1>1. TypeOK'
    BY DEF TypeOK, Stages
  <1>2. Good(p)'
    BY DEF TypeOK, Good, ManagerOK, LockOK
  <1>3. OnlyOf(p)
    BY DEF TypeOK, OnlyOf
  <1> QED BY <1>1, <1>2, <1>3

LEMMA BotStartedGood ==
    ASSUME NEW p \in Processes, TypeOK, Good(p), BotStarted(p)
    PROVE  TypeOK' /\ Good(p)' /\ OnlyOf(p)
  <1> DEFINE s == mgr[p].cur
             rest == mgr[p].todo \ {s}
             next == IF rest = {} THEN Idle
                     ELSE [mgr[p] EXCEPT !.todo = rest, !.cur = NoSymbol]
  <1>1. /\ s \in Symbols /\ s \in bots[p] /\ s \notin manual[p]
        /\ locked = p /\ running[p] = loops[p] /\ mgr[p].stage = "start"
    BY DEF BotStarted, TypeOK, Good, ManagerOK, LockOK
  <1>2. /\ running' = [running EXCEPT ![p] = @ \cup {s}]
        /\ loops' = [loops EXCEPT ![p] = @ \cup {s}]
        /\ mgr' = [mgr EXCEPT ![p] = next]
        /\ UNCHANGED <<bots, cycles, locked, tracked>>
    BY DEF BotStarted, Become
  <1>3. /\ next \in [stage : Stages, starts : BOOLEAN,
                     selected : SUBSET Symbols, todo : SUBSET Symbols,
                     cur : Symbols \cup {NoSymbol}]
        /\ next.cur = NoSymbol /\ next.todo \subseteq mgr[p].todo \ {s}
        /\ next.stage \in {"idle", "start"}
    BY <1>1 DEF TypeOK, Stages, Idle
  <1> HIDE DEF next
  <1>4. TypeOK'
    BY <1>1, <1>2, <1>3 DEF TypeOK, cycles
  <1>5. Good(p)'
    BY <1>1, <1>2, <1>3 DEF TypeOK, Good, ManagerOK, LockOK, cycles
  <1>6. OnlyOf(p)
    BY <1>2 DEF TypeOK, OnlyOf, cycles
  <1> QED BY <1>4, <1>5, <1>6

LEMMA StopGood ==
    ASSUME NEW p \in Processes, TypeOK, Good(p), Stop(p)
    PROVE  TypeOK' /\ Good(p)' /\ OnlyOf(p)
  <1> USE ControlAssumption DEF Stop, Become, Idle, engine, cycles
  <1>1. TypeOK'
    BY DEF TypeOK, Stages
  <1>2. Good(p)'
    BY DEF TypeOK, Good, ManagerOK, LockOK
  <1>3. OnlyOf(p)
    BY DEF TypeOK, OnlyOf
  <1> QED BY <1>1, <1>2, <1>3

LEMMA StopBotGood ==
    ASSUME NEW p \in Processes, NEW s \in Symbols, TypeOK, Good(p), StopBot(p, s)
    PROVE  TypeOK' /\ Good(p)' /\ OnlyOf(p)
  <1> USE ControlAssumption DEF StopBot, cycles
  <1>1. TypeOK'
    BY DEF TypeOK, Stages
  <1>2. Good(p)'
    BY DEF TypeOK, Good, ManagerOK, LockOK
  <1>3. OnlyOf(p)
    BY DEF TypeOK, OnlyOf
  <1> QED BY <1>1, <1>2, <1>3

LEMMA LoopEndsGood ==
    ASSUME NEW p \in Processes, NEW s \in Symbols, TypeOK, Good(p), LoopEnds(p, s)
    PROVE  TypeOK' /\ Good(p)' /\ OnlyOf(p)
  <1> USE ControlAssumption DEF LoopEnds, NoEntry
  <1>1. TypeOK'
    BY DEF TypeOK, Stages
  <1>2. Good(p)'
    BY DEF TypeOK, Good, ManagerOK, LockOK
  <1>3. OnlyOf(p)
    BY DEF TypeOK, OnlyOf
  <1> QED BY <1>1, <1>2, <1>3

LEMMA StopEndsGood ==
    ASSUME NEW p \in Processes, TypeOK, Good(p), StopEnds(p)
    PROVE  TypeOK' /\ Good(p)' /\ OnlyOf(p)
  <1> USE ControlAssumption DEF StopEnds, Become, Idle, Released, engine, cycles
  <1>1. TypeOK'
    BY DEF TypeOK, Stages
  <1>2. Good(p)'
    BY DEF TypeOK, Good, ManagerOK, LockOK
  <1>3. OnlyOf(p)
    BY DEF TypeOK, OnlyOf
  <1> QED BY <1>1, <1>2, <1>3

LEMMA ManualCycleGood ==
    ASSUME NEW p \in Processes, NEW s \in Symbols, TypeOK, Good(p), ManualCycle(p, s)
    PROVE  TypeOK' /\ Good(p)' /\ OnlyOf(p)
  <1> USE ControlAssumption DEF ManualCycle, engine
  <1>1. TypeOK'
    BY DEF TypeOK, Stages
  <1>2. Good(p)'
    BY DEF TypeOK, Good, ManagerOK, LockOK
  <1>3. OnlyOf(p)
    BY DEF TypeOK, OnlyOf
  <1> QED BY <1>1, <1>2, <1>3

LEMMA ManualCycleEndsGood ==
    ASSUME NEW p \in Processes, NEW s \in Symbols, TypeOK, Good(p), ManualCycleEnds(p, s)
    PROVE  TypeOK' /\ Good(p)' /\ OnlyOf(p)
  <1>1. /\ \/ manual' = [manual EXCEPT ![p] = @ \ {s}] /\ UNCHANGED orphan
           \/ orphan' = [orphan EXCEPT ![p] = @ \ {s}] /\ UNCHANGED manual
        /\ UNCHANGED <<bots, running, loops, entering, mgr, locked, tracked>>
    BY DEF ManualCycleEnds, engine
  <1>2. TypeOK'
    <2>1. manual' \in [Processes -> SUBSET Symbols]
      BY <1>1 DEF TypeOK
    <2>2. orphan' \in [Processes -> SUBSET Symbols]
      BY <1>1 DEF TypeOK
    <2> QED BY <1>1, <2>1, <2>2 DEF TypeOK
  <1>3. Good(p)'
    BY <1>1 DEF TypeOK, Good, ManagerOK, LockOK
  <1>4. OnlyOf(p)
    BY <1>1 DEF TypeOK, OnlyOf
  <1> QED BY <1>2, <1>3, <1>4

LEMMA EntryApprovedGood ==
    ASSUME NEW p \in Processes, NEW s \in Symbols,
           NEW by \in {"loop", "manual"}, TypeOK, Good(p), EntryApproved(p, by, s)
    PROVE  TypeOK' /\ Good(p)' /\ OnlyOf(p)
  <1> USE ControlAssumption DEF EntryApproved, NoEntry, Cyclers, engine
  <1>1. TypeOK'
    BY DEF TypeOK, Stages
  <1>2. Good(p)'
    BY DEF TypeOK, Good, ManagerOK, LockOK
  <1>3. OnlyOf(p)
    BY DEF TypeOK, OnlyOf
  <1> QED BY <1>1, <1>2, <1>3

LEMMA EntryRecordedGood ==
    ASSUME NEW p \in Processes, TypeOK, Good(p), EntryRecorded(p)
    PROVE  TypeOK' /\ Good(p)' /\ OnlyOf(p)
  <1> USE ControlAssumption DEF EntryRecorded, NoEntry, engine
  <1>1. TypeOK'
    BY DEF TypeOK, Stages
  <1>2. Good(p)'
    BY DEF TypeOK, Good, ManagerOK, LockOK
  <1>3. OnlyOf(p)
    BY DEF TypeOK, OnlyOf
  <1> QED BY <1>1, <1>2, <1>3

LEMMA EntryAbandonedGood ==
    ASSUME NEW p \in Processes, TypeOK, Good(p), EntryAbandoned(p)
    PROVE  TypeOK' /\ Good(p)' /\ OnlyOf(p)
  <1> USE ControlAssumption DEF EntryAbandoned, NoEntry, engine
  <1>1. TypeOK'
    BY DEF TypeOK, Stages
  <1>2. Good(p)'
    BY DEF TypeOK, Good, ManagerOK, LockOK
  <1>3. OnlyOf(p)
    BY DEF TypeOK, OnlyOf
  <1> QED BY <1>1, <1>2, <1>3

LEMMA PositionEndsGood ==
    ASSUME NEW p \in Processes, NEW s \in Symbols, TypeOK, Good(p), PositionEnds(p, s)
    PROVE  TypeOK' /\ Good(p)' /\ OnlyOf(p)
  <1> USE ControlAssumption DEF PositionEnds, engine, cycles
  <1>1. TypeOK'
    BY DEF TypeOK, Stages
  <1>2. Good(p)'
    BY DEF TypeOK, Good, ManagerOK, LockOK
  <1>3. OnlyOf(p)
    BY DEF TypeOK, OnlyOf
  <1> QED BY <1>1, <1>2, <1>3

LEMMA CrashGood ==
    ASSUME NEW p \in Processes, TypeOK, Good(p), Crash(p)
    PROVE  TypeOK' /\ Good(p)' /\ OnlyOf(p)
  <1> USE ControlAssumption DEF Crash, Become, Idle, NoEntry, Released
  <1>1. TypeOK'
    BY DEF TypeOK, Stages
  <1>2. Good(p)'
    BY DEF TypeOK, Good, ManagerOK, LockOK
  <1>3. OnlyOf(p)
    BY DEF TypeOK, OnlyOf
  <1> QED BY <1>1, <1>2, <1>3

-----------------------------------------------------------------------------

LEMMA StepGood ==
    ASSUME NEW p \in Processes, TypeOK, Good(p),
           ManagerStep(p) \/ Request(p) \/ CycleStep(p) \/ Crash(p)
    PROVE  TypeOK' /\ Good(p)' /\ OnlyOf(p)
  <1>1. CASE ManagerStep(p)
    BY <1>1, SelectMarketsGood, ClientsClosedGood, RefreshFailsGood,
       BotStartFailsGood, BotStartedGood, StopEndsGood, StartBotGood,
       StartRefusedGood, StopBotGood, LoopEndsGood DEF ManagerStep
  <1>2. CASE Request(p)
    BY <1>2, RefreshUniverseGood, StartGood, StopGood, ManualCycleGood DEF Request
  <1>3. CASE CycleStep(p)
    BY <1>3, ManualCycleEndsGood, PositionEndsGood, EntryApprovedGood,
       EntryRecordedGood, EntryAbandonedGood DEF CycleStep
  <1>4. CASE Crash(p)
    BY <1>4, CrashGood
  <1> QED BY <1>1, <1>2, <1>3, <1>4

-----------------------------------------------------------------------------
(* Whoever enters is watched, if run-once is asked for configured symbols.   *)

\* Another process does not disturb it: it enters only what every selection
\* has, or it owns the lock that a start would need.
LEMMA OthersWatched ==
    ASSUME NEW p \in Processes, NEW q \in Processes, p # q, Good(q), WatchOK(q),
           loops'[q] = loops[q], mgr'[q] = mgr[q], entering'[q] = entering[q],
           tracked' \subseteq tracked \cup Configured \/ locked = p
    PROVE  WatchOK(q)'
  <1>1. CASE tracked' \subseteq tracked \cup Configured
    BY <1>1 DEF WatchOK
  <1>2. CASE locked = p
    <2>1. /\ loops[q] = {} /\ mgr[q].stage # "start"
          /\ ~(mgr[q].stage = "close" /\ mgr[q].starts)
      BY <1>2 DEF Good, LockOK
    <2> QED BY <2>1 DEF WatchOK
  <1> QED BY <1>1, <1>2

\* What p's steps may do to the positions of the others.
EntersOnly(p) ==
    /\ \A q \in Processes \ {p} : entering'[q] = entering[q]
    /\ tracked' \subseteq tracked \cup Configured \/ locked = p

\* The new universe has every position, if a start goes on with it.
LEMMA InstallWatched ==
    ASSUME NEW p \in Processes, NEW selected \in SUBSET Symbols,
           TypeOK, Good(p), WatchOK(p),
           mgr[p].stage \in {"discover", "close"}, Install(p, selected),
           Configured \subseteq selected, mgr[p].starts => tracked \subseteq selected
    PROVE  WatchOK(p)' /\ EntersOnly(p)
  <1> DEFINE next == IF mgr[p].starts
                     THEN [Idle EXCEPT !.stage = "start", !.todo = selected]
                     ELSE Idle
  <1>1. /\ loops[p] = {}
        /\ mgr' = [mgr EXCEPT ![p] = next]
        /\ UNCHANGED <<running, loops, entering, locked, tracked>>
    BY DEF Good, ManagerOK, Install, Become, engine
  <1>2. /\ next.stage = "start" => tracked \cup Configured \subseteq next.todo
        /\ next.stage = "idle" => next.todo = {}
        /\ next.stage \in {"start", "idle"}
    BY DEF Idle
  <1> HIDE DEF next
  <1>3. mgr'[p] = next
    BY <1>1 DEF TypeOK
  <1> QED BY <1>1, <1>2, <1>3 DEF WatchOK, EntersOnly

LEMMA SelectWatched ==
    ASSUME NEW p \in Processes, TypeOK, Good(p), WatchOK(p), SelectMarkets(p)
    PROVE  WatchOK(p)' /\ EntersOnly(p)
  <1>1. PICK ranked \in SUBSET Symbols :
            IF bots[p] \subseteq Selection(ranked)
            THEN Install(p, Selection(ranked))
            ELSE /\ Become(p, [mgr[p] EXCEPT !.stage = "close",
                                             !.selected = Selection(ranked)])
                 /\ UNCHANGED <<bots, engine, cycles, locked, tracked>>
    BY DEF SelectMarkets
  <1>2. /\ Selection(ranked) \in SUBSET Symbols /\ mgr[p].stage = "discover"
        /\ Configured \subseteq Selection(ranked) /\ tracked \subseteq Selection(ranked)
    BY ControlAssumption DEF Selection, SelectMarkets, TypeOK
  <1>3. CASE bots[p] \subseteq Selection(ranked)
    BY <1>1, <1>2, <1>3, InstallWatched
  <1>4. CASE ~(bots[p] \subseteq Selection(ranked))
    <2> DEFINE next == [mgr[p] EXCEPT !.stage = "close",
                                      !.selected = Selection(ranked)]
    <2>1. mgr'[p] = next /\ UNCHANGED <<running, loops, entering, locked, tracked>>
      BY <1>1, <1>4 DEF Become, engine, cycles, TypeOK
    <2>2. next.stage = "close" /\ next.selected = Selection(ranked)
      BY DEF TypeOK
    <2> HIDE DEF next
    <2> QED BY <1>2, <2>1, <2>2 DEF WatchOK, EntersOnly
  <1> QED BY <1>3, <1>4

LEMMA BotStartedWatched ==
    ASSUME NEW p \in Processes, TypeOK, Good(p), WatchOK(p), BotStarted(p)
    PROVE  WatchOK(p)' /\ EntersOnly(p)
  <1> DEFINE s == mgr[p].cur
             rest == mgr[p].todo \ {s}
             next == IF rest = {} THEN Idle
                     ELSE [mgr[p] EXCEPT !.todo = rest, !.cur = NoSymbol]
  <1>1. mgr[p].stage = "start" /\ s \in mgr[p].todo
    BY DEF BotStarted, Good, ManagerOK
  <1>2. /\ loops'[p] = loops[p] \cup {s} /\ mgr'[p] = next
        /\ UNCHANGED <<entering, tracked>>
    BY DEF BotStarted, Become, TypeOK, cycles
  <1>3. /\ next.todo = rest /\ next.stage \in {"start", "idle"}
        /\ next.stage = "idle" => rest = {}
    BY <1>1 DEF TypeOK, Idle
  <1> HIDE DEF next
  <1> QED BY <1>1, <1>2, <1>3 DEF WatchOK, EntersOnly

LEMMA EntryRecordedWatched ==
    ASSUME NEW p \in Processes, RunOnceSymbols \subseteq Configured,
           TypeOK, Good(p), WatchOK(p), EntryRecorded(p)
    PROVE  WatchOK(p)' /\ EntersOnly(p)
  <1> DEFINE s == entering[p].symbol
  <1>1. /\ tracked' = tracked \cup {s}
        /\ entering'[p] = NoEntry
        /\ \A q \in Processes \ {p} : entering'[q] = entering[q]
        /\ UNCHANGED <<running, loops, mgr, locked>>
    BY DEF EntryRecorded, TypeOK, engine
  <1>2. \/ s \in loops[p] /\ locked = p
        \/ s \in Configured
    BY DEF EntryRecorded, TypeOK, WatchOK, Good
  <1>3. WatchOK(p)'
    <2>1. mgr[p].stage = "close" => loops[p] = {}
      BY DEF Good, ManagerOK
    <2> QED BY <1>1, <1>2, <2>1 DEF WatchOK, NoEntry
  <1>4. EntersOnly(p)
    BY <1>1, <1>2 DEF EntersOnly
  <1> QED BY <1>3, <1>4

\* The other steps of the manager change no position.
LEMMA ManagerWatched ==
    ASSUME NEW p \in Processes, TypeOK, Good(p), WatchOK(p), ManagerStep(p)
    PROVE  WatchOK(p)' /\ EntersOnly(p)
  <1>1. CASE SelectMarkets(p)
    BY <1>1, SelectWatched
  <1>2. CASE ClientsClosed(p)
    BY <1>2, InstallWatched DEF ClientsClosed, WatchOK, TypeOK
  <1>3. CASE RefreshFails(p)
    <2>1. /\ loops[p] = {} /\ mgr'[p] = Idle
          /\ UNCHANGED <<loops, entering, tracked>>
      BY <1>3 DEF RefreshFails, Become, Good, ManagerOK, TypeOK, engine, cycles
    <2> QED BY <2>1 DEF WatchOK, EntersOnly, Idle
  <1>4. CASE BotStartFails(p) \/ \E s \in Symbols : StartRefused(p, s)
    <2>1. mgr'[p] = Rollback /\ UNCHANGED <<loops, entering, tracked>>
      BY <1>4 DEF BotStartFails, StartRefused, Become, TypeOK, engine, cycles
    <2> QED BY <2>1 DEF WatchOK, EntersOnly, Rollback, Idle
  <1>5. CASE BotStarted(p)
    BY <1>5, BotStartedWatched
  <1>6. CASE StopEnds(p)
    <2>1. /\ loops[p] = {} /\ mgr'[p] = Idle
          /\ UNCHANGED <<loops, entering, tracked>>
      BY <1>6 DEF StopEnds, Become, TypeOK, engine, cycles
    <2> QED BY <2>1 DEF WatchOK, EntersOnly, Idle
  <1>7. ASSUME NEW s \in Symbols, StartBot(p, s) PROVE WatchOK(p)' /\ EntersOnly(p)
    <2>1. /\ mgr'[p] = [mgr[p] EXCEPT !.cur = s]
          /\ UNCHANGED <<loops, entering, tracked>>
      BY <1>7 DEF StartBot, Become, TypeOK, engine, cycles
    <2>2. /\ mgr'[p].stage = mgr[p].stage /\ mgr'[p].todo = mgr[p].todo
          /\ mgr'[p].starts = mgr[p].starts /\ mgr'[p].selected = mgr[p].selected
      BY <2>1 DEF TypeOK
    <2> QED BY <2>1, <2>2 DEF WatchOK, EntersOnly
  <1>8. ASSUME NEW s \in Symbols, StopBot(p, s) PROVE WatchOK(p)' /\ EntersOnly(p)
    BY <1>8 DEF StopBot, WatchOK, EntersOnly, cycles
  <1>9. ASSUME NEW s \in Symbols, LoopEnds(p, s) PROVE WatchOK(p)' /\ EntersOnly(p)
    <2>1. mgr[p].stage \in {"stop", "rollback"}
      BY <1>9 DEF LoopEnds, Good, ManagerOK
    <2>2. /\ loops'[p] = loops[p] \ {s} /\ UNCHANGED <<mgr, tracked>>
          /\ entering'[p] = IF entering[p] = [by |-> "loop", symbol |-> s]
                            THEN NoEntry ELSE entering[p]
          /\ \A q \in Processes \ {p} : entering'[q] = entering[q]
      BY <1>9 DEF LoopEnds, TypeOK
    <2>3. entering[p].by = "loop" =>
             entering[p] = [by |-> "loop", symbol |-> entering[p].symbol]
      BY DEF TypeOK, NoEntry
    <2>4. entering'[p].by = "loop" => entering'[p].symbol \in loops'[p]
      BY <2>2, <2>3 DEF WatchOK, NoEntry
    <2>5. entering'[p].by = "manual" => entering'[p].symbol \in RunOnceSymbols
      BY <2>2 DEF WatchOK, NoEntry
    <2> QED BY <2>1, <2>2, <2>4, <2>5 DEF WatchOK, EntersOnly
  <1> QED BY <1>1, <1>2, <1>3, <1>4, <1>5, <1>6, <1>7, <1>8, <1>9 DEF ManagerStep

LEMMA StepWatched ==
    ASSUME NEW p \in Processes, RunOnceSymbols \subseteq Configured,
           TypeOK, Good(p), WatchOK(p),
           ManagerStep(p) \/ Request(p) \/ CycleStep(p) \/ Crash(p)
    PROVE  WatchOK(p)' /\ EntersOnly(p)
  <1>1. CASE RefreshUniverse(p) \/ Start(p) \/ Stop(p)
    <2>1. /\ mgr'[p] \in {Discover(FALSE), Discover(TRUE), [Idle EXCEPT !.stage = "stop"]}
          /\ UNCHANGED <<loops, entering, tracked>>
      BY <1>1 DEF RefreshUniverse, Start, Stop, Become, TypeOK, engine, cycles
    <2>2. mgr'[p].stage \in {"discover", "stop"}
      BY <2>1 DEF Discover, Idle
    <2> QED BY <2>1, <2>2 DEF WatchOK, EntersOnly
  <1>2. ASSUME NEW s \in Symbols, ManualCycle(p, s) \/ ManualCycleEnds(p, s)
        PROVE  WatchOK(p)' /\ EntersOnly(p)
    <2>1. UNCHANGED <<loops, entering, mgr, tracked>>
      BY <1>2 DEF ManualCycle, ManualCycleEnds, engine
    <2> QED BY <2>1 DEF WatchOK, EntersOnly
  <1>3. ASSUME NEW s \in Symbols, NEW by \in {"loop", "manual"}, EntryApproved(p, by, s)
        PROVE  WatchOK(p)' /\ EntersOnly(p)
    <2>1. /\ entering'[p] = [by |-> by, symbol |-> s]
          /\ \A q \in Processes \ {p} : entering'[q] = entering[q]
          /\ UNCHANGED <<loops, mgr, tracked>>
          /\ s \in IF by = "loop" THEN loops[p] ELSE RunOnceSymbols
      BY <1>3 DEF EntryApproved, Cyclers, TypeOK, engine
    <2> QED BY <2>1 DEF WatchOK, EntersOnly
  <1>4. CASE EntryRecorded(p)
    BY <1>4, EntryRecordedWatched
  <1>5. CASE EntryAbandoned(p)
    <2>1. /\ entering'[p] = NoEntry
          /\ \A q \in Processes \ {p} : entering'[q] = entering[q]
          /\ UNCHANGED <<loops, mgr, tracked>>
      BY <1>5 DEF EntryAbandoned, TypeOK, engine
    <2> QED BY <2>1 DEF WatchOK, EntersOnly, NoEntry
  <1>6. ASSUME NEW s \in Symbols, PositionEnds(p, s) PROVE WatchOK(p)' /\ EntersOnly(p)
    <2>1. tracked' \subseteq tracked /\ UNCHANGED <<loops, entering, mgr>>
      BY <1>6 DEF PositionEnds, engine, cycles
    <2> QED BY <2>1 DEF WatchOK, EntersOnly
  <1>7. CASE Crash(p)
    <2>1. /\ loops'[p] = {} /\ entering'[p] = NoEntry /\ mgr'[p] = Idle
          /\ \A q \in Processes \ {p} : entering'[q] = entering[q]
          /\ UNCHANGED tracked
      BY <1>7 DEF Crash, Become, TypeOK
    <2> QED BY <2>1 DEF WatchOK, EntersOnly, NoEntry, Idle
  <1> QED BY <1>1, <1>2, <1>3, <1>4, <1>5, <1>6, <1>7, ManagerWatched
          DEF Request, CycleStep

-----------------------------------------------------------------------------

LEMMA NextGood == IInv /\ [Next]_vars => IInv'
  <1> SUFFICES ASSUME IInv, [Next]_vars
               PROVE  /\ TypeOK' /\ \A q \in Processes : Good(q)'
                      /\ RunOnceSymbols \subseteq Configured =>
                            \A q \in Processes : WatchOK(q)'
    BY IInvParts DEF IInv, Good, LoopsOwned, NoManualBesideLoop
  <1>0. /\ TypeOK /\ \A q \in Processes : Good(q)
        /\ RunOnceSymbols \subseteq Configured => \A q \in Processes : WatchOK(q)
    BY IInvParts
  <1>1. CASE Next
    <2>1. PICK p \in Processes :
              ManagerStep(p) \/ Request(p) \/ CycleStep(p) \/ Crash(p)
      BY <1>1 DEF Next
    <2>2. TypeOK' /\ Good(p)' /\ OnlyOf(p)
      BY <1>0, <2>1, StepGood
    <2>3. ASSUME NEW q \in Processes, p # q
          PROVE  Good(q)'
      BY <1>0, <2>2, <2>3, Others DEF OnlyOf
    <2>4. ASSUME RunOnceSymbols \subseteq Configured, NEW q \in Processes
          PROVE  WatchOK(q)'
      <3>1. WatchOK(p)' /\ EntersOnly(p)
        BY <1>0, <2>1, <2>4, StepWatched
      <3>2. CASE q # p
        BY <1>0, <2>2, <2>4, <3>1, <3>2, OthersWatched DEF OnlyOf, EntersOnly
      <3> QED BY <3>1, <3>2
    <2> QED BY <2>2, <2>3, <2>4
  <1>2. CASE UNCHANGED vars
    BY <1>0, <1>2 DEF vars, TypeOK, Good, ManagerOK, LockOK, WatchOK,
       engine, cycles
  <1> QED BY <1>1, <1>2

\* The inductive invariant: manager, bots and runtime lock agree at every
\* await of start, stop and refresh.
THEOREM ControlInvariance == Spec => []IInv
  <1> QED BY InitGood, NextGood, PTL DEF Spec

\* Every variable keeps its type.
THEOREM ControlTypes == Spec => []TypeOK
  <1>1. IInv => TypeOK
    BY DEF IInv
  <1> QED BY <1>1, ControlInvariance, PTL

\* Loops belong to bots the manager has, in the process that owns the lock.
THEOREM LoopsAreOwned == Spec => []LoopsOwned
  <1>1. IInv => LoopsOwned
    BY DEF IInv
  <1> QED BY <1>1, ControlInvariance, PTL

\* Two processes never run loops on one database at once.
THEOREM OneEngine == Spec => []EngineAlone
  <1>1. IInv => EngineAlone
    BY DEF IInv, LoopsOwned, EngineAlone
  <1> QED BY <1>1, ControlInvariance, PTL

\* A manual cycle and the loop of one and the same bot exclude each other.
THEOREM ManualExcludesLoop == Spec => []NoManualBesideLoop
  <1>1. IInv => NoManualBesideLoop
    BY DEF IInv
  <1> QED BY <1>1, ControlInvariance, PTL

\* A complete start watches every position, provided that run-once is asked for
\* configured symbols only; run_once_during_refresh shows what happens otherwise.
THEOREM PositionsAreWatched ==
    ASSUME RunOnceSymbols \subseteq Configured
    PROVE  Spec => []PositionsWatched
  <1>1. IInv => PositionsWatched
    BY DEF IInv, WatchOK, PositionsWatched
  <1> QED BY <1>1, ControlInvariance, PTL

=============================================================================
