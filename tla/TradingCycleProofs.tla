------------------------- MODULE TradingCycleProofs -------------------------
(***************************************************************************)
(* Candles, decisions and entries, for any number of candles: the          *)
(* inductive invariant of TradingCycle and what follows from it.           *)
(***************************************************************************)
EXTENDS TradingCycle, TLAPS

\* What IInv says beyond the types.
Safe ==
    /\ OneEntryPerCandle /\ ExitSignalsFit /\ DecisionsOnClosedCandles
    /\ OneDecision /\ MarkerBehind /\ EntriesMarked /\ PositionDated /\ SignalsDated

LEMMA IInvParts == IInv <=> TypeOK /\ Safe
  BY DEF IInv, Safe

\* The newest completed candle bounds every candle that has closed.
LEMMA Time ==
    ASSUME TypeOK
    PROVE  /\ Newest \in Candles /\ Forming \in Candles /\ Newest <= Forming
           /\ 2 * Newest <= clock
           /\ \A k \in Candles : 2 * k <= clock => k <= Newest
  BY CandleAssumption DEF TypeOK, Newest, Forming, Candles, End

LEMMA InitGood == Init => TypeOK /\ Safe
  <1> SUFFICES ASSUME Init PROVE TypeOK /\ Safe
    OBVIOUS
  <1> USE CandleAssumption DEF Init
  <1>1. TypeOK
    <2>1. clock \in 2 .. End /\ 0 \in 0 .. MaxCandle
      BY DEF End
    <2>2. None \in Decisions
      BY DEF Decisions
    <2>3. task \in Tasks
      BY <2>1, <2>2 DEF Tasks, NoTask
    <2> QED BY <2>1, <2>2, <2>3 DEF TypeOK
  <1> USE DEF Candles, None, NoTask
  <1>2. OneEntryPerCandle /\ ExitSignalsFit /\ DecisionsOnClosedCandles
    BY DEF OneEntryPerCandle, ExitSignalsFit, DecisionsOnClosedCandles
  <1>3. OneDecision /\ MarkerBehind /\ EntriesMarked /\ PositionDated /\ SignalsDated
    BY DEF OneDecision, MarkerBehind, EntriesMarked, PositionDated, SignalsDated
  <1> QED BY <1>1, <1>2, <1>3 DEF Safe

LEMMA NoneTyped == None \in Decisions
  BY DEF Decisions

\* A position that is being sold was entered on some candle.
LEMMA SellDated ==
    ASSUME TypeOK, SellInDoubt
    PROVE  doubt' \in Decisions /\ (doubt'.side = "BUY" => doubt' = doubt)
  BY DEF TypeOK, SellInDoubt, Decisions, Candles

-----------------------------------------------------------------------------
(* Time and the strategy task. *)

\* What has closed stays closed.
LEMMA TickGood ==
    ASSUME TypeOK, Safe, Tick PROVE TypeOK' /\ Safe'
  <1> USE CandleAssumption DEF Tick, TypeOK, control, mind, locals, ledger
  <1>1. TypeOK'
    BY DEF End
  <1>2. DecisionsOnClosedCandles' /\ MarkerBehind'
    BY DEF Safe, DecisionsOnClosedCandles, MarkerBehind, End, Decisions, None, Candles, Tasks
  <1>3. /\ OneEntryPerCandle' /\ ExitSignalsFit' /\ OneDecision'
        /\ EntriesMarked' /\ PositionDated' /\ SignalsDated'
    BY DEF Safe, OneEntryPerCandle, ExitSignalsFit, ExitSignal, OneDecision,
           EntriesMarked, PositionDated, SignalsDated
  <1> QED BY <1>1, <1>2, <1>3 DEF Safe

\* A decision is about the newest candle that was completed both when the
\* rows were read and when they arrived: not before the one marked last.
LEMMA EvaluateGood ==
    ASSUME TypeOK, Safe, Evaluate PROVE TypeOK' /\ Safe'
  <1>1. PICK rows \in task.rows .. Forming, side \in Sides :
            task' = IF ~manual /\ LastCompleted(rows) = cached.candle
                    THEN [NoTask EXCEPT !.stage = "done"]
                    ELSE [NoTask EXCEPT
                            !.stage = IF side = "HOLD" THEN "done" ELSE "advising",
                            !.result = [candle |-> LastCompleted(rows), side |-> side]]
    BY DEF Evaluate
  <1> DEFINE d == [candle |-> LastCompleted(rows), side |-> side]
  <1>2. task.stage = "asked" /\ pending = None /\ candidate = None
    BY DEF Evaluate, Safe, OneDecision, NoTask
  <1>3. task.rows \in Candles /\ used \in Nat /\ used <= task.rows /\ used <= Newest
    <2>1. used \in 0 .. MaxCandle
      BY DEF TypeOK
    <2>2. task.rows \in Candles /\ used <= task.rows /\ 2 * used <= clock
      BY <1>2 DEF Safe, MarkerBehind
    <2> QED BY <2>1, <2>2, Time, CandleAssumption DEF Candles
  <1>4. /\ d.candle \in Candles /\ d.candle = LastCompleted(rows)
        /\ used <= d.candle /\ 2 * d.candle <= clock
    BY <1>3, Time, CandleAssumption DEF LastCompleted, Candles, TypeOK, End
  <1>5. d \in Decisions
    BY <1>4 DEF Decisions, Sides
  <1> HIDE DEF d
  <1>6. /\ task' \in Tasks /\ task'.stage \in {"done", "advising"}
        /\ task'.result \in {None, d}
    <2>1. \E st \in {"done", "advising"}, r \in {None, d} :
              task' = [stage |-> st, rows |-> 0, result |-> r]
      <3>1. CASE ~manual /\ LastCompleted(rows) = cached.candle
        <4>1. task' = [stage |-> "done", rows |-> 0, result |-> None]
          BY <1>1, <3>1 DEF NoTask
        <4> QED BY <4>1
      <3>2. CASE ~(~manual /\ LastCompleted(rows) = cached.candle)
        <4>1. task' = [stage |-> IF side = "HOLD" THEN "done" ELSE "advising",
                       rows |-> 0, result |-> d]
          BY <1>1, <3>2 DEF NoTask, d
        <4> QED BY <4>1
      <3> QED BY <3>1, <3>2
    <2>2. None \in Decisions /\ 0 \in 0 .. MaxCandle
      BY CandleAssumption DEF Decisions
    <2> QED BY <2>1, <2>2, <1>5 DEF Tasks
  <1>7. TypeOK'
    BY <1>6 DEF Evaluate, TypeOK, control, mind, locals, ledger
  <1>8. DecisionsOnClosedCandles' /\ OneDecision' /\ MarkerBehind'
    BY <1>2, <1>4, <1>6 DEF Evaluate, Safe, DecisionsOnClosedCandles, OneDecision,
           MarkerBehind, mind, locals, ledger, None, TypeOK, End
  <1>9. /\ OneEntryPerCandle' /\ ExitSignalsFit'
        /\ EntriesMarked' /\ PositionDated' /\ SignalsDated'
    BY DEF Evaluate, Safe, OneEntryPerCandle, ExitSignalsFit, ExitSignal,
           EntriesMarked, PositionDated, SignalsDated, mind, locals, ledger
  <1> QED BY <1>7, <1>8, <1>9 DEF Safe

LEMMA StrategyGood ==
    ASSUME TypeOK, Safe, StrategyStep PROVE TypeOK' /\ Safe'
  <1> USE DEF mind, locals, ledger, control
  <1>1. CASE Evaluate
    BY <1>1, EvaluateGood
  <1>2. ASSUME task' \in Tasks, task'.stage # "asked", task.stage # "none",
               task'.result \in {None, task.result},
               UNCHANGED <<clock, control, mind, locals, ledger>>
        PROVE  TypeOK' /\ Safe'
    <2>1. TypeOK'
      BY <1>2 DEF TypeOK
    <2>2. DecisionsOnClosedCandles' /\ OneDecision' /\ MarkerBehind'
      BY <1>2 DEF Safe, DecisionsOnClosedCandles, OneDecision, MarkerBehind, NoTask,
             None, TypeOK, End
    <2>3. /\ OneEntryPerCandle' /\ ExitSignalsFit'
          /\ EntriesMarked' /\ PositionDated' /\ SignalsDated'
      BY <1>2 DEF Safe, OneEntryPerCandle, ExitSignalsFit, ExitSignal,
             EntriesMarked, PositionDated, SignalsDated
    <2> QED BY <2>1, <2>2, <2>3 DEF Safe
  <1>3. CASE Advised
    BY <1>2, <1>3 DEF Advised, TypeOK, Tasks
  <1>4. CASE StrategyFails
    BY <1>2, <1>4, CandleAssumption DEF StrategyFails, NoTask, Tasks, Decisions
  <1> QED BY <1>1, <1>3, <1>4 DEF StrategyStep

-----------------------------------------------------------------------------
(* Up to the exit checks, and these.  A SELL of unknown outcome is of no     *)
(* account here, only a BUY is; and what is sold needs no date.              *)

LEMMA BeginGood ==
    ASSUME TypeOK, Safe, BeginCycle(FALSE) \/ BeginCycle(TRUE) \/ Priced \/ PriceFails
    PROVE  TypeOK' /\ Safe'
  <1> USE DEF mind, locals, ledger, control, None
  <1>1. ASSUME NEW force \in BOOLEAN, BeginCycle(force) PROVE TypeOK' /\ Safe'
    <2>1. TypeOK'
      BY <1>1 DEF BeginCycle, TypeOK
    <2>2. Safe'
      BY <1>1 DEF BeginCycle, TypeOK, Safe, OneEntryPerCandle, ExitSignalsFit, ExitSignal,
             DecisionsOnClosedCandles, OneDecision, MarkerBehind, EntriesMarked,
             PositionDated, SignalsDated
    <2> QED BY <2>1, <2>2
  <1>2. CASE Priced
    <2>1. /\ pc = "pricing" /\ manual' = manual
          /\ pc' = IF trade # 0 THEN "checking" ELSE "polling"
      BY <1>2 DEF Priced, Proceed
    <2>2. TypeOK'
      BY <1>2, <2>1 DEF Priced, TypeOK
    <2>3. Safe'
      BY <1>2, <2>1 DEF Priced, TypeOK, Safe, OneEntryPerCandle, ExitSignalsFit,
             ExitSignal, DecisionsOnClosedCandles, OneDecision, MarkerBehind,
             EntriesMarked, PositionDated, SignalsDated
    <2> QED BY <2>2, <2>3
  <1>3. CASE PriceFails
    <2>1. TypeOK'
      BY <1>3, NoneTyped DEF PriceFails, EndCycle, TypeOK
    <2>2. Safe'
      BY <1>3 DEF PriceFails, EndCycle, TypeOK, Safe, OneEntryPerCandle, ExitSignalsFit,
             ExitSignal, DecisionsOnClosedCandles, OneDecision, MarkerBehind,
             EntriesMarked, PositionDated, SignalsDated
    <2> QED BY <2>1, <2>2
  <1> QED BY <1>1, <1>2, <1>3

LEMMA ExitGood ==
    ASSUME TypeOK, Safe, ExitStep
    PROVE  TypeOK' /\ Safe'
  <1> USE DEF mind, locals, ledger, control, None
  <1>1. CASE ExitHolds
    <2>1. /\ pc' \in {"polling", "account"} /\ sold' \in BOOLEAN
          /\ pc' = "polling" => pc = "checking"
      BY <1>1 DEF ExitHolds, Proceed, AfterCheck
    <2>2. TypeOK'
      BY <1>1, <2>1 DEF ExitHolds, Proceed, TypeOK
    <2>3. Safe'
      BY <1>1, <2>1 DEF ExitHolds, TypeOK, Safe, OneEntryPerCandle, ExitSignalsFit,
             ExitSignal, DecisionsOnClosedCandles, OneDecision, MarkerBehind,
             EntriesMarked, PositionDated, SignalsDated
    <2> QED BY <2>2, <2>3
  <1>2. CASE ExitSells
    <2>1. pc' \in {"polling", "account"} /\ (pc' = "polling" => pc = "checking")
      BY <1>2 DEF ExitSells, Proceed, AfterCheck
    <2>2. TypeOK'
      BY <1>2, <2>1, CandleAssumption DEF ExitSells, Proceed, TypeOK
    <2>3. Safe'
      BY <1>2, <2>1 DEF ExitSells, TypeOK, Safe, OneEntryPerCandle, ExitSignalsFit,
             ExitSignal, DecisionsOnClosedCandles, OneDecision, MarkerBehind,
             EntriesMarked, PositionDated, SignalsDated
    <2> QED BY <2>2, <2>3
  <1>3. CASE ExitFails
    <2>1. doubt' \in Decisions /\ (doubt'.side = "BUY" => doubt' = doubt)
      BY <1>3, SellDated DEF ExitFails
    <2>2. TypeOK'
      BY <1>3, <2>1, NoneTyped DEF ExitFails, EndCycle, TypeOK
    <2>3. Safe'
      BY <1>3, <2>1 DEF ExitFails, EndCycle, TypeOK, Safe, OneEntryPerCandle,
             ExitSignalsFit, ExitSignal, DecisionsOnClosedCandles, OneDecision,
             MarkerBehind, EntriesMarked, PositionDated, SignalsDated
    <2> QED BY <2>2, <2>3
  <1> QED BY <1>1, <1>2, <1>3 DEF ExitStep

-----------------------------------------------------------------------------
(* The decision of the cycle: at most one, and never behind the marker.      *)

LEMMA PollGood ==
    ASSUME TypeOK, Safe, PollStep PROVE TypeOK' /\ Safe'
  <1> USE NoneTyped DEF mind, locals, ledger, control, GoBy, Proceed
  <1>1. CASE PollPending
    <2>1. TypeOK'
      BY <1>1 DEF PollPending, TypeOK
    <2>2. Safe'
      BY <1>1, Time DEF PollPending, Kept, TypeOK, Safe, OneEntryPerCandle, ExitSignalsFit,
             ExitSignal, DecisionsOnClosedCandles, OneDecision, MarkerBehind,
             EntriesMarked, PositionDated, SignalsDated
    <2> QED BY <2>1, <2>2
  \* The steps that drop an expired decision and go on without any.
  <1>2. ASSUME pc = "polling", pending' = None, candidate' = None,
               pc' \in {"waiting", "account"}, sold' \in BOOLEAN,
               UNCHANGED <<clock, control, cached, manual, ledger>>,
               task' \in {task, Asked}
        PROVE  TypeOK' /\ Safe'
    <2>1. used \in Nat /\ used <= Forming /\ Forming \in Candles
      BY Time, CandleAssumption DEF TypeOK, Safe, MarkerBehind, Candles
    <2>2. Asked \in Tasks /\ Asked.result = None /\ Asked.rows = Forming
      BY <2>1, CandleAssumption DEF Asked, Tasks, Candles
    <2>3. TypeOK'
      BY <1>2, <2>2 DEF TypeOK
    <2>4. DecisionsOnClosedCandles' /\ OneDecision' /\ MarkerBehind'
      BY <1>2, <2>1, <2>2 DEF DecisionsOnClosedCandles, OneDecision, MarkerBehind, Safe,
             TypeOK, None, End
    <2>5. OneEntryPerCandle' /\ EntriesMarked' /\ PositionDated' /\ SignalsDated' /\ ExitSignalsFit'
      BY <1>2 DEF Safe, OneEntryPerCandle, ExitSignalsFit, EntriesMarked, PositionDated,
             SignalsDated
    <2> QED BY <2>3, <2>4, <2>5 DEF Safe
  <1>3. CASE PollAsk
    <2>1. candidate = None
      BY <1>3 DEF PollAsk, Safe, OneDecision
    <2> QED BY <1>2, <1>3, <2>1 DEF PollAsk, TypeOK
  <1>4. CASE PollNothing
    BY <1>2, <1>4 DEF PollNothing, TypeOK
  <1>5. CASE TakeResult
    <2>1. PICK d \in {None, task.result} :
              pending' = d /\ candidate' = d /\ sold' = FALSE
              /\ pc' = IF trade # 0 /\ d # None /\ ~sold THEN "deciding" ELSE "account"
      BY <1>5 DEF TakeResult
    <2>2. /\ d \in Decisions /\ NoTask \in Tasks
          /\ d # None => 2 * d.candle <= clock /\ used <= d.candle
      BY <2>1, CandleAssumption DEF TypeOK, Tasks, NoTask, Safe, DecisionsOnClosedCandles, MarkerBehind
    <2>3. TypeOK'
      BY <1>5, <2>1, <2>2 DEF TakeResult, TypeOK
    <2>4. DecisionsOnClosedCandles' /\ OneDecision' /\ MarkerBehind'
      BY <1>5, <2>1, <2>2 DEF TakeResult, DecisionsOnClosedCandles, OneDecision,
             MarkerBehind, Safe, TypeOK, NoTask, None, End
    <2>5. OneEntryPerCandle' /\ EntriesMarked' /\ PositionDated' /\ SignalsDated'
      BY <1>5, <2>1 DEF TakeResult, Safe, OneEntryPerCandle, EntriesMarked, PositionDated,
             SignalsDated
    <2>6. ExitSignalsFit'
      BY <1>5, <2>1, <2>2 DEF TakeResult, Safe, ExitSignalsFit, ExitSignal, PositionDated,
             TypeOK, Decisions, None, Candles
    <2> QED BY <2>3, <2>4, <2>5, <2>6 DEF Safe
  <1> QED BY <1>1, <1>3, <1>4, <1>5 DEF PollStep

-----------------------------------------------------------------------------
(* What a cycle does with its decision. *)

\* A decision that is committed is not older than the position's candle,
\* unless the entry was cut short.
LEMMA CommitGood ==
    ASSUME TypeOK, Safe, candidate # None, pc = "account", Commit(candidate), EndCycle,
           UNCHANGED <<clock, control, task, ledger>>
    PROVE  TypeOK' /\ Safe'
  <1> USE NoneTyped DEF control, ledger, Commit, EndCycle
  <1>1. candidate = pending /\ task = NoTask /\ candidate \in Decisions
    BY DEF Safe, OneDecision, TypeOK
  <1>2. TypeOK'
    BY <1>1 DEF TypeOK
  <1>3. used <= candidate.candle /\ 2 * candidate.candle <= clock
    BY <1>1 DEF Safe, MarkerBehind, DecisionsOnClosedCandles
  <1>4. trade # 0 => candidate.candle >= trade \/ entries[trade] = "cut"
    BY <1>1, <1>3 DEF Safe, PositionDated, TypeOK
  <1>5. DecisionsOnClosedCandles' /\ OneDecision' /\ MarkerBehind' /\ SignalsDated'
    BY <1>1, <1>3, <1>4 DEF Safe, DecisionsOnClosedCandles, OneDecision, MarkerBehind,
           SignalsDated, None, NoTask, TypeOK, End
  <1>6. OneEntryPerCandle' /\ ExitSignalsFit' /\ EntriesMarked' /\ PositionDated'
    BY DEF Safe, OneEntryPerCandle, ExitSignalsFit, EntriesMarked, PositionDated
  <1> QED BY <1>2, <1>5, <1>6 DEF Safe

\* A cycle that ends without anything leaves everything as it was.
LEMMA EndGood ==
    ASSUME TypeOK, Safe, pc # "protecting", EndCycle,
           UNCHANGED <<clock, control, mind, task, ledger>>
    PROVE  TypeOK' /\ Safe'
  <1> USE NoneTyped DEF control, mind, ledger, EndCycle
  <1>1. TypeOK'
    BY DEF TypeOK
  <1>2. Safe'
    BY DEF Safe, OneEntryPerCandle, ExitSignalsFit, ExitSignal,
           DecisionsOnClosedCandles, OneDecision, MarkerBehind, EntriesMarked,
           PositionDated, SignalsDated,
           None, TypeOK, End
  <1> QED BY <1>1, <1>2

LEMMA ConcludeGood ==
    ASSUME TypeOK, Safe, ConcludeStep PROVE TypeOK' /\ Safe'
  <1>1. CASE ConcludeOpen
    BY <1>1, CommitGood, EndGood DEF ConcludeOpen, mind
  <1>2. CASE ConcludeIdle
    BY <1>2, EndGood DEF ConcludeIdle
  <1>3. CASE Refuse
    BY <1>3, CommitGood DEF Refuse
  <1>4. CASE Postpone
    BY <1>4, EndGood DEF Postpone
  <1> QED BY <1>1, <1>2, <1>3, <1>4 DEF ConcludeStep

-----------------------------------------------------------------------------
(* Entries. *)

\* An entry that is cut short leaves a mark in the history and no more.
LEMMA CutGood ==
    ASSUME TypeOK, candidate # None, Cut
    PROVE  /\ entries' \in [Candles -> {"none", "once", "twice", "cut"}]
           /\ entries'[candidate.candle] = "cut"
           /\ \A k \in Candles : entries'[k] = "cut" \/ entries'[k] = entries[k]
  BY DEF TypeOK, Cut, Decisions

\* A failure, a stop or a crash: the exception of the properties is exactly
\* what this leaves behind.
LEMMA CutShortGood ==
    ASSUME TypeOK, Safe, CutShort, EndCycle,
           task' \in {task, NoTask}, running' \in BOOLEAN, validated' \in BOOLEAN,
           <<cached', pending'>> \in {<<cached, pending>>, <<None, None>>},
           UNCHANGED <<clock, trade, used>>
    PROVE  TypeOK' /\ Safe'
  <1> USE NoneTyped DEF EndCycle
  <1>1. /\ cached' \in {cached, None} /\ pending' \in {pending, None}
        /\ NoTask \in Tasks
    BY CandleAssumption DEF Tasks, NoTask
  <1>2. /\ entries' \in [Candles -> {"none", "once", "twice", "cut"}]
        /\ \A k \in Candles : entries'[k] = "cut" \/ entries'[k] = entries[k]
        /\ pc = "protecting" => entries'[candidate.candle] = "cut"
        /\ doubt' \in Decisions
        /\ doubt'.side = "BUY" => trade = 0 /\ entries'[doubt'.candle] = "cut"
    <2>1. CASE pc \in {"checking", "deciding"}
      BY <2>1, SellDated DEF CutShort, TypeOK, Safe, PositionDated
    <2>2. CASE pc = "entering"
      <3>1. /\ candidate.side = "BUY" /\ candidate # None
            /\ candidate \in Decisions /\ trade = 0
        BY <2>2 DEF Safe, EntriesMarked, PositionDated, TypeOK, None
      <3> QED BY <2>2, <3>1, CutGood DEF CutShort, BuyInDoubt, TypeOK, Safe, PositionDated
    <2>3. CASE pc = "protecting"
      <3>1. /\ candidate.side = "BUY" /\ candidate # None /\ doubt = None
        BY <2>3 DEF Safe, EntriesMarked, PositionDated, None
      <3> QED BY <2>3, <3>1, CutGood DEF CutShort, None
    <2>4. CASE pc \notin {"checking", "deciding", "entering", "protecting"}
      BY <2>4 DEF CutShort, TypeOK, Safe, PositionDated
    <2> QED BY <2>1, <2>2, <2>3, <2>4
  <1>3. TypeOK'
    BY <1>1, <1>2 DEF TypeOK
  <1>4. DecisionsOnClosedCandles' /\ OneDecision' /\ MarkerBehind'
    BY <1>1 DEF Safe, DecisionsOnClosedCandles, OneDecision, MarkerBehind, NoTask, None,
           TypeOK, End
  <1>5. OneEntryPerCandle' /\ ExitSignalsFit' /\ EntriesMarked' /\ PositionDated'
    BY <1>2 DEF Safe, OneEntryPerCandle, ExitSignalsFit, EntriesMarked, PositionDated,
           TypeOK, Candles
  <1>6. SignalsDated'
    BY <1>1, <1>2 DEF Safe, SignalsDated, PositionDated, TypeOK, Candles, None
  <1> QED BY <1>3, <1>4, <1>5, <1>6 DEF Safe

LEMMA EntryGood ==
    ASSUME TypeOK, Safe, EntryStep PROVE TypeOK' /\ Safe'
  <1> USE NoneTyped DEF mind, locals, ledger, control
  <1>1. CASE Approve
    <2>1. /\ candidate.side = "BUY" /\ candidate # None
          /\ candidate = pending /\ used # candidate.candle
      BY <1>1 DEF Approve, AlreadyUsed, Safe, OneDecision, None
    <2>2. used < candidate.candle
      BY <2>1 DEF Safe, MarkerBehind, TypeOK, Decisions, Candles
    <2>3. TypeOK'
      BY <1>1 DEF Approve, Proceed, TypeOK
    <2>4. Safe'
      BY <1>1, <2>1, <2>2 DEF Approve, Proceed, Safe, OneEntryPerCandle, ExitSignalsFit, ExitSignal,
           DecisionsOnClosedCandles, OneDecision, MarkerBehind, EntriesMarked,
           PositionDated, SignalsDated
    <2> QED BY <2>3, <2>4
  <1>2. CASE EntryRefused
    BY <1>2, EndGood DEF EntryRefused
  <1>3. CASE EntryFails
    BY <1>3, CutShortGood DEF EntryFails, CutShort, TypeOK
  <1>4. CASE Bought
    <2>1. /\ candidate.side = "BUY" /\ candidate.candle \in Candles
          /\ used < candidate.candle
      BY <1>4 DEF Bought, Safe, EntriesMarked, TypeOK, Decisions, None
    <2>2. entries[candidate.candle] # "once"
      BY <1>4, <2>1 DEF Bought, Safe, EntriesMarked, TypeOK, Candles
    <2>3. /\ entries' \in [Candles -> {"none", "once", "twice", "cut"}]
          /\ \A k \in Candles : k # candidate.candle => entries'[k] = entries[k]
          /\ entries'[candidate.candle] =
                (IF entries[candidate.candle] = "none" THEN "once" ELSE entries[candidate.candle])
      BY <1>4, <2>1, <2>2 DEF Bought, TypeOK
    <2>4. TypeOK'
      BY <1>4, <2>1, <2>3, CandleAssumption DEF Bought, Proceed, TypeOK, Candles
    <2>5. OneEntryPerCandle' /\ EntriesMarked' /\ PositionDated'
      BY <1>4, <2>1, <2>2, <2>3 DEF Bought, Proceed, Safe, OneEntryPerCandle, EntriesMarked,
             PositionDated, None, TypeOK
    <2>6. /\ ExitSignalsFit' /\ DecisionsOnClosedCandles' /\ OneDecision'
          /\ MarkerBehind' /\ SignalsDated'
      BY <1>4 DEF Bought, Proceed, Safe, ExitSignalsFit, DecisionsOnClosedCandles,
             OneDecision, MarkerBehind, SignalsDated
    <2> QED BY <2>4, <2>5, <2>6 DEF Safe
  <1>5. CASE EntryReturns
    <2>1. /\ candidate.side = "BUY" /\ candidate \in Decisions
          /\ candidate # None /\ candidate.candle \in Candles
          /\ used < candidate.candle /\ trade = candidate.candle
          /\ candidate = pending /\ task = NoTask /\ 2 * candidate.candle <= clock
      BY <1>5 DEF EntryReturns, Safe, EntriesMarked, PositionDated, OneDecision,
             DecisionsOnClosedCandles, TypeOK, Decisions, None
    <2>2. TypeOK'
      BY <1>5, <2>1, CandleAssumption DEF EntryReturns, Commit, EndCycle, TypeOK, Candles
    <2>3. Safe'
      BY <1>5, <2>1 DEF EntryReturns, Commit, EndCycle, TypeOK, None, NoTask, Candles, End,
             Safe, OneEntryPerCandle, ExitSignalsFit, ExitSignal,
           DecisionsOnClosedCandles, OneDecision, MarkerBehind, EntriesMarked,
           PositionDated, SignalsDated
    <2> QED BY <2>2, <2>3
  <1>6. CASE ProtectionFails
    BY <1>6, CutShortGood DEF ProtectionFails, CutShort, TypeOK
  <1> QED BY <1>1, <1>2, <1>3, <1>4, <1>5, <1>6 DEF EntryStep

-----------------------------------------------------------------------------
(* Start, stop and process death. *)

\* A position that recovery finds comes from an entry that was cut short.
LEMMA ControlGood ==
    ASSUME TypeOK, Safe, Reconcile \/ Start \/ Stop \/ Crash
    PROVE  TypeOK' /\ Safe'
  <1> USE NoneTyped DEF mind, locals, ledger, control
  <1>1. CASE Reconcile
    <2>1. /\ doubt' \in {doubt, None}
          /\ trade' \in {trade, 0} \/ (doubt.side = "BUY" /\ trade' = doubt.candle)
          /\ doubt'.side = "BUY" => doubt' = doubt /\ trade' = trade
      BY <1>1 DEF Reconcile, None
    <2>2. trade' # 0 => trade' = trade \/ entries[trade'] = "cut"
      BY <2>1 DEF Safe, PositionDated
    <2>3. TypeOK'
      BY <1>1, <2>1, CandleAssumption DEF Reconcile, TypeOK, Decisions, None, Candles
    <2>4. Safe'
      BY <1>1, <2>1, <2>2 DEF Reconcile, Safe, OneEntryPerCandle, ExitSignalsFit, ExitSignal,
           DecisionsOnClosedCandles, OneDecision, MarkerBehind, EntriesMarked,
           PositionDated, SignalsDated
    <2> QED BY <2>3, <2>4
  <1>2. CASE Start
    <2>1. TypeOK'
      BY <1>2 DEF Start, TypeOK
    <2>2. Safe'
      BY <1>2 DEF Start, Safe, OneEntryPerCandle, ExitSignalsFit, ExitSignal,
           DecisionsOnClosedCandles, OneDecision, MarkerBehind, EntriesMarked,
           PositionDated, SignalsDated
    <2> QED BY <2>1, <2>2
  <1>3. CASE Stop
    BY <1>3, CutShortGood DEF Stop, Interrupt, TypeOK
  <1>4. CASE Crash
    BY <1>4, CutShortGood DEF Crash, Interrupt, TypeOK
  <1> QED BY <1>1, <1>2, <1>3, <1>4

-----------------------------------------------------------------------------
(* The theorems. *)

LEMMA StepGood ==
    ASSUME TypeOK, Safe, [Next]_vars PROVE TypeOK' /\ Safe'
  <1>1. CASE UNCHANGED vars
    BY <1>1 DEF vars, mind, locals, ledger, control, TypeOK, Safe, OneEntryPerCandle, ExitSignalsFit, ExitSignal,
           DecisionsOnClosedCandles, OneDecision, MarkerBehind, EntriesMarked,
           PositionDated, SignalsDated
  <1>2. CASE Next
    BY <1>2, TickGood, StrategyGood, BeginGood, ExitGood, PollGood, ConcludeGood, EntryGood,
       ControlGood DEF Next, CycleStep
  <1> QED BY <1>1, <1>2

\* One decision at a time, never behind the marker, and every position dated
\* by the marker or by an entry that was cut short: an inductive invariant.
THEOREM CycleInvariance == Spec => []IInv
  <1>1. Init => IInv
    BY InitGood, IInvParts
  <1>2. IInv /\ [Next]_vars => IInv'
    <2>1. Safe' /\ TypeOK' => IInv'
      BY DEF IInv, Safe
    <2> QED BY <2>1, StepGood, IInvParts
  <1> QED BY <1>1, <1>2, PTL DEF Spec

\* Every variable keeps its type.
THEOREM CycleTypes == Spec => []TypeOK
  <1>1. IInv => TypeOK
    BY DEF IInv
  <1> QED BY <1>1, CycleInvariance, PTL

\* A candle is bought on once, but for entries that were cut short.
THEOREM EntryOnce == Spec => []OneEntryPerCandle
  <1>1. IInv => OneEntryPerCandle
    BY DEF IInv
  <1> QED BY <1>1, CycleInvariance, PTL

\* No position is handed a SELL from before its entry, with that exception.
THEOREM ExitsFit == Spec => []ExitSignalsFit
  <1>1. IInv => ExitSignalsFit
    BY DEF IInv
  <1> QED BY <1>1, CycleInvariance, PTL

\* Nothing is decided about a candle that is still open.
THEOREM CandlesClosed == Spec => []DecisionsOnClosedCandles
  <1>1. IInv => DecisionsOnClosedCandles
    BY DEF IInv
  <1> QED BY <1>1, CycleInvariance, PTL

=============================================================================
