--------------------------- MODULE ValidationTool ---------------------------
(***************************************************************************)
(* The commands of validate_testnet_protection.py: they buy a little on    *)
(* the testnet, have it protected, and prove in the same process or in     *)
(* later ones that the protection is still there.  All of them work on one *)
(* validation database and drive the Broker of module Protection directly. *)
(* None reconciles orders, so what became of an order that was left in     *)
(* doubt is never found out.                                               *)
(*                                                                         *)
(* A command holds the runtime lock of the bot from its beginning to its   *)
(* end: there is one at a time, and no loop beside it.                     *)
(***************************************************************************)
EXTENDS Protection

VARIABLES
    cmd,     \* the command that runs
    at,      \* its point: between two calls, or in one of the Broker's
    buy,     \* a BUY whose outcome is not in the database
    report   \* the last command, if it ended with "ok", or "failed"

tool == <<cmd, at, buy, report>>
all  == <<vars, tool>>

-----------------------------------------------------------------------------

Openers  == {"run", "open_and_exit", "open_offline_fill"}
Recovers == {"recover_and_close", "recover_offline_fill", "resume"}
Commands == Openers \cup Recovers

\* Those that say "ok" of a position they leave open.
Leavers == Openers \ {"run"}

ToolInit ==
    /\ row = FlatRow /\ base = InitialBase /\ sale = NoSale
    /\ lists = [l \in Lists |-> AbsentList]
    /\ rate \in Rates
    /\ validated = TRUE \* no command asks for it
    /\ pc = "idle" /\ call = "none" /\ stage = "none"
    /\ retried = FALSE /\ seen = NotSeen /\ lapsed = FALSE
    /\ cmd = "none" /\ at = "none"
    /\ buy = NoSale /\ report = "none"

GoOn(point) == at' = point /\ UNCHANGED <<cmd, buy, report>>

End(ok) ==
    /\ cmd' = "none" /\ at' = "none"
    /\ report' = IF ok THEN cmd ELSE "failed"
    /\ UNCHANGED buy

Begin(c) ==
    /\ cmd = "none"
    /\ cmd' = c /\ at' = "checks"
    /\ report' = "none"
    /\ UNCHANGED <<vars, buy>>

\* A request or a check of the command itself fails.
Fail ==
    /\ cmd # "none" /\ pc = "idle"
    /\ End(FALSE)
    /\ UNCHANGED vars

\* The process dies, or is interrupted.
Die ==
    /\ cmd # "none"
    /\ pc' = "idle" /\ call' = "none" /\ stage' = "none"
    /\ retried' = FALSE /\ seen' = NotSeen
    /\ End(FALSE)
    /\ UNCHANGED <<row, exchange, sale, validated, lapsed>>

-----------------------------------------------------------------------------
(* Opening a position. *)

NoOpenOrders ==
    /\ \A l \in Lists : ~Live(l)
    /\ sale.state # "SENT" /\ buy.state # "SENT"

\* The database has no open position and the exchange no open order.
OpenersCheck ==
    /\ cmd \in Openers /\ at = "checks"
    /\ ~row.open /\ NoOpenOrders
    /\ GoOn("enter")
    /\ UNCHANGED vars

\* Mutant: a BUY in doubt does not keep the next one away.
EnterDespiteDoubt ==
    /\ at = "enter"
    /\ Enter
    /\ GoOn("entering")

\* enter refuses while the outcome of an order is unknown.
StartEnter ==
    /\ at = "enter"
    /\ buy = NoSale
    /\ Enter
    /\ GoOn("entering")

\* Its BUY ends without an outcome.
BuyUncertain ==
    /\ at = "enter"
    /\ ~HasUnresolved /\ buy = NoSale
    /\ \E q \in Qty \ {0} : buy' = [state |-> "SENT", req |-> q, exec |-> 0]
    /\ cmd' = "none" /\ at' = "none"
    /\ report' = "failed"
    /\ UNCHANGED vars

\* What --open-and-exit, and the plain command, ask about the new list.
ListVerified ==
    /\ cmd \in {"run", "open_and_exit"} /\ at = "verify"
    /\ lists[row.list].state = "ACCEPTED"
    /\ IF cmd = "run" THEN GoOn("ready") ELSE End(Live(row.list))
    /\ UNCHANGED vars

\* --open-offline-fill has the list reconciled by _protective_fill.
StartProbe ==
    /\ cmd = "open_offline_fill" /\ at = "verify"
    /\ StartExit
    /\ UNCHANGED tool

Probed ==
    /\ pc = "quiet" /\ at = "verify"
    /\ Leave(TRUE)
    /\ End(row.status = "EXECUTING")
    /\ UNCHANGED <<row, exchange, sale, lapsed>>

-----------------------------------------------------------------------------
(* Recovering one. *)

\* The identity in the row is complete, and the exchange knows the list.
ListRediscovered ==
    /\ cmd \in Recovers \ {"resume"} /\ at = "checks"
    /\ row.open
    /\ row.status \in {"EXECUTING", "TERMINAL", "UNKNOWN"}
    /\ lists[row.list].state = "ACCEPTED"
    /\ cmd = "recover_offline_fill" => ~Live(row.list)
    /\ GoOn("ready")
    /\ UNCHANGED vars

ResumeFlat ==
    /\ cmd = "resume" /\ at = "checks"
    /\ ~row.open
    /\ End(TRUE)
    /\ UNCHANGED vars

\* Mutant: it asks for a list to recover, as the other recoveries do.
ResumeListed ==
    /\ cmd = "resume" /\ at = "checks"
    /\ row.open /\ row.list # NoList
    /\ GoOn("ready")
    /\ UNCHANGED vars

ResumeOpen ==
    /\ cmd = "resume" /\ at = "checks"
    /\ row.open
    /\ GoOn("ready")
    /\ UNCHANGED vars

\* maybe_exit with HOLD, which reconciles, and then with SELL.
StartReconciling == at = "ready" /\ StartExit /\ GoOn("reconciling")
StartClosing     == at = "due" /\ StartExit /\ GoOn("closing")

-----------------------------------------------------------------------------
(* How the calls of the Broker end. *)

\* Mutant: an entry that succeeded is taken for a protected position.
EnteredUnchecked == End(TRUE)

Entered == IF row'.list = NoList THEN End(FALSE) ELSE GoOn("verify")

\* The offline recovery is content with a fill of the list only.
Reconciled(byList) ==
    IF cmd = "recover_offline_fill" THEN End(byList /\ ~row'.open)
    ELSE IF ~row'.open THEN End(TRUE)
    ELSE IF cmd = "run" /\ row'.list = NoList THEN End(FALSE)
    ELSE GoOn("due")

\* Mutant: a SELL that succeeded is taken for a closed position.
ClosedUnchecked == End(TRUE)

Closed == End(~row'.open)

Returned(byList) ==
    CASE at = "entering" -> Entered
      [] at \in {"ready", "reconciling"} -> Reconciled(byList)
      [] at \in {"due", "closing"} -> Closed
      [] at = "verify" -> End(FALSE)

\* maybe_exit returns at once if the outcome of a SELL is unknown.
ExitBlocked ==
    /\ at \in {"ready", "due"}
    /\ HasUnresolved
    /\ UNCHANGED vars
    /\ Returned(FALSE)

CallReturns ==
    \/ (ConfirmActive \/ PlaceClosed \/ ExitFilled) /\ Returned(TRUE)
    \/ (Hold \/ AbandonSell \/ SellSettled) /\ Returned(FALSE)

CallRaises ==
    /\ \/ LookupFails \/ ConfirmRejects \/ PlaceGivesUp
       \/ QueryListFails \/ AnswerRejected \/ LegsTorn \/ BookFillTorn
       \/ CancelRefused \/ AbandonSell \/ SellUncertain
    /\ End(FALSE)

CallGoesOn ==
    /\ \/ Place \/ Send \/ PlaceFails \/ PlaceAnswered \/ ConfirmTerminal
       \/ PlaceRearms
       \/ QueryList \/ \E g \in Legs : QueryLeg(g)
       \/ LegsQuiet \/ LegsExecuted \/ BookFill
       \/ at # "verify" /\ ExitChecked
       \/ at = "reconciling" /\ (HoldAndRearm \/ HoldAndPlace)
       \/ ExitDue \/ CancelList \/ CancelFails \/ CancelChecked
       \/ SubmitSell
    /\ UNCHANGED tool

-----------------------------------------------------------------------------
(* The exchange, with or without the tool. *)

BuyExecutes ==
    /\ buy.state = "SENT"
    /\ \E q \in Qty \ {0} :
        /\ buy.exec + q <= buy.req
        /\ buy' = [buy EXCEPT !.exec = @ + q]
        /\ base' = base + q
    /\ UNCHANGED <<row, lists, rate, sale, control, lapsed, cmd, at, report>>

BuyEnds ==
    /\ buy.state = "SENT"
    /\ buy' = [buy EXCEPT !.state = "OVER"]
    /\ UNCHANGED <<vars, cmd, at, report>>

Market == ExchangeStep /\ UNCHANGED tool

CommandStep ==
    \/ OpenersCheck \/ StartEnter \/ BuyUncertain \/ ListVerified
    \/ StartProbe \/ Probed
    \/ ListRediscovered \/ ResumeFlat \/ ResumeOpen
    \/ StartReconciling \/ StartClosing \/ ExitBlocked
    \/ CallReturns \/ CallRaises \/ CallGoesOn

ToolNext ==
    \/ \E c \in Commands : Begin(c)
    \/ CommandStep \/ Fail \/ Die
    \/ Market \/ BuyExecutes \/ BuyEnds

ToolSpec == ToolInit /\ [][ToolNext]_all

(***************************************************************************)
(* Fairness.  Commands go on and end, as every request has a timeout, and  *)
(* the exchange decides about what it was sent and finishes what has begun *)
(* to execute.  From some time on things are calm: the operator only       *)
(* repeats --resume, requests made for it are answered, and market SELLs   *)
(* execute.                                                                *)
(***************************************************************************)
CalmResume ==
    \/ ResumeFlat \/ ResumeOpen \/ StartReconciling \/ StartClosing \/ ExitBlocked
    \/ CallReturns /\ (pc # "balance") /\ (pc = "decide" => at = "reconciling")
    \/ (LegsTorn \/ BookFillTorn \/ PlaceGivesUp \/ CancelRefused) /\ End(FALSE)
    \/ pc = "fills" /\ ~FillsAgree /\ CallRaises
    \/ CallGoesOn /\ pc' # "lookup" /\ (pc = "cancel" /\ Live(row.list) => lists' # lists)

CalmStep ==
    \/ cmd = "resume" /\ CalmResume
    \/ cmd # "resume" /\ (CommandStep \/ Fail \/ Begin("resume"))

CalmMarket ==
    /\ Market \/ BuyExecutes \/ BuyEnds
    /\ sale'.state = "OVER" /\ sale.state = "SENT" => sale.exec = sale.req

MarketGoesOn ==
    /\ \/ SaleExecutes \/ SaleEnds
       \/ \E l \in Lists :
            \/ Accept(l) \/ Lose(l)
            \/ lists[l].legs # FreshLegs /\ \E g \in Legs : FillLeg(l, g) \/ EndLeg(l, g)
    /\ UNCHANGED tool

CalmSpec ==
    /\ ToolSpec
    /\ WF_all(CalmStep) /\ WF_all(MarketGoesOn)
    /\ <>[][CalmStep \/ CalmMarket]_all

-----------------------------------------------------------------------------
(* Properties. *)

ToolTypeOK ==
    /\ TypeOK
    /\ cmd \in Commands \cup {"none"}
    /\ at \in {"none", "checks", "enter", "entering", "verify", "ready",
               "reconciling", "due", "closing"}
    /\ buy \in [state : {"NONE", "SENT", "OVER"}, req : Qty, exec : Qty]
    /\ report \in Commands \cup {"none", "failed"}

\* What "ok" is worth ("If any step becomes uncertain it exits non-zero instead
\* of pretending the validation succeeded", README.md:358).  Of a position that
\* was closed: the account has as many lots as before.  The exception is --resume
\* after a BUY in doubt, which is in the account or not.
OkMeansFlat ==
    report \in Commands \ Leavers =>
        /\ ~row.open /\ sale = NoSale
        /\ \A l \in Lists : ~Outstanding(l)
        /\ base = InitialBase + buy.exec
        /\ buy # NoSale => report = "resume"

\* Of a position that was left open: the row names a list of the exchange, and
\* what was bought is in the account or sold by that list.
OkMeansListed ==
    report \in Leavers =>
        /\ row.open /\ sale = NoSale /\ buy = NoSale
        /\ row.list # NoList /\ lists[row.list].state = "ACCEPTED"
        /\ base + Executed(row.list) = InitialBase + row.qty

\* However commands end, what is neither in the row nor in doubt is not in the
\* account: the next one starts from a position that is all there.
ToolLedger == base + Untold + sale.exec = InitialBase + buy.exec + row.qty

\* What keeps a position from being closed: an order, or a list, of which the
\* outcome is asked for by nobody or in vain.
InDoubt ==
    \/ HasUnresolved
    \/ row.list # NoList /\ lists[row.list].state \in {"MINTED", "LOST"}

\* The bound on the list ids is reached.
NoIdLeft == pc = "place" /\ \A l \in Lists : lists[l].state # "NONE"

\* Whatever an interrupted validation left open, repeating --resume closes it,
\* unless an outcome is in doubt ("If a validation is interrupted or becomes
\* uncertain, use --resume instead of deleting the validation database",
\* README.md:438).
ResumeCloses == row.open ~> (~row.open \/ InDoubt \/ NoIdLeft)

-----------------------------------------------------------------------------
(* The inductive invariant. *)

\* A BUY in doubt is all there is: no later command trades beside it.
BuyAlone ==
    /\ row = FlatRow /\ sale = NoSale
    /\ \A l \in Lists : lists[l].state = "NONE" \/ Over(l)
    /\ base = InitialBase + buy.exec /\ buy.exec <= buy.req
    /\ pc = "idle" /\ at \in {"none", "checks", "enter"}

\* The row names a list for all that it holds: nothing was sold by the one
\* before that is not in its base.
Whole == row.open /\ row.list # NoList /\ row.applied = row.from

\* Where a command stands in its own steps, it stands in the Broker's.
CommandOK ==
    /\ cmd = "none" <=> at = "none"
    /\ pc # "idle" => at \in {"entering", "verify", "reconciling", "closing"}
    /\ call \in {"none", "enter", "exit"}
    /\ at = "enter" => ~row.open
    /\ at \in {"enter", "entering", "verify"} => cmd \in Openers
    /\ at \in {"ready", "reconciling", "due", "closing"} => cmd \notin Leavers
    /\ at = "entering" => pc # "idle" /\ call = "enter"
    /\ pc \in {"send", "sent", "lookup", "confirm"} => row.applied = row.from
    /\ pc = "fills" => SeenExecuted > 0

\* While an opener looks at its list, a fill that it did not expect ends it.
VerifyOK ==
    at = "verify" =>
        /\ pc # "filled" => Whole
        /\ pc # "idle" =>
            /\ cmd = "open_offline_fill" /\ call = "exit" /\ stage = "check"
            /\ pc \in Legs \cup {"list", "legs", "fills", "filled", "quiet"}

ReportOK ==
    /\ report # "none" => cmd = "none"
    /\ report \in Commands \ Leavers =>
        ~row.open /\ (buy # NoSale => report = "resume")
    /\ report \in Leavers => Whole /\ lists[row.list].state = "ACCEPTED"

\* No command places a list beside a SELL, as start-up does: nothing lapses.
ToolIInv ==
    /\ ToolTypeOK
    /\ ~lapsed
    /\ IF buy = NoSale THEN IInv ELSE BuyAlone
    /\ CommandOK /\ VerifyOK /\ ReportOK

=============================================================================
