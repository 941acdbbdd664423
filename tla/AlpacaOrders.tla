---------------------------- MODULE AlpacaOrders ----------------------------
(* What the engine believes of an order and what the venue does with it:    *)
(* the Alpaca execution client (providers/alpaca/exec_client.py), which has *)
(* no order stream and learns everything by asking, and the guard over a    *)
(* read that failed (exec_read_guard.py).                                   *)
(*                                                                          *)
(* Three parties act.  The venue, a POST or DELETE on its way to it and an  *)
(* answer on its way back.  The client, a coroutine per submit or cancel.   *)
(* Nautilus's own two timers, as the code relies on them: the inflight      *)
(* check asks for one order at a time and in the end resolves it unanswered,*)
(* the consistency check reads all orders and asks for those it misses.     *)
(* Time is left out: a timer may fire at any moment it is armed.            *)
EXTENDS Integers, FiniteSets

CONSTANTS
    Order,
    Asks,                       \* _SUBMIT_LOOKUP_ATTEMPTS
    InflightRetries,            \* inflight_check_max_retries
    MissingRetries,             \* open_check_missing_retries
    MaxFaults, MaxCrashes       \* bounds of a run

ASSUME AlpacaAssumption ==
    /\ {Asks, InflightRetries, MissingRetries} \subseteq Nat \ {0}
    /\ {MaxFaults, MaxCrashes} \subseteq Nat

VARIABLES
    venue,      \* the venue's record of the order
    posts, deletes,     \* orders whose POST, whose DELETE is on its way
    cached,     \* the order's status in the Nautilus cache, kept in Redis
    submit,     \* the submit of the order: [at, asks, lost, reply]
    cancel,     \* the DELETE of the order: its reply, or "none"
    strikes,    \* asks or reads in a row that did not find the order
    check,      \* the consistency check: [at, seen]
    reading,    \* another reader of all orders is waiting for its answer
    outcome,    \* _venue_read_outcome of the client
    sweeping,   \* a cancel-all of the instrument waits for its listing
    late, gaveUp, misread, unlisted,    \* history: see NoCorpse
    contradicted,           \* history: acceptances the cache refused
    overruled,              \* history: see NothingFromSilence
    faults, crashes

records == <<venue, posts, deletes>>
tasks == <<submit, cancel, sweeping>>
reads == <<check, reading, outcome>>
history == <<late, gaveUp, misread, unlisted, contradicted, overruled>>
bounds == <<faults, crashes>>
vars == <<venue, posts, deletes, cached, submit, cancel, strikes, check, reading,
          outcome, sweeping, late, gaveUp, misread, unlisted, contradicted, overruled,
          faults, crashes>>

Dead == {"REJECTED", "CANCELED", "FILLED"}
(* CANCEL_UNSENT is PENDING_CANCEL of an order that had no venue id when it *)
(* was canceled, so that no DELETE was sent.                                *)
CancelPending == {"PENDING_CANCEL", "CANCEL_UNSENT"}
NoSubmit == [at |-> "none", asks |-> 0, lost |-> 0, reply |-> "none"]
Unseen == [o \in Order |-> "none"]
IdleCheck == [at |-> "idle", seen |-> Unseen]

Fault == faults < MaxFaults /\ faults' = faults + 1 /\ UNCHANGED crashes

-----------------------------------------------------------------------------
(* The cache.  An event its order cannot take is refused and logged.        *)

\* Mutant: an order that is done for the day reads as resting.
VerdictDoneRests == [live |-> "ACCEPTED", filled |-> "FILLED", canceled |-> "ACCEPTED"]

(* _ALPACA_TO_ORDER_STATUS. *)
Verdict == [live |-> "ACCEPTED", filled |-> "FILLED", canceled |-> "CANCELED"]

(* An order report: a live order that is only submitted is accepted, a      *)
(* closed one closes, and what is closed in the cache stays closed.         *)
Reported(status, record) ==
    IF status \in Dead \cup {"NEW"} \/ (record = "live" /\ status # "SUBMITTED")
    THEN status ELSE Verdict[record]

Believe(o, status) ==
    /\ cached' = [cached EXCEPT ![o] = status]
    /\ strikes' = [strikes EXCEPT ![o] = 0]

(* generate_order_accepted, generate_order_rejected.  An order that pends   *)
(* its cancel may refuse the rejection.                                     *)
Accept(o, by) ==
    IF cached[o] \in {"SUBMITTED"} \cup CancelPending
    THEN Believe(o, "ACCEPTED") /\ UNCHANGED contradicted
    ELSE /\ contradicted' = IF cached[o] \in Dead THEN contradicted \cup {<<o, by>>} ELSE contradicted
         /\ UNCHANGED <<cached, strikes>>

Reject(o) ==
    \/ cached[o] \notin Dead /\ Believe(o, "REJECTED")
    \/ cached[o] \in Dead \cup CancelPending /\ UNCHANGED <<cached, strikes>>

Done(o) == submit' = [submit EXCEPT ![o] = NoSubmit]

-----------------------------------------------------------------------------
(* Submitting: _submit_order, _post_order, _lookup_after_unanswered_submit. *)

(* The budget gate refuses, or the stop is on the wrong side of the market.  *)
RefuseLocally(o) ==
    /\ cached[o] = "NEW"
    /\ Believe(o, "REJECTED")
    /\ UNCHANGED <<records, tasks, reads, history, bounds>>

SubmitOrder(o) ==
    /\ cached[o] = "NEW"
    /\ Believe(o, "SUBMITTED")
    /\ posts' = posts \cup {o}
    /\ submit' = [submit EXCEPT ![o] = [NoSubmit EXCEPT !.at = "posting"]]
    /\ UNCHANGED <<venue, deletes, cancel, sweeping, reads, history, bounds>>

(* The venue has written 4xx, or accepted. *)
PostAnswered(o) ==
    /\ submit[o].at = "posting"
    /\ \/ submit[o].reply = "live" /\ Accept(o, "post")
       \/ submit[o].reply = "refused" /\ Reject(o) /\ UNCHANGED contradicted
    /\ Done(o)
    /\ UNCHANGED <<records, cancel, sweeping, reads, late, gaveUp, misread, unlisted, overruled, bounds>>

(* Any status from 400 up is an answered failure, a gateway's 5xx too.      *)
PostMisread(o) ==
    /\ submit[o].at = "posting"
    /\ Fault
    /\ Reject(o)
    /\ misread' = misread \cup {o}
    /\ Done(o)
    /\ UNCHANGED <<records, cancel, sweeping, reads, late, gaveUp, unlisted, contradicted, overruled>>

PostUnanswered(o) ==
    /\ submit[o].at = "posting"
    /\ Fault
    /\ submit' = [submit EXCEPT ![o] = [NoSubmit EXCEPT !.at = "asking"]]
    /\ UNCHANGED <<records, cached, strikes, cancel, sweeping, reads, history>>

(* Nautilus may have resolved the order meanwhile. *)
StillSubmitted(o) == cached[o] = "SUBMITTED"

(* _LANDED_STATUSES.  Done for the day counts as landed, and is reported as *)
(* canceled by Verdict.  "unlanded" stands for the open statuses that are   *)
(* not in the list: suspended, pending_cancel, pending_replace.             *)
Landed == {"live", "filled", "canceled"}

(* The venue knows the order: a verdict, unless the cache has one.  What is *)
(* not in the list is rejected, dead or alive.                              *)
AskFinds(o) ==
    LET found == submit[o].reply
    IN  /\ submit[o].at = "asking" /\ found \in DOMAIN Verdict \cup {"unlanded"}
        /\ \/ ~StillSubmitted(o) /\ UNCHANGED <<cached, strikes, unlisted, contradicted>>
           \/ StillSubmitted(o) /\ found \in Landed /\ Accept(o, "lookup") /\ UNCHANGED unlisted
           \/ StillSubmitted(o) /\ found \in {"canceled", "unlanded"} /\ Reject(o)
              /\ unlisted' = unlisted \cup (IF found = "unlanded" THEN {o} ELSE {})
              /\ UNCHANGED contradicted
        /\ Done(o)
    /\ UNCHANGED <<records, cancel, sweeping, reads, late, gaveUp, misread, overruled, bounds>>

\* Only a 404 on every ask says that the order never landed.
NeverLanded(lost) == lost = Asks

\* Mutant: one ask more than the client may make.
AskedInVainOnceMore(o, lost) ==
    /\ submit' = [submit EXCEPT ![o].asks = @ + 1, ![o].lost = lost, ![o].reply = "none"]
    /\ UNCHANGED <<cached, strikes, late>>

(* One ask is over without the order: the next one, or the last word. *)
AskedInVain(o, lost) ==
    IF submit[o].asks + 1 < Asks
    THEN /\ submit' = [submit EXCEPT ![o].asks = @ + 1, ![o].lost = lost, ![o].reply = "none"]
         /\ UNCHANGED <<cached, strikes, late>>
    ELSE /\ IF NeverLanded(lost)
            THEN Reject(o) /\ late' = late \cup {o}
            ELSE UNCHANGED <<cached, strikes, late>>
         /\ Done(o)

AskNotFound(o) ==
    /\ submit[o].at = "asking" /\ submit[o].reply = "none404"
    /\ AskedInVain(o, submit[o].lost + 1)
    /\ UNCHANGED <<records, cancel, sweeping, reads, gaveUp, misread, unlisted, contradicted, overruled, bounds>>

AskUnanswered(o) ==
    /\ submit[o].at = "asking" /\ submit[o].reply = "none"
    /\ Fault
    /\ AskedInVain(o, submit[o].lost)
    /\ UNCHANGED <<records, cancel, sweeping, reads, gaveUp, misread, unlisted, contradicted, overruled>>

-----------------------------------------------------------------------------
(* Canceling: _cancel_order, _cancel_all_orders. *)

CancelOrder(o) ==
    /\ cached[o] = "ACCEPTED" /\ cancel[o] = "none"
    /\ Believe(o, "PENDING_CANCEL")
    /\ deletes' = deletes \cup {o}
    /\ cancel' = [cancel EXCEPT ![o] = "deleting"]
    /\ UNCHANGED <<venue, posts, submit, sweeping, reads, history, bounds>>

(* An order the cache has only submitted has no venue id: the cancel is     *)
(* logged, and the order is left pending.                                   *)
CancelWithoutId(o) ==
    /\ cached[o] = "SUBMITTED"
    /\ Believe(o, "CANCEL_UNSENT")
    /\ UNCHANGED <<records, tasks, reads, history, bounds>>

(* generate_order_cancel_rejected: the order is open again, as far as it    *)
(* was before.  One that was not may refuse the event.                      *)
Reopen(orders) ==
    \E unsent \in SUBSET {o \in orders : cached[o] = "CANCEL_UNSENT"} :
       LET back == {o \in orders : cached[o] = "PENDING_CANCEL"}
       IN  /\ cached' = [o \in Order |-> CASE o \in back -> "ACCEPTED" [] o \in unsent -> "SUBMITTED"
                                            [] OTHER -> cached[o]]
           /\ strikes' = [o \in Order |-> IF o \in back \cup unsent THEN 0 ELSE strikes[o]]

(* Nothing is reported of a DELETE that was taken. *)
CancelTaken(o) ==
    /\ cancel[o] = "taken"
    /\ cancel' = [cancel EXCEPT ![o] = "none"]
    /\ UNCHANGED <<records, cached, submit, strikes, sweeping, reads, history, bounds>>

CancelFails(o) ==
    /\ \/ cancel[o] = "refused" /\ UNCHANGED bounds
       \/ cancel[o] \in {"deleting", "taken"} /\ Fault
    /\ cancel' = [cancel EXCEPT ![o] = "none"]
    /\ Reopen({o})
    /\ UNCHANGED <<records, submit, sweeping, reads, history>>

CancelAllOrders ==
    /\ ~sweeping /\ sweeping' = TRUE
    /\ \E o \in Order : cached[o] = "ACCEPTED"
    /\ cached' = [o \in Order |-> IF cached[o] = "ACCEPTED" THEN "PENDING_CANCEL" ELSE cached[o]]
    /\ strikes' = [o \in Order |-> IF cached[o] = "ACCEPTED" THEN 0 ELSE strikes[o]]
    /\ UNCHANGED <<records, submit, cancel, reads, history, bounds>>

(* Every order the venue lists as open gets its DELETE. *)
SweepListed ==
    /\ sweeping /\ sweeping' = FALSE
    /\ LET listed == {o \in Order : venue[o] = "live"}
       IN  /\ deletes' = deletes \cup listed
           /\ cancel' = [o \in Order |-> IF o \in listed THEN "deleting" ELSE cancel[o]]
    /\ UNCHANGED <<venue, posts, cached, submit, strikes, reads, history, bounds>>

\* Mutant: a listing that failed is only logged.
SweepFailsSilently ==
    /\ sweeping /\ sweeping' = FALSE
    /\ Fault
    /\ UNCHANGED <<records, cached, strikes, submit, cancel, reads, history>>

(* Nothing was canceled: every order the cache has open is reopened. *)
SweepFails ==
    /\ sweeping /\ sweeping' = FALSE
    /\ Fault
    /\ Reopen(Order)
    /\ UNCHANGED <<records, submit, cancel, reads, history>>

-----------------------------------------------------------------------------
(* generate_order_status_report: one order, asked for by Nautilus's checks. *)

Holdable == {"ACCEPTED"}

\* Mutant: the hold covers an order in flight.
UnansweredHoldsInflight(o) == IF cached[o] \in {"ACCEPTED", "SUBMITTED"} THEN "hold" ELSE "nothing"

\* Mutant: an ask without an answer reports nothing.
UnansweredNothing(o) == "nothing"

(* _hold_or_none: no answer, so the cache's own word for a resting order.   *)
Unanswered(o) == IF cached[o] \in Holdable THEN "hold" ELSE "nothing"

(* 404 is an answer: nothing to report. *)
Answer(o) == IF venue[o] = "none" THEN "nothing" ELSE venue[o]

(* The venue is asked now; the report is the venue's or the client's.       *)
Asked(o, report) ==
    \/ report = Answer(o) /\ UNCHANGED bounds
    \/ report = Unanswered(o) /\ Fault

Report == {"hold", "nothing", "live", "filled", "canceled"}

(* A hold is reconciled like any report, and accepts what is in flight.     *)
Reconcile(o, report) ==
    Believe(o, Reported(cached[o], IF report = "hold" THEN "live" ELSE report))

(* The inflight check, as LiveExecEngineConfig sets it. *)
InflightAsks(o) ==
    /\ cached[o] \in {"SUBMITTED"} \cup CancelPending /\ strikes[o] < InflightRetries
    /\ \E report \in Report :
          /\ Asked(o, report)
          /\ IF report = "nothing"
             THEN strikes' = [strikes EXCEPT ![o] = @ + 1] /\ UNCHANGED cached
             ELSE Reconcile(o, report)
    /\ UNCHANGED <<records, tasks, reads, history>>

(* In the end it decides by itself. *)
InflightGivesUp(o) ==
    /\ cached[o] \in {"SUBMITTED"} \cup CancelPending /\ strikes[o] = InflightRetries
    /\ Believe(o, IF cached[o] = "SUBMITTED" THEN "REJECTED" ELSE "CANCELED")
    /\ gaveUp' = gaveUp \cup {o}
    /\ UNCHANGED <<records, tasks, reads, late, misread, unlisted, contradicted, overruled, bounds>>

-----------------------------------------------------------------------------
(* The consistency check, its read of all orders, and the guard over it.    *)

CheckBegins ==
    /\ check.at = "idle"
    /\ check' = [check EXCEPT !.at = "asked"]
    /\ UNCHANGED <<records, cached, tasks, strikes, reading, outcome, history, bounds>>

CheckAnswered ==
    /\ check.at = "asked"
    /\ check' = [at |-> "answered", seen |-> venue]
    /\ outcome' = "ok"
    /\ UNCHANGED <<records, cached, tasks, strikes, reading, history, bounds>>

CheckFails ==
    /\ check.at = "asked"
    /\ Fault
    /\ check' = [check EXCEPT !.at = "failed"]
    /\ outcome' = "failed"
    /\ UNCHANGED <<records, cached, tasks, strikes, reading, history>>

(* The reconciler and the release read all orders through the same method,  *)
(* and so leave their outcome in the same place.                            *)
OtherReads ==
    /\ ~reading /\ reading' = TRUE
    /\ UNCHANGED <<records, cached, tasks, strikes, check, outcome, history, bounds>>

OtherAnswered ==
    /\ reading /\ reading' = FALSE
    /\ outcome' = "ok"
    /\ overruled' = (overruled \/ check.at = "failed")
    /\ UNCHANGED <<records, cached, tasks, strikes, check, late, gaveUp, misread, unlisted,
                   contradicted, bounds>>

OtherFails ==
    /\ reading /\ reading' = FALSE
    /\ Fault
    /\ outcome' = "failed"
    /\ UNCHANGED <<records, cached, tasks, strikes, check, history>>

\* Mutant: no guard over the read.
MayConcludeAlways == TRUE

(* The guard refuses the pass when the last read failed, or none was made.  *)
MayConclude == outcome = "ok"

(* The reports are reconciled; an order that rests in the cache and is in   *)
(* no report takes a strike.                                                *)
CheckConcludes ==
    /\ check.at \in {"answered", "failed"}
    /\ check' = IdleCheck /\ overruled' = FALSE
    /\ LET seen == {o \in Order : check.seen[o] # "none"}
           missed == IF MayConclude THEN {o \in Order \ seen : cached[o] = "ACCEPTED"} ELSE {}
       IN  /\ cached' = [o \in Order |-> IF o \in seen THEN Reported(cached[o], check.seen[o]) ELSE cached[o]]
           /\ strikes' = [o \in Order |-> CASE o \in seen -> 0
                                            [] o \in missed /\ strikes[o] < MissingRetries -> strikes[o] + 1
                                            [] OTHER -> strikes[o]]
    /\ UNCHANGED <<records, tasks, reading, outcome, late, gaveUp, misread, unlisted,
                   contradicted, bounds>>

(* Struck out: the order is asked for by name, and rejected if nothing is   *)
(* reported of it.                                                          *)
MissingAsks(o) ==
    /\ cached[o] = "ACCEPTED" /\ strikes[o] = MissingRetries
    /\ \E report \in Report :
          /\ Asked(o, report)
          /\ IF report = "nothing" THEN Believe(o, "REJECTED") ELSE Reconcile(o, report)
    /\ UNCHANGED <<records, tasks, reads, history>>

-----------------------------------------------------------------------------
(* The venue and the network. *)

Waiting(o) == submit[o].at = "posting" /\ submit[o].reply = "none"

VenueAccepts(o) ==
    /\ o \in posts /\ posts' = posts \ {o}
    /\ venue' = [venue EXCEPT ![o] = "live"]
    /\ submit' = IF Waiting(o) THEN [submit EXCEPT ![o].reply = "live"] ELSE submit
    /\ UNCHANGED <<deletes, cached, cancel, strikes, sweeping, reads, history, bounds>>

VenueRefuses(o) ==
    /\ o \in posts /\ posts' = posts \ {o}
    /\ submit' = IF Waiting(o) THEN [submit EXCEPT ![o].reply = "refused"] ELSE submit
    /\ UNCHANGED <<venue, deletes, cached, cancel, strikes, sweeping, reads, history, bounds>>

(* The POST was lost before it reached the venue. *)
PostLost(o) ==
    /\ o \in posts /\ posts' = posts \ {o}
    /\ Fault
    /\ UNCHANGED <<venue, deletes, cached, tasks, strikes, reads, history>>

(* An order that lives shows any of the open statuses. *)
VenueAnswersAsk(o) ==
    /\ submit[o].at = "asking" /\ submit[o].reply = "none"
    /\ \E reply \in CASE venue[o] = "none" -> {"none404"} [] venue[o] = "live" -> {"live", "unlanded"}
                       [] OTHER -> {venue[o]} :
          submit' = [submit EXCEPT ![o].reply = reply]
    /\ UNCHANGED <<records, cached, cancel, strikes, sweeping, reads, history, bounds>>

VenueCancels(o) ==
    /\ o \in deletes /\ deletes' = deletes \ {o}
    /\ venue' = [venue EXCEPT ![o] = IF @ = "live" THEN "canceled" ELSE @]
    /\ cancel' = IF cancel[o] # "deleting" THEN cancel
                 ELSE [cancel EXCEPT ![o] = IF venue[o] = "live" THEN "taken" ELSE "refused"]
    /\ UNCHANGED <<posts, cached, submit, strikes, sweeping, reads, history, bounds>>

DeleteLost(o) ==
    /\ o \in deletes /\ deletes' = deletes \ {o}
    /\ Fault
    /\ UNCHANGED <<venue, posts, cached, tasks, strikes, reads, history>>

VenueCloses(o) ==
    /\ venue[o] = "live"
    /\ \E record \in {"filled", "canceled"} : venue' = [venue EXCEPT ![o] = record]
    /\ UNCHANGED <<posts, deletes, cached, tasks, strikes, reads, history, bounds>>

(* The process dies and is started again: its tasks and counters are gone,  *)
(* the cache comes back from Redis.                                         *)
Restart ==
    /\ crashes < MaxCrashes /\ crashes' = crashes + 1
    /\ submit' = [o \in Order |-> NoSubmit] /\ cancel' = [o \in Order |-> "none"]
    /\ strikes' = [o \in Order |-> 0]
    /\ check' = IdleCheck /\ reading' = FALSE /\ outcome' = "never" /\ sweeping' = FALSE
    /\ overruled' = FALSE
    /\ UNCHANGED <<records, cached, late, gaveUp, misread, unlisted, contradicted, faults>>

-----------------------------------------------------------------------------
(* The specification. *)

Init ==
    /\ venue = Unseen /\ posts = {} /\ deletes = {}
    /\ cached = [o \in Order |-> "NEW"]
    /\ submit = [o \in Order |-> NoSubmit] /\ cancel = [o \in Order |-> "none"]
    /\ strikes = [o \in Order |-> 0]
    /\ check = IdleCheck /\ reading = FALSE /\ outcome = "never" /\ sweeping = FALSE
    /\ late = {} /\ gaveUp = {} /\ misread = {} /\ unlisted = {} /\ contradicted = {}
    /\ overruled = FALSE
    /\ faults = 0 /\ crashes = 0

SubmitStep(o) ==
    \/ PostAnswered(o) \/ PostMisread(o) \/ PostUnanswered(o)
    \/ AskFinds(o) \/ AskNotFound(o) \/ AskUnanswered(o)

CancelStep(o) == CancelTaken(o) \/ CancelFails(o)
CheckStep == CheckBegins \/ CheckAnswered \/ CheckFails \/ CheckConcludes
OtherStep == OtherReads \/ OtherAnswered \/ OtherFails
SweepStep == SweepListed \/ SweepFails
InflightStep(o) == InflightAsks(o) \/ InflightGivesUp(o)
VenueStep(o) ==
    \/ VenueAccepts(o) \/ VenueRefuses(o) \/ PostLost(o) \/ VenueAnswersAsk(o)
    \/ VenueCancels(o) \/ DeleteLost(o) \/ VenueCloses(o)

Next ==
    \/ \E o \in Order :
          \/ RefuseLocally(o) \/ SubmitOrder(o) \/ SubmitStep(o) \/ CancelOrder(o)
          \/ CancelWithoutId(o) \/ CancelStep(o)
          \/ InflightStep(o) \/ MissingAsks(o) \/ VenueStep(o)
    \/ CancelAllOrders \/ SweepStep \/ CheckStep \/ OtherStep \/ Restart

Spec == Init /\ [][Next]_vars

(* The checks are timers of a running process, a coroutine runs to its end, *)
(* and an answer that is not lost arrives.                                  *)
Fairness ==
    /\ \A o \in Order :
          /\ WF_vars(SubmitStep(o)) /\ WF_vars(CancelStep(o)) /\ WF_vars(InflightStep(o))
          /\ WF_vars(MissingAsks(o)) /\ WF_vars(VenueAnswersAsk(o))
          /\ WF_vars(VenueAccepts(o) \/ VenueRefuses(o) \/ PostLost(o))
          /\ WF_vars(VenueCancels(o) \/ DeleteLost(o))
    /\ WF_vars(CheckStep) /\ WF_vars(SweepStep)

FairSpec == Spec /\ Fairness

-----------------------------------------------------------------------------
(* Properties. *)

Record == {"none", "live", "filled", "canceled"}
Status == Dead \cup {"NEW", "SUBMITTED", "ACCEPTED"} \cup CancelPending
Submit == [at : {"none", "posting", "asking"}, asks : 0..Asks - 1, lost : 0..Asks - 1,
           reply : Record \cup {"none404", "unlanded", "refused"}]

TypeOK ==
    /\ venue \in [Order -> Record]
    /\ posts \subseteq Order /\ deletes \subseteq Order
    /\ cached \in [Order -> Status] /\ strikes \in [Order -> Nat]
    /\ submit \in [Order -> Submit]
    /\ cancel \in [Order -> {"none", "deleting", "taken", "refused"}]
    /\ check \in [at : {"idle", "asked", "answered", "failed"}, seen : [Order -> Record]]
    /\ reading \in BOOLEAN /\ sweeping \in BOOLEAN /\ outcome \in {"never", "ok", "failed"}
    /\ faults \in 0..MaxFaults /\ crashes \in 0..MaxCrashes

(* "a resting stop into a corpse that kept resting at the venue" (exec_     *)
(* client.py:1415): an order that rests at the venue is not closed in the   *)
(* cache, whatever is lost, late or restarted, unless its POST arrived      *)
(* after the venue had denied it on every ask, a 5xx on it was taken for a  *)
(* refusal, the inflight check had run out of retries, or the lookup found  *)
(* it in an open status that _LANDED_STATUSES leaves out.                   *)
NoCorpse ==
    \A o \in Order : venue[o] = "live" /\ cached[o] \in Dead =>
        o \in late \cup gaveUp \cup misread \cup unlisted

(* The other direction: an order that the cache shows as accepted, or as    *)
(* pending a cancel that was sent, has been at the venue.  A hold never     *)
(* makes an order out of an unanswered ask.  A cancel that was not sent     *)
(* shows nothing of the venue.                                              *)
NoPhantom ==
    \A o \in Order : cached[o] \in {"ACCEPTED", "PENDING_CANCEL"} => venue[o] # "none"

(* "must not receive a second, contradictory acceptance" (exec_client.py:   *)
(* 883): the lookup never accepts an order that Nautilus has closed.        *)
LookupNeverContradicts == \A o \in Order : <<o, "lookup">> \notin contradicted

(* "A venue order read that FAILED must not be read as a venue that holds   *)
(* no orders" (exec_read_guard.py:1): a failed read gives no order a strike,*)
(* unless the answer to another reader has overwritten this very failure.   *)
NothingFromSilence ==
    [][check.at = "failed" /\ check'.at = "idle" /\ ~overruled =>
           \A o \in Order : strikes'[o] <= strikes[o]]_vars

(* An order whose cancel was sent and that still rests has a task that will *)
(* see its DELETE fail: "an order the operator believes cancelled can fill  *)
(* later" (exec_client.py:1310).  A restart loses tasks, and a cancel that  *)
(* was not sent has none.                                                   *)
CancelPursued ==
    crashes = 0 =>
        \A o \in Order : cached[o] = "PENDING_CANCEL" /\ venue[o] = "live" =>
            cancel[o] # "none" \/ sweeping

(* No submit hangs in flight, and what the venue has closed is closed in    *)
(* the cache: no fill and no cancel stays unseen.                           *)
Surfaces ==
    \A o \in Order :
        /\ cached[o] = "SUBMITTED" ~> cached[o] # "SUBMITTED"
        /\ cached[o] \notin Dead /\ venue[o] \in {"filled", "canceled"} ~> cached[o] \in Dead

-----------------------------------------------------------------------------
(* Promises the code does not keep: see README. *)

\* "Anything terminal-and-dead (rejected / canceled / expired) is a rejection"
\* (exec_client.py:829): the lookup rejects nothing that lives.
RejectedIsDead == \A o \in unlisted : venue[o] = "live" => cached[o] # "REJECTED"

\* "an order the operator believes cancelled can fill later" (exec_client.py:
\* 1310): every order that pends its cancel and rests has a task that will
\* cancel it, or say that it could not.
EveryCancelPursued ==
    crashes = 0 =>
        \A o \in Order : cached[o] \in CancelPending /\ venue[o] = "live" =>
            cancel[o] # "none" \/ sweeping \/ submit[o].at # "none"
=============================================================================
