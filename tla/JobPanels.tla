------------------------------ MODULE JobPanels ------------------------------
(* The two panels of the admin workspace that ask the worker for a job and      *)
(* follow it: the charges of the Keyword Market                                 *)
(* (src/apps/web/hooks/use-keyword-market-charges.ts) and the PRE price         *)
(* (src/apps/web/hooks/use-pre-usd-price.ts), with the calls of                 *)
(* keyword-market-charges.service.ts and pre-usd-price.service.ts they make.    *)
(* A panel has one reading of its view in flight at most; whoever needs a       *)
(* reading that starts now first waits for the one in flight.  A hidden page    *)
(* keeps no timer.  A request and its answer are three steps: sent, processed   *)
(* by the server, arrived.                                                      *)
EXTENDS Naturals

CONSTANT Scenarios  \* what a behaviour may do: the panels mounted, the one that
                    \* requests jobs, and how many settings are saved, jobs
                    \* requested, times the page hidden and requests lost

Panels == {"charges", "price"}

VARIABLES
  settings,  \* AdChargeSettings: how often they were saved
  job,       \* the jobs of the subject panel: [id, status] of the latest
  bound,     \* what is left of the scenario of this behaviour
  visible,   \* document.visibilityState
  panel,     \* panel[p]: what the effect of the hook keeps, see Mounted
  save,      \* the call of save of the charges panel
  saved,     \* settings of the last save that was announced by its event
  event      \* the price panel's listener of the saved settings

vars == <<settings, job, bound, visible, panel, save, saved, event>>

Ongoing == {"QUEUED", "RUNNING"}
NoJob == [id |-> 0, status |-> "NONE"]
NoView == [settings |-> 0, job |-> NoJob, loaded |-> FALSE]
Snapshot(p) == [settings |-> settings, job |-> IF p = bound.subject THEN job ELSE NoJob, loaded |-> TRUE]

Mounted ==
  [active |-> TRUE, view |-> NoView, failed |-> FALSE, pending |-> FALSE, jobId |-> 0,
   reading |-> "idle", answer |-> NoView,   \* priceRequest, reading
   polling |-> "idle", status |-> "NONE",   \* statusPending, polling
   submit |-> "idle", got |-> 0,            \* submitting
   timer |-> FALSE, refresh |-> FALSE]      \* the two timeouts

\* checkAccess, stopForAccess: the effect ends, its requests are aborted.
Stopped == [Mounted EXCEPT !.active = FALSE]

ScheduleStatus(x, v) == [x EXCEPT !.timer = x.active /\ x.jobId # 0 /\ v]
ScheduleRefresh(x, v) == [x EXCEPT !.refresh = x.active /\ v]

\* load, loadPrice: nothing while hidden, the reading in flight, or a new one.
Load(x, v) ==
  IF x.active /\ v /\ x.reading = "idle" THEN [x EXCEPT !.reading = "sent"] ELSE x

PollStatus(x, v) ==
  [x EXCEPT !.timer = FALSE,
            !.polling = IF x.active /\ x.jobId # 0 /\ v /\ @ = "idle" THEN "sent" ELSE @]

Init ==
  /\ settings = 0 /\ job = NoJob /\ bound \in Scenarios /\ visible = TRUE
  /\ panel = [p \in Panels |-> IF p \in bound.mounted THEN Load(Mounted, TRUE) ELSE Stopped]
  /\ save = "idle" /\ saved = 0 /\ event = "idle"

Becomes(p, x) == panel' = [panel EXCEPT ![p] = x]
Spend(what) == bound[what] > 0 /\ bound' = [bound EXCEPT ![what] = @ - 1]
Fault == Spend("faults")
Server == <<settings, job>>

-----------------------------------------------------------------------------
(* The view. *)

Reads(p) ==
  /\ panel[p].reading = "sent"
  /\ \/ /\ Becomes(p, [panel[p] EXCEPT !.reading = "answered", !.answer = Snapshot(p)])
        /\ UNCHANGED bound
     \/ \E end \in {"failed", "denied"} :
          Fault /\ Becomes(p, [panel[p] EXCEPT !.reading = end])
  /\ UNCHANGED <<Server, visible, save, saved, event>>

\* publish: the charges panel also adopts the job it finds queued or running.
Publish(p, x) ==
  LET shown == [x EXCEPT !.view = x.answer, !.failed = FALSE]
  IN  IF p = "charges" /\ x.jobId = 0 /\ x.answer.job.status \in Ongoing
      THEN ScheduleStatus([shown EXCEPT !.jobId = x.answer.job.id, !.pending = TRUE], visible)
      ELSE shown

\* Those that awaited this reading go on when it has ended.
Wake(x) ==
  LET polled == IF x.polling = "waiting" THEN [x EXCEPT !.polling = "ready"]
                ELSE IF x.polling = "loading"
                     THEN ScheduleStatus([x EXCEPT !.polling = "idle"], visible) ELSE x
  IN  IF polled.submit = "loading" THEN [polled EXCEPT !.submit = "idle"] ELSE polled

ReadEnds(p) ==
  LET x == panel[p]
      ended == ScheduleRefresh(
                 [IF x.reading = "answered" THEN Publish(p, x) ELSE [x EXCEPT !.failed = TRUE]
                    EXCEPT !.reading = "idle", !.answer = NoView], visible)
  IN  /\ x.reading \in {"answered", "failed", "denied"}
      /\ Becomes(p, IF x.reading = "denied" THEN Stopped ELSE Wake(ended))
      /\ save' = CASE p = "charges" /\ save = "waiting" -> "ready"
                   [] p = "charges" /\ save = "loading" -> "loaded"
                   [] OTHER -> save
      /\ event' = IF p = "price" /\ event = "waiting" THEN "ready" ELSE event
      /\ UNCHANGED <<Server, visible, saved, bound>>

RefreshDue(p) ==
  /\ panel[p].refresh
  /\ Becomes(p, Load([panel[p] EXCEPT !.refresh = FALSE], visible))
  /\ UNCHANGED <<Server, visible, save, saved, event, bound>>

-----------------------------------------------------------------------------
(* The job. *)

\* The buttons "Charge now" and "Refresh price", and the guards of run and
\* requestRefresh.
CanRequest(p) ==
  LET x == panel[p]
  IN  x.active /\ x.view.loaded /\ ~x.pending /\ x.submit = "idle" /\ x.jobId = 0

Request(p) ==
  /\ p = bound.subject /\ CanRequest(p)
  /\ Becomes(p, [panel[p] EXCEPT !.submit = "sent", !.pending = TRUE])
  /\ UNCHANGED <<Server, visible, save, saved, event, bound>>

\* run and refresh of the services: the manual job that waits or runs, or a new
\* one.  The answer may be lost after that.
Enqueue(p) ==
  LET new == IF job.status \in Ongoing THEN job ELSE [id |-> job.id + 1, status |-> "QUEUED"]
  IN  /\ panel[p].submit = "sent"
      /\ \/ /\ new.id <= bound.jobs /\ job' = new
            /\ \/ /\ Becomes(p, [panel[p] EXCEPT !.submit = "answered", !.got = new.id])
                  /\ UNCHANGED bound
               \/ Fault /\ Becomes(p, [panel[p] EXCEPT !.submit = "failed"])
         \/ /\ \E end \in {"failed", "denied"} :
                 Becomes(p, [panel[p] EXCEPT !.submit = end])
            /\ UNCHANGED job
            /\ IF new.id > bound.jobs THEN UNCHANGED bound ELSE Fault
      /\ UNCHANGED <<settings, visible, save, saved, event>>

\* A request that failed leaves the button waiting.
RequestEndsWaiting(p) ==
  LET x == panel[p]
  IN  /\ \/ /\ x.submit = "answered"
            /\ Becomes(p, ScheduleStatus([x EXCEPT !.jobId = x.got, !.got = 0, !.submit = "idle"],
                                         visible))
         \/ x.submit = "failed" /\ Becomes(p, [x EXCEPT !.submit = "idle"])
         \/ x.submit = "denied" /\ Becomes(p, Stopped)
      /\ UNCHANGED <<Server, visible, save, saved, event, bound>>

\* A failed request of the charges panel reads the view before it ends.
RequestEnds(p) ==
  LET x == panel[p]
      cleared == [x EXCEPT !.pending = FALSE, !.submit = "idle"]
      loading == Load([cleared EXCEPT !.submit = "loading"], visible)
  IN  /\ \/ /\ x.submit = "answered"
            /\ Becomes(p, ScheduleStatus([x EXCEPT !.jobId = x.got, !.got = 0, !.submit = "idle"],
                                         visible))
         \/ /\ x.submit = "failed"
            /\ Becomes(p, IF p = "charges" /\ loading.reading # "idle" THEN loading ELSE cleared)
         \/ x.submit = "denied" /\ Becomes(p, Stopped)
      /\ UNCHANGED <<Server, visible, save, saved, event, bound>>

StatusDue(p) ==
  /\ panel[p].timer
  /\ Becomes(p, PollStatus(panel[p], visible))
  /\ UNCHANGED <<Server, visible, save, saved, event, bound>>

\* A finished job stays, until a newer one pushes it out of the queue.
StatusOf(id) == IF id = job.id THEN job.status ELSE "DONE"

ReadsStatus(p) ==
  /\ panel[p].polling = "sent"
  /\ \/ Becomes(p, [panel[p] EXCEPT !.polling = "answered", !.status = StatusOf(panel[p].jobId)])
        /\ UNCHANGED bound
     \/ \E end \in {"failed", "missing", "denied"} :
          Fault /\ Becomes(p, [panel[p] EXCEPT !.polling = end])
  /\ UNCHANGED <<Server, visible, save, saved, event>>

StatusEnds(p) ==
  LET x == panel[p]
      released == [x EXCEPT !.jobId = 0, !.pending = FALSE, !.status = "NONE"]
      quiet == [x EXCEPT !.polling = "idle", !.status = "NONE"]
      loading == Load([released EXCEPT !.polling = "loading"], visible)
  IN  /\ \/ /\ x.polling = "answered" /\ x.status \in Ongoing
            /\ Becomes(p, ScheduleStatus(quiet, visible))
         \/ /\ x.polling = "answered" /\ x.status = "DONE"
            /\ Becomes(p, IF x.reading # "idle" THEN [released EXCEPT !.polling = "waiting"]
                          ELSE IF loading.reading # "idle" THEN loading
                          ELSE ScheduleStatus([released EXCEPT !.polling = "idle"], visible))
         \/ x.polling = "failed" /\ Becomes(p, ScheduleStatus(quiet, visible))
         \/ x.polling = "missing" /\ Becomes(p, ScheduleStatus([released EXCEPT !.polling = "idle"], visible))
         \/ x.polling = "denied" /\ Becomes(p, Stopped)
      /\ UNCHANGED <<Server, visible, save, saved, event, bound>>

\* After the reading that was in flight, one that starts now.
PollGoesOn(p) ==
  LET loading == Load([panel[p] EXCEPT !.polling = "loading"], visible)
  IN  /\ panel[p].polling = "ready"
      /\ Becomes(p, IF loading.reading # "idle" THEN loading
                    ELSE ScheduleStatus([panel[p] EXCEPT !.polling = "idle"], visible))
      /\ UNCHANGED <<Server, visible, save, saved, event, bound>>

\* The worker.
JobAdvances ==
  /\ job.status \in Ongoing
  /\ job' = [job EXCEPT !.status = IF @ = "QUEUED" THEN "RUNNING" ELSE "DONE"]
  /\ UNCHANGED <<settings, visible, panel, save, saved, event, bound>>

-----------------------------------------------------------------------------
(* The settings of the charges, shown by both panels. *)

ChargesPanel == panel["charges"]

Save ==
  /\ save = "idle" /\ ChargesPanel.active /\ ChargesPanel.view.loaded /\ Spend("saves")
  /\ save' = "sent"
  /\ UNCHANGED <<Server, visible, panel, saved, event>>

UpdateSettings ==
  /\ save = "sent"
  /\ \/ settings' = settings + 1 /\ save' = "answered" /\ UNCHANGED bound
     \/ Fault /\ save' = "failed" /\ settings' \in {settings, settings + 1}
  /\ UNCHANGED <<job, visible, panel, saved, event>>

\* The reading in flight is taken for the one that follows the save.
SaveReadsShared == IF visible /\ ChargesPanel.active THEN "loading" ELSE "loaded"

\* The reading that shows the saved settings starts after they were saved.
SaveReads ==
  IF ChargesPanel.reading # "idle" THEN "waiting" ELSE IF visible /\ ChargesPanel.active THEN "loading" ELSE "loaded"

SaveGoesOn ==
  \/ /\ save = "answered"
     /\ save' = SaveReads
     /\ panel' = IF save' = "loading" THEN [panel EXCEPT !["charges"] = Load(@, visible)] ELSE panel
     /\ UNCHANGED <<Server, visible, saved, event, bound>>
  \/ /\ save = "ready"
     /\ panel' = [panel EXCEPT !["charges"] = Load(@, visible)]
     /\ save' = IF panel'["charges"].reading # "idle" THEN "loading" ELSE "loaded"
     /\ UNCHANGED <<Server, visible, saved, event, bound>>
  \/ /\ save \in {"failed", "loaded"} /\ save' = "idle"
     /\ IF save = "loaded" /\ ChargesPanel.active
        THEN /\ saved' = settings
             /\ event' = IF panel["price"].reading # "idle" THEN "waiting" ELSE "idle"
             /\ panel' = [panel EXCEPT !["price"] = Load(@, visible)]
        ELSE UNCHANGED <<saved, event, panel>>
     /\ UNCHANGED <<Server, visible, bound>>

\* refreshSettings of the price panel after the reading it waited for.
EventGoesOn ==
  /\ event = "ready" /\ event' = "idle"
  /\ panel' = [panel EXCEPT !["price"] = Load(@, visible)]
  /\ UNCHANGED <<Server, visible, save, saved, bound>>

-----------------------------------------------------------------------------
(* refreshVisible *)

Hide ==
  /\ visible /\ Spend("hides") /\ visible' = FALSE
  /\ panel' = [p \in Panels |-> [panel[p] EXCEPT !.timer = FALSE, !.refresh = FALSE]]
  /\ UNCHANGED <<Server, save, saved, event>>

\* Only the view is read again when the page comes back.
ShowUnpolled ==
  /\ ~visible /\ visible' = TRUE
  /\ panel' = [p \in Panels |-> Load(panel[p], TRUE)]
  /\ UNCHANGED <<Server, bound, save, saved, event>>

Show ==
  /\ ~visible /\ visible' = TRUE
  /\ panel' = [p \in Panels |-> LET x == Load(panel[p], TRUE)
                                IN  IF x.jobId # 0 THEN PollStatus(x, TRUE) ELSE x]
  /\ UNCHANGED <<Server, bound, save, saved, event>>

PanelStep(p) ==
  \/ Reads(p) \/ ReadEnds(p) \/ RefreshDue(p) \/ Request(p) \/ Enqueue(p) \/ RequestEnds(p)
  \/ StatusDue(p) \/ ReadsStatus(p) \/ StatusEnds(p) \/ PollGoesOn(p)

Next ==
  \/ \E p \in Panels : PanelStep(p)
  \/ JobAdvances \/ Save \/ UpdateSettings \/ SaveGoesOn \/ EventGoesOn \/ Hide \/ Show

Spec == Init /\ [][Next]_vars

\* Requests end (the browser's and the services' timeouts), timers fire, the
\* worker runs its queue; the page comes back.  A request by the administrator is
\* left to the administrator.
Reading(p) == Reads(p) \/ ReadEnds(p)
Requesting(p) == Enqueue(p) \/ RequestEnds(p)
Polling(p) == StatusDue(p) \/ ReadsStatus(p) \/ StatusEnds(p) \/ PollGoesOn(p)

Progress ==
  /\ \A p \in Panels :
       /\ WF_vars(Reading(p)) /\ WF_vars(RefreshDue(p))
       /\ WF_vars(Requesting(p)) /\ WF_vars(Polling(p))
  /\ WF_vars(JobAdvances) /\ WF_vars(UpdateSettings \/ SaveGoesOn)
  /\ WF_vars(EventGoesOn) /\ WF_vars(Show)

FairSpec == Spec /\ Progress

-----------------------------------------------------------------------------
(* Properties. *)

\* No wake-up is lost: while the page is visible a panel that follows a job has
\* a timer or a request for it, and a panel that reads nothing has the timer of
\* its next reading.
NoLostWakeUp ==
  visible => \A p \in Panels :
    LET x == panel[p]
    IN  x.active => /\ x.jobId # 0 => x.timer \/ x.polling # "idle"
                    /\ x.reading = "idle" => x.refresh

\* Settings that were saved and announced are what both panels show, unless the
\* reading that followed failed, is still to come, or the panel was stopped.
SavedIsShown ==
  \A p \in Panels :
    LET x == panel[p]
    IN  visible /\ x.active /\ ~x.failed /\ x.reading = "idle" /\ (p = "price" => event = "idle")
        => x.view.settings >= saved

PanelsInv == NoLostWakeUp /\ SavedIsShown

\* A job the panel shows as pending ends there: whether its request was lost, the
\* page hidden, the status unreachable or the job adopted from a reading, the
\* button is released.
PendingEnds == \A p \in Panels : panel[p].pending ~> ~panel[p].pending
=============================================================================
